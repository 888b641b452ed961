------------------------- MODULE KogitoCLIProofs -------------------------
(***************************************************************************)
(* Proofs about the command line: what its processes do to the kubeconfig  *)
(* file and to the objects in the cluster, however many run at the same    *)
(* time, whatever they are asked for and wherever they are interrupted.    *)
(***************************************************************************)
EXTENDS KogitoCLI, CLIArgumentsProofs, TLAPS

-----------------------------------------------------------------------------
(* The inductive invariant.                                                 *)

AtWork == {"file", "crds", "fetch", "create", "update"}
AtUpload == {"read", "wait", "post"}

InstallKinds(cmd) ==
  IF cmd.op = "deploy-service"
  THEN {"ConfigMap", "KogitoRuntime"} \cup (IF cmd.flags.image = "" THEN {"KogitoBuild"} ELSE {})
  ELSE IF cmd.op = "install-service" THEN {"ConfigMap", "KogitoSupportingService"}
  ELSE IF cmd.op = "install-infra" THEN {"KogitoInfra"} ELSE {}

\* Where a process can be, by its command.
Flow(p) ==
  /\ p.pc \in {"idle", "failed"} <=> p.cmd = NoCommand
  /\ p.cmd # NoCommand => CheckArgs(Cmd(p)) /\ (p.pc # "context" => p.project \in Projects)
  /\ p.pc = "lookup" => Cmd(p).op \in {"use-project", "new-project"}
  /\ p.pc \in AtWork => p.kind \in InstallKinds(Cmd(p))
  /\ p.pc = "file" => p.kind = "ConfigMap"
  /\ p.pc \in AtUpload => /\ Cmd(p).op = "deploy-service" /\ Cmd(p).flags.image = ""
                          /\ p.kind = "KogitoBuild" /\ Uploads(Cmd(p))
  /\ p.kind = "KogitoBuild" /\ p.pc \in {"fetch", "create", "update"} \cup AtUpload =>
       ValidatePreRequisite(Cmd(p))
  /\ p.pc = "console" => Cmd(p).op = "deploy-service"
  /\ p.pc \in {"check", "delete"} =>
       \/ Cmd(p).op = "delete-service" /\ p.kind \in {"KogitoRuntime", "KogitoBuild"}
       \/ Cmd(p).op = "remove-infra" /\ p.kind = "KogitoInfra"
  /\ p.pc \in {"list", "each"} => Cmd(p).op = "remove-service"
  /\ p.pc = "drop" => Cmd(p).op = "delete-project"

\* A process that is about to write the kubeconfig file found one with a
\* context, and keeps its cluster.
Saving(p, cluster) ==
  p.pc = "save" => /\ ConfigIsSound(p.config) /\ p.config.current # NoContext
                   /\ ClusterOf(p.config) = cluster

\* The kinds of objects a process has installed, and those it has deleted.
Made(p) ==
  IF p.pc \in {"ok", "console"} THEN InstalledBy(Cmd(p))
  ELSE IF p.pc \in AtWork /\ p.kind \in {"KogitoRuntime", "KogitoSupportingService"}
  THEN InstalledBy(Cmd(p)) \ {p.kind}
  ELSE IF \/ p.pc \in AtUpload
          \/ /\ p.pc \in AtWork /\ p.kind = "ConfigMap"
             /\ Cmd(p).op = "deploy-service" /\ Cmd(p).flags.image = ""
  THEN {"KogitoBuild"} ELSE {}
Gone(p) ==
  IF Cmd(p).op = "delete-service" /\ p.pc = "ok" THEN {"KogitoRuntime", "KogitoBuild"}
  ELSE IF Cmd(p).op = "delete-service" /\ p.pc \in {"check", "delete"} /\ p.kind = "KogitoBuild"
  THEN {"KogitoRuntime"}
  ELSE IF Cmd(p).op = "remove-infra" /\ p.pc = "ok" THEN {"KogitoInfra"} ELSE {}

\* The objects of the set O that remove-service and delete-project are to
\* delete, and those a process knows of.
ToDelete(p, O) ==
  IF Cmd(p).op = "remove-service" /\ p.pc \in {"each", "ok"}
  THEN {k \in DOMAIN O : /\ k.project = p.project /\ k.kind = "KogitoSupportingService"
                         /\ O[k].type = Cmd(p).type}
  ELSE IF Cmd(p).op = "delete-project" /\ p.pc = "ok"
  THEN {k \in DOMAIN O : k.project = p.project} ELSE {}
Known(p) == p.touched \cup (IF p.pc = "each" THEN p.list ELSE {})

KeyOf(p, kind) == ObjectKey(p.project, kind, Cmd(p).name)

\* What a process did is still there in the objects O, but for those that
\* others changed.
Progress(p, O) ==
  p.cmd # NoCommand =>
    /\ \A kind \in Made(p) : \/ KeyOf(p, kind) \in p.touched
                             \/ /\ KeyOf(p, kind) \in DOMAIN O
                                /\ O[KeyOf(p, kind)] = Resources[p.cmd][kind]
    /\ \A kind \in Gone(p) : KeyOf(p, kind) \in p.touched \/ KeyOf(p, kind) \notin DOMAIN O
    /\ ToDelete(p, O) \subseteq Known(p)

\* KogitoBuilds are only there on an OpenShift.
BuildsOnOpenShift == \A k \in DOMAIN objects : k.kind = "KogitoBuild" => OpenShift

CLIInv ==
  /\ TypeOK /\ ConfigIsSound(kubeconfig) /\ BuildsOnOpenShift
  /\ \A c \in Clients : /\ Flow(proc[c]) /\ Progress(proc[c], objects)
                        /\ Saving(proc[c], ClusterOf(kubeconfig))

-----------------------------------------------------------------------------
(* The processes that others step past.                                     *)

\* p goes on as q while others change the objects in K.
Follows(q, p, K) ==
  /\ IsProcess(q)
  /\ q.pc = p.pc /\ q.cmd = p.cmd /\ q.project = p.project /\ q.kind = p.kind
  /\ q.config = p.config /\ q.list = p.list
  /\ p.touched \subseteq q.touched
  /\ p.cmd # NoCommand => K \subseteq q.touched

\* The objects O and N differ in those of K only.
Agree(O, N, K) ==
  /\ \A k \in DOMAIN N \ K : k \in DOMAIN O /\ N[k] = O[k]
  /\ \A k \in DOMAIN O \ K : k \in DOMAIN N

LEMMA FollowsFlow ==
  ASSUME NEW p, NEW q, NEW K, Flow(p), Follows(q, p, K)
  PROVE  Flow(q)
BY ZenonT(30) DEF Flow, Follows, Cmd

LEMMA FollowsProgress ==
  ASSUME NEW p, NEW q, NEW K, NEW O, NEW N, Follows(q, p, K), Agree(O, N, K), Progress(p, O)
  PROVE  Progress(q, N)
<1> SUFFICES ASSUME q.cmd # NoCommand
             PROVE  /\ \A kind \in Made(q) : \/ KeyOf(q, kind) \in q.touched
                                             \/ /\ KeyOf(q, kind) \in DOMAIN N
                                                /\ N[KeyOf(q, kind)] = Resources[q.cmd][kind]
                    /\ \A kind \in Gone(q) : \/ KeyOf(q, kind) \in q.touched
                                             \/ KeyOf(q, kind) \notin DOMAIN N
                    /\ ToDelete(q, N) \subseteq Known(q)
  BY DEF Progress
<1>1. /\ Made(q) = Made(p) /\ Gone(q) = Gone(p) /\ Cmd(q) = Cmd(p)
      /\ \A kind : KeyOf(q, kind) = KeyOf(p, kind)
      /\ K \subseteq q.touched /\ p.touched \subseteq q.touched /\ q.cmd = p.cmd
  BY DEF Follows, Made, Gone, Cmd, KeyOf
<1>2. \A kind \in Made(q) : \/ KeyOf(q, kind) \in q.touched
                            \/ /\ KeyOf(q, kind) \in DOMAIN N
                               /\ N[KeyOf(q, kind)] = Resources[q.cmd][kind]
  BY <1>1 DEF Progress, Agree
<1>3. \A kind \in Gone(q) : KeyOf(q, kind) \in q.touched \/ KeyOf(q, kind) \notin DOMAIN N
  BY <1>1 DEF Progress, Agree
<1>4. ToDelete(q, N) \subseteq ToDelete(p, O) \cup K
  BY <1>1 DEF ToDelete, Agree, Follows
<1>5. Known(p) \subseteq Known(q)
  BY <1>1 DEF Known, Follows
<1> QED
  BY <1>1, <1>2, <1>3, <1>4, <1>5 DEF Progress, Known

\* What a step has to keep, of the process that takes it and of the rest.
LEMMA StepKeeps ==
  ASSUME CLIInv, NEW c \in Clients, NEW K,
         proc' = [d \in Clients |-> proc'[d]],
         IsProcess(proc'[c]), Flow(proc'[c]), Saving(proc'[c], ClusterOf(kubeconfig)),
         Progress(proc'[c], objects'),
         \A d \in Clients \ {c} : Follows(proc'[d], proc[d], K),
         Agree(objects, objects', K),
         ConfigIsSound(kubeconfig'), ClusterOf(kubeconfig') = ClusterOf(kubeconfig),
         projects' \subseteq Projects, DOMAIN objects' \subseteq ObjectKeys,
         \A k \in DOMAIN objects' : k.project \in projects',
         BuildsOnOpenShift', ran' \in 0 .. MaxCommands, writes' \in 0 .. MaxWrites
  PROVE  CLIInv'
<1>1. ASSUME NEW d \in Clients \ {c}
      PROVE  /\ IsProcess(proc'[d]) /\ Flow(proc'[d]) /\ Progress(proc'[d], objects')
             /\ Saving(proc'[d], ClusterOf(kubeconfig'))
  <2>1. Flow(proc[d]) /\ Progress(proc[d], objects) /\ Saving(proc[d], ClusterOf(kubeconfig))
    BY DEF CLIInv
  <2>2. Follows(proc'[d], proc[d], K)
    OBVIOUS
  <2>3. Flow(proc'[d])
    BY <2>1, <2>2, FollowsFlow
  <2>4. Progress(proc'[d], objects')
    BY <2>1, <2>2, FollowsProgress, ZenonT(30)
  <2>5. Saving(proc'[d], ClusterOf(kubeconfig'))
    BY <2>1, <2>2 DEF Saving, Follows
  <2> QED
    BY <2>2, <2>3, <2>4, <2>5 DEF Follows
<1>2. ASSUME NEW d \in Clients
      PROVE  /\ IsProcess(proc'[d]) /\ Flow(proc'[d]) /\ Progress(proc'[d], objects')
             /\ Saving(proc'[d], ClusterOf(kubeconfig'))
  <2>1. CASE d = c
    BY <2>1
  <2>2. CASE d # c
    BY <1>1, <2>2
  <2> QED
    BY <2>1, <2>2
<1>3. kubeconfig'.current \in Contexts \cup {NoContext} /\ DOMAIN kubeconfig'.contexts \subseteq Contexts
  BY DEF ConfigIsSound
<1>4. TypeOK'
  BY <1>2, <1>3 DEF TypeOK
<1> QED
  BY <1>2, <1>4 DEF CLIInv

\* The special case of a step that changes nothing but its process.
LEMMA LocalKeeps ==
  ASSUME CLIInv, NEW c \in Clients, NEW q, Continue(c, q),
         UNCHANGED <<kubeconfig, projects, objects>>,
         IsProcess(q), Flow(q), Saving(q, ClusterOf(kubeconfig)), Progress(q, objects),
         ran' \in 0 .. MaxCommands, writes' \in 0 .. MaxWrites
  PROVE  CLIInv'
<1>1. proc = [d \in Clients |-> proc[d]] /\ \A d \in Clients : IsProcess(proc[d])
  BY DEF CLIInv, TypeOK
<1>2. /\ proc' = [d \in Clients |-> proc'[d]] /\ proc'[c] = q
      /\ \A d \in Clients \ {c} : proc'[d] = proc[d]
  BY <1>1 DEF Continue
<1>3. \A d \in Clients \ {c} : Follows(proc'[d], proc[d], {})
  BY <1>1, <1>2 DEF Follows
<1>4. Agree(objects, objects', {})
  BY DEF Agree
<1>5. /\ ConfigIsSound(kubeconfig') /\ projects' \subseteq Projects
      /\ DOMAIN objects' \subseteq ObjectKeys /\ \A k \in DOMAIN objects' : k.project \in projects'
      /\ BuildsOnOpenShift' /\ ClusterOf(kubeconfig') = ClusterOf(kubeconfig)
  BY DEF CLIInv, TypeOK, BuildsOnOpenShift
<1> QED
  BY <1>2, <1>3, <1>4, <1>5, StepKeeps

-----------------------------------------------------------------------------
(* The moves of a process.                                                  *)

LEMMA CommandTypes ==
  ASSUME NEW p, p.cmd \in CommandLines
  PROVE  /\ p.cmd # NoCommand /\ Cmd(p).op \in Operations /\ Cmd(p).source \in Sources
         /\ Cmd(p).project \in Projects \cup {NoProject}
         /\ \A kind \in Kinds : p.project \in Projects => KeyOf(p, kind) \in ObjectKeys
BY CommandsAssumption DEF Cmd, KeyOf, ObjectKey, ObjectKeys

LEMMA InstalledByCases ==
  ASSUME NEW cmd, cmd.op \in Operations
  PROVE  /\ cmd.op = "deploy-service" =>
              InstalledBy(cmd) = {"KogitoRuntime"}
                                 \cup (IF cmd.flags.image = "" THEN {"KogitoBuild"} ELSE {})
                                 \cup (IF cmd.flags.file = "" THEN {} ELSE {"ConfigMap"})
         /\ cmd.op = "install-service" =>
              InstalledBy(cmd) = {"KogitoSupportingService"}
                                 \cup (IF cmd.flags.file = "" THEN {} ELSE {"ConfigMap"})
         /\ cmd.op = "install-infra" => InstalledBy(cmd) = {"KogitoInfra"}
         /\ cmd.op \notin {"deploy-service", "install-service", "install-infra"} =>
              InstalledBy(cmd) = {}
BY Zenon DEF InstalledBy, Operations

\* A process that goes on with nothing more done than before.
LEMMA MoveProgress ==
  ASSUME NEW p, NEW q, NEW O, Progress(p, O),
         q.cmd = p.cmd, q.project = p.project, q.touched = p.touched,
         Made(q) \subseteq Made(p), Gone(q) \subseteq Gone(p), ToDelete(q, O) = {}
  PROVE  Progress(q, O)
<1>1. \A kind : KeyOf(q, kind) = KeyOf(p, kind)
  BY DEF KeyOf, Cmd
<1> QED
  BY <1>1 DEF Progress

LEMMA GotoFields ==
  ASSUME NEW p, IsProcess(p), NEW pc \in Positions
  PROVE  /\ IsProcess(Goto(p, pc)) /\ Goto(p, pc).pc = pc /\ Goto(p, pc).cmd = p.cmd
         /\ Goto(p, pc).project = p.project /\ Goto(p, pc).kind = p.kind
         /\ Goto(p, pc).touched = p.touched /\ Goto(p, pc).config = p.config
         /\ Goto(p, pc).list = p.list
BY DEF Goto, IsProcess

LEMMA WorkFields ==
  ASSUME NEW p, IsProcess(p), NEW pc \in Positions, NEW kind \in Kinds
  PROVE  /\ IsProcess(Work(p, pc, kind)) /\ Work(p, pc, kind).pc = pc
         /\ Work(p, pc, kind).cmd = p.cmd /\ Work(p, pc, kind).kind = kind
         /\ Work(p, pc, kind).project = p.project /\ Work(p, pc, kind).touched = p.touched
BY Zenon DEF Work, IsProcess

\* A failed process has nothing to account for.
LEMMA FailedProcess ==
  /\ IsProcess(Failed) /\ Flow(Failed)
  /\ \A cluster : Saving(Failed, cluster)
  /\ \A O : Progress(Failed, O)
BY Zenon DEF Failed, Idle, IsProcess, Positions, Ended, Kinds, Flow, AtWork, AtUpload, Saving, Progress

\* A process that has its project has done nothing yet.
LEMMA StartedProcess ==
  ASSUME NEW p, IsProcess(p), p.cmd \in CommandLines, p.project \in Projects, CheckArgs(Cmd(p)),
         NEW cluster, NEW O
  PROVE  /\ IsProcess(Started(p)) /\ Flow(Started(p)) /\ Progress(Started(p), O)
         /\ Saving(Started(p), cluster)
<1> DEFINE q == Started(p)
           op == Cmd(p).op
<1>1. op \in Operations /\ p.cmd # NoCommand
  BY CommandTypes
<1>2. /\ op = "deploy-service" /\ Cmd(p).flags.image # "" => q = Work(p, "file", "ConfigMap")
      /\ op = "deploy-service" /\ Cmd(p).flags.image = "" => q = Work(p, "crds", "KogitoBuild")
      /\ op = "delete-service" => q = Work(p, "check", "KogitoRuntime")
      /\ op = "install-infra" => q = Work(p, "crds", "KogitoInfra")
      /\ op = "remove-infra" => q = Work(p, "check", "KogitoInfra")
      /\ op = "install-service" => q = Work(p, "file", "ConfigMap")
      /\ op = "remove-service" => q = Goto(p, "list")
      /\ op = "delete-project" => q = Goto(p, "drop")
      /\ op \in {"use-project", "new-project"} => q = Goto(p, "ok")
  BY <1>1, Zenon DEF Started, Operations, DeployServiceExec, DeleteServiceExec, InstallInfraExec,
     RemoveInfraExec, InstallServiceExec, RemoveServiceExec, DeleteProjectExec
<1> HIDE DEF q
<1>3. "list" \in Positions /\ "drop" \in Positions /\ "ok" \in Positions
  BY DEF Positions, Ended, Kinds
<1>4. /\ IsProcess(q) /\ q.cmd = p.cmd /\ q.project = p.project
      /\ op = "deploy-service" /\ Cmd(p).flags.image # "" => q.pc = "file" /\ q.kind = "ConfigMap"
      /\ op = "deploy-service" /\ Cmd(p).flags.image = "" => q.pc = "crds" /\ q.kind = "KogitoBuild"
      /\ op = "delete-service" => q.pc = "check" /\ q.kind = "KogitoRuntime"
      /\ op = "install-infra" => q.pc = "crds" /\ q.kind = "KogitoInfra"
      /\ op = "remove-infra" => q.pc = "check" /\ q.kind = "KogitoInfra"
      /\ op = "install-service" => q.pc = "file" /\ q.kind = "ConfigMap"
      /\ op = "remove-service" => q.pc = "list"
      /\ op = "delete-project" => q.pc = "drop"
      /\ op \in {"use-project", "new-project"} => q.pc = "ok"
  <2>1. \A pc \in Positions : /\ IsProcess(Goto(p, pc)) /\ Goto(p, pc).pc = pc
                              /\ Goto(p, pc).cmd = p.cmd /\ Goto(p, pc).project = p.project
    BY GotoFields
  <2>3. op \in {"remove-service", "delete-project", "use-project", "new-project"}
        \/ op \in {"deploy-service", "delete-service", "install-infra", "remove-infra",
                   "install-service"}
    BY <1>1 DEF Operations
  <2>4. CASE op \in {"remove-service", "delete-project", "use-project", "new-project"}
    BY <1>2, <1>3, <2>1, <2>4, ZenonT(30)
  <2>5. CASE op = "delete-service"
    <3>1. q = Work(p, "check", "KogitoRuntime")
      BY <1>2, <2>5
    <3>0. "check" \in Positions /\ "KogitoRuntime" \in Kinds
      BY DEF Positions, Ended, Kinds
    <3>2. /\ IsProcess(q) /\ q.cmd = p.cmd /\ q.project = p.project
          /\ q.pc = "check" /\ q.kind = "KogitoRuntime"
      BY <3>0, <3>1, WorkFields
    <3> QED
      BY <2>5, <3>2
  <2>6. CASE op = "install-infra"
    <3>1. q = Work(p, "crds", "KogitoInfra")
      BY <1>2, <2>6
    <3>0. "crds" \in Positions /\ "KogitoInfra" \in Kinds
      BY DEF Positions, Ended, Kinds
    <3>2. /\ IsProcess(q) /\ q.cmd = p.cmd /\ q.project = p.project
          /\ q.pc = "crds" /\ q.kind = "KogitoInfra"
      BY <3>0, <3>1, WorkFields
    <3> QED
      BY <2>6, <3>2
  <2>7. CASE op = "remove-infra"
    <3>1. q = Work(p, "check", "KogitoInfra")
      BY <1>2, <2>7
    <3>0. "check" \in Positions /\ "KogitoInfra" \in Kinds
      BY DEF Positions, Ended, Kinds
    <3>2. /\ IsProcess(q) /\ q.cmd = p.cmd /\ q.project = p.project
          /\ q.pc = "check" /\ q.kind = "KogitoInfra"
      BY <3>0, <3>1, WorkFields
    <3> QED
      BY <2>7, <3>2, Zenon
  <2>8. CASE op = "install-service"
    <3>1. q = Work(p, "file", "ConfigMap")
      BY <1>2, <2>8
    <3>0. "file" \in Positions /\ "ConfigMap" \in Kinds
      BY DEF Positions, Ended, Kinds
    <3>2. /\ IsProcess(q) /\ q.cmd = p.cmd /\ q.project = p.project
          /\ q.pc = "file" /\ q.kind = "ConfigMap"
      BY <3>0, <3>1, WorkFields
    <3> QED
      BY <2>8, <3>2
  <2>9. CASE op = "deploy-service" /\ Cmd(p).flags.image = ""
    <3>1. q = Work(p, "crds", "KogitoBuild")
      BY <1>2, <2>9, Zenon
    <3>0. "crds" \in Positions /\ "KogitoBuild" \in Kinds
      BY DEF Positions, Ended, Kinds
    <3>2. /\ IsProcess(q) /\ q.cmd = p.cmd /\ q.project = p.project
          /\ q.pc = "crds" /\ q.kind = "KogitoBuild"
      BY <3>0, <3>1, WorkFields
    <3> QED
      BY <2>9, <3>2, Zenon
  <2>10. CASE op = "deploy-service" /\ Cmd(p).flags.image # ""
    <3>1. q = Work(p, "file", "ConfigMap")
      BY <1>2, <2>10, Zenon
    <3>0. "file" \in Positions /\ "ConfigMap" \in Kinds
      BY DEF Positions, Ended, Kinds
    <3>2. /\ IsProcess(q) /\ q.cmd = p.cmd /\ q.project = p.project
          /\ q.pc = "file" /\ q.kind = "ConfigMap"
      BY <3>0, <3>1, WorkFields
    <3> QED
      BY <2>10, <3>2, Zenon
  <2> QED
    BY <2>3, <2>4, <2>5, <2>6, <2>7, <2>8, <2>9, <2>10, ZenonT(30)
<1>5. Cmd(q) = Cmd(p)
  BY <1>4, Zenon DEF Cmd
<1>6. Flow(q)
  BY <1>1, <1>4, <1>5, Zenon DEF Flow, Operations, AtWork, AtUpload, InstallKinds
<1>7. Made(q) = {} /\ Gone(q) = {} /\ ToDelete(q, O) = {}
  <2>1. op \in {"use-project", "new-project"} => InstalledBy(Cmd(q)) = {}
    BY <1>1, <1>5, InstalledByCases, Zenon
  <2>2. q.pc # "ok" \/ op \in {"use-project", "new-project"}
    BY <1>1, <1>4, Zenon DEF Operations
  <2>3. Made(q) = {}
    BY <1>1, <1>4, <1>5, <2>1, Zenon DEF Made, Operations, AtWork, AtUpload
  <2>4. Gone(q) = {}
    BY <1>4, <1>5, <2>2, Zenon DEF Gone
  <2>5. q.pc # "each"
    BY <1>1, <1>4, Zenon DEF Operations
  <2>6. ToDelete(q, O) = {}
    BY <1>5, <2>2, <2>5 DEF ToDelete
  <2> QED
    BY <2>3, <2>4, <2>6
<1>8. Progress(q, O)
  BY <1>7 DEF Progress
<1>9. Saving(q, cluster)
  BY <1>1, <1>4, Zenon DEF Saving, Operations
<1> QED
  BY <1>4, <1>6, <1>8, <1>9, Zenon DEF q

\* Where a process goes that has installed an object.
LEMMA InstalledFields ==
  ASSUME NEW p, IsProcess(p)
  PROVE  /\ IsProcess(Installed(p)) /\ Installed(p).cmd = p.cmd
         /\ Installed(p).project = p.project /\ Installed(p).touched = p.touched
         /\ p.kind = "KogitoBuild" /\ Uploads(Cmd(p)) =>
              Installed(p).pc = "read" /\ Installed(p).kind = "KogitoBuild"
         /\ p.kind = "KogitoBuild" /\ ~Uploads(Cmd(p)) =>
              Installed(p).pc = "file" /\ Installed(p).kind = "ConfigMap"
         /\ p.kind = "ConfigMap" =>
              /\ Installed(p).pc = "crds"
              /\ Installed(p).kind = IF Cmd(p).op = "deploy-service" THEN "KogitoRuntime"
                                     ELSE "KogitoSupportingService"
         /\ p.kind = "KogitoRuntime" => Installed(p).pc = "console"
         /\ p.kind \in {"KogitoInfra", "KogitoSupportingService"} => Installed(p).pc = "ok"
<1> DEFINE r == [p EXCEPT !.current = FALSE]
           q == Installed(p)
<1>1. IsProcess(r) /\ r.cmd = p.cmd /\ r.project = p.project /\ r.touched = p.touched
  BY Zenon DEF IsProcess
<1>2. p.kind \in Kinds
  BY DEF IsProcess
<1>3. /\ p.kind = "KogitoBuild" => q = IF Uploads(Cmd(p)) THEN Work(r, "read", "KogitoBuild")
                                       ELSE Work(r, "file", "ConfigMap")
      /\ p.kind = "ConfigMap" => q = Work(r, "crds", IF Cmd(p).op = "deploy-service"
                                                     THEN "KogitoRuntime"
                                                     ELSE "KogitoSupportingService")
      /\ p.kind = "KogitoRuntime" => q = Goto(r, "console")
      /\ p.kind \in {"KogitoInfra", "KogitoSupportingService"} => q = Goto(r, "ok")
  BY <1>2 DEF Installed, Kinds
<1> HIDE DEF q, r
<1>4. SUFFICES /\ IsProcess(q) /\ q.cmd = r.cmd /\ q.project = r.project /\ q.touched = r.touched
               /\ p.kind = "KogitoBuild" /\ Uploads(Cmd(p)) => q.pc = "read" /\ q.kind = "KogitoBuild"
               /\ p.kind = "KogitoBuild" /\ ~Uploads(Cmd(p)) => q.pc = "file" /\ q.kind = "ConfigMap"
               /\ p.kind = "ConfigMap" =>
                    /\ q.pc = "crds"
                    /\ q.kind = IF Cmd(p).op = "deploy-service" THEN "KogitoRuntime"
                                ELSE "KogitoSupportingService"
               /\ p.kind = "KogitoRuntime" => q.pc = "console"
               /\ p.kind \in {"KogitoInfra", "KogitoSupportingService"} => q.pc = "ok"
  BY <1>1 DEF q
<1>5. CASE p.kind = "KogitoBuild" /\ Uploads(Cmd(p))
  <2>1. q = Work(r, "read", "KogitoBuild") /\ "read" \in Positions /\ "KogitoBuild" \in Kinds
    BY <1>3, <1>5 DEF Positions, Kinds
  <2>2. /\ IsProcess(q) /\ q.cmd = r.cmd /\ q.project = r.project /\ q.touched = r.touched
        /\ q.pc = "read" /\ q.kind = "KogitoBuild"
    BY <1>1, <2>1, WorkFields
  <2> QED
    BY <1>5, <2>2
<1>6. CASE p.kind = "KogitoBuild" /\ ~Uploads(Cmd(p))
  <2>1. q = Work(r, "file", "ConfigMap") /\ "file" \in Positions /\ "ConfigMap" \in Kinds
    BY <1>3, <1>6 DEF Positions, Kinds
  <2>2. /\ IsProcess(q) /\ q.cmd = r.cmd /\ q.project = r.project /\ q.touched = r.touched
        /\ q.pc = "file" /\ q.kind = "ConfigMap"
    BY <1>1, <2>1, WorkFields
  <2> QED
    BY <1>6, <2>2
<1>7. CASE p.kind = "ConfigMap"
  <2> DEFINE kind == IF Cmd(p).op = "deploy-service" THEN "KogitoRuntime"
                     ELSE "KogitoSupportingService"
  <2>1. q = Work(r, "crds", kind) /\ "crds" \in Positions /\ kind \in Kinds
    BY <1>3, <1>7 DEF Positions, Kinds
  <2> HIDE DEF kind
  <2>2. /\ IsProcess(q) /\ q.cmd = r.cmd /\ q.project = r.project /\ q.touched = r.touched
        /\ q.pc = "crds" /\ q.kind = kind
    BY <1>1, <2>1, WorkFields
  <2> QED
    BY <1>7, <2>2 DEF kind
<1>8. CASE p.kind \in {"KogitoRuntime", "KogitoInfra", "KogitoSupportingService"}
  <2>1. "console" \in Positions /\ "ok" \in Positions
    BY DEF Positions, Ended
  <2>2. /\ IsProcess(q) /\ q.cmd = r.cmd /\ q.project = r.project /\ q.touched = r.touched
        /\ q.pc = IF p.kind = "KogitoRuntime" THEN "console" ELSE "ok"
    BY <1>1, <1>3, <1>8, <2>1, GotoFields
  <2> QED
    BY <1>8, <2>2
<1> QED
  BY <1>2, <1>5, <1>6, <1>7, <1>8, Zenon DEF Kinds

\* A process that has installed an object goes on to the next.
LEMMA InstalledProcess ==
  ASSUME NEW p, IsProcess(p), Flow(p), p.cmd \in CommandLines, NEW cluster, NEW N,
         \/ p.pc \in {"create", "update"} /\ KeyOf(p, p.kind) \in DOMAIN N
                                          /\ N[KeyOf(p, p.kind)] = Resources[p.cmd][p.kind]
         \/ p.pc = "file" /\ Cmd(p).flags.file = "",
         \A kind \in Made(p) : \/ KeyOf(p, kind) \in p.touched
                               \/ /\ KeyOf(p, kind) \in DOMAIN N
                                  /\ N[KeyOf(p, kind)] = Resources[p.cmd][kind]
  PROVE  /\ IsProcess(Installed(p)) /\ Flow(Installed(p)) /\ Progress(Installed(p), N)
         /\ Saving(Installed(p), cluster)
<1> DEFINE q == Installed(p)
           op == Cmd(p).op
<1>2. p.kind \in Kinds /\ p.kind \in InstallKinds(Cmd(p)) /\ p.project \in Projects
      /\ op \in Operations /\ CheckArgs(Cmd(p)) /\ p.cmd # NoCommand
  BY CommandTypes, Zenon DEF IsProcess, Flow, AtWork
<1>3. /\ IsProcess(q) /\ q.cmd = p.cmd /\ q.project = p.project /\ q.touched = p.touched
      /\ p.kind = "KogitoBuild" /\ Uploads(Cmd(p)) => q.pc = "read" /\ q.kind = "KogitoBuild"
      /\ p.kind = "KogitoBuild" /\ ~Uploads(Cmd(p)) => q.pc = "file" /\ q.kind = "ConfigMap"
      /\ p.kind = "ConfigMap" => /\ q.pc = "crds"
                                 /\ q.kind = IF op = "deploy-service" THEN "KogitoRuntime"
                                             ELSE "KogitoSupportingService"
      /\ p.kind = "KogitoRuntime" => q.pc = "console"
      /\ p.kind \in {"KogitoInfra", "KogitoSupportingService"} => q.pc = "ok"
  BY InstalledFields, Zenon
<1> HIDE DEF q
<1>4. Cmd(q) = Cmd(p)
  BY <1>3, Zenon DEF Cmd
<1>7. SUFFICES /\ IsProcess(q) /\ Flow(q) /\ q.cmd = p.cmd /\ q.project = p.project
               /\ q.touched = p.touched /\ q.pc \notin {"save", "each"}
               /\ Gone(q) = {} /\ ToDelete(q, N) = {}
               /\ Made(q) \subseteq IF p.pc = "file" THEN Made(p) ELSE Made(p) \cup {p.kind}
  <2>1. \A kind : KeyOf(q, kind) = KeyOf(p, kind)
    BY <1>7, Zenon DEF KeyOf, Cmd
  <2>2. \A kind \in Made(q) : \/ KeyOf(q, kind) \in q.touched
                              \/ /\ KeyOf(q, kind) \in DOMAIN N
                                 /\ N[KeyOf(q, kind)] = Resources[q.cmd][kind]
    BY <1>7, <2>1, Zenon
  <2>3. Progress(q, N)
    BY <1>7, <2>2, Zenon DEF Progress
  <2> QED
    BY <1>7, <2>3, Zenon DEF Saving, q
<1>8. p.kind = "KogitoBuild" => p.pc # "file" /\ ValidatePreRequisite(Cmd(p))
  BY Zenon DEF Flow
<1>9. CASE p.kind = "KogitoBuild"
  <2>1. op = "deploy-service" /\ Cmd(p).flags.image = ""
    BY <1>2, <1>9, Zenon DEF InstallKinds
  <2>2. CASE Uploads(Cmd(p))
    <3>1. /\ IsProcess(q) /\ q.cmd = p.cmd /\ q.project = p.project /\ q.touched = p.touched
          /\ q.pc = "read" /\ q.kind = "KogitoBuild" /\ Cmd(q) = Cmd(p)
      BY <1>3, <1>4, <1>9, <2>2, ZenonT(30)
    <3>2. Flow(q)
      BY <1>2, <1>8, <1>9, <2>1, <2>2, <3>1, Zenon DEF Flow, AtWork, AtUpload
    <3> QED
      BY <1>8, <1>9, <2>1, <3>1, <3>2, Zenon DEF Made, Gone, ToDelete, AtWork, AtUpload
  <2>3. CASE ~Uploads(Cmd(p))
    <3>1. /\ IsProcess(q) /\ q.cmd = p.cmd /\ q.project = p.project /\ q.touched = p.touched
          /\ q.pc = "file" /\ q.kind = "ConfigMap" /\ Cmd(q) = Cmd(p)
      BY <1>3, <1>4, <1>9, <2>3, Zenon
    <3>2. Flow(q)
      BY <1>2, <2>1, <3>1, Zenon DEF Flow, AtWork, AtUpload, InstallKinds
    <3> QED
      BY <1>8, <1>9, <2>1, <3>1, <3>2, Zenon DEF Made, Gone, ToDelete, AtWork, AtUpload
  <2> QED
    BY <2>2, <2>3, Zenon
<1>10. CASE p.kind = "ConfigMap"
  <2>1. op \in {"deploy-service", "install-service"}
    BY <1>2, <1>10, Zenon DEF InstallKinds
  <2>2. /\ IsProcess(q) /\ q.cmd = p.cmd /\ q.project = p.project /\ q.touched = p.touched
        /\ q.pc = "crds" /\ Cmd(q) = Cmd(p)
        /\ q.kind = IF op = "deploy-service" THEN "KogitoRuntime" ELSE "KogitoSupportingService"
    BY <1>3, <1>4, <1>10, ZenonT(30)
  <2>3. Flow(q)
    BY <1>2, <2>1, <2>2, Zenon DEF Flow, AtWork, AtUpload, InstallKinds
  <2>4. Made(q) = InstalledBy(Cmd(p)) \ {q.kind}
    BY <2>2, Zenon DEF Made, AtWork
  <2>5. Made(p) = IF op = "deploy-service" /\ Cmd(p).flags.image = "" THEN {"KogitoBuild"} ELSE {}
    BY <1>10, Zenon DEF Made, AtWork, AtUpload
  <2>6. Made(q) \subseteq Made(p) \cup (IF Cmd(p).flags.file = "" THEN {} ELSE {"ConfigMap"})
    BY <1>2, <2>1, <2>2, <2>4, <2>5, InstalledByCases, ZenonT(30)
  <2>7. p.pc = "file" => Cmd(p).flags.file = ""
    BY Zenon
  <2>8. Made(q) \subseteq IF p.pc = "file" THEN Made(p) ELSE Made(p) \cup {p.kind}
    BY <1>10, <2>6, <2>7, Zenon
  <2> QED
    BY <2>2, <2>3, <2>8, Zenon DEF Gone, ToDelete
<1>11. CASE p.kind \in {"KogitoRuntime", "KogitoInfra", "KogitoSupportingService"}
  <2>1. /\ p.kind = "KogitoRuntime" => op = "deploy-service"
        /\ p.kind = "KogitoInfra" => op = "install-infra"
        /\ p.kind = "KogitoSupportingService" => op = "install-service"
    BY <1>2, <1>11, Zenon DEF InstallKinds
  <2>2. /\ IsProcess(q) /\ q.cmd = p.cmd /\ q.project = p.project /\ q.touched = p.touched
        /\ q.pc = (IF p.kind = "KogitoRuntime" THEN "console" ELSE "ok") /\ Cmd(q) = Cmd(p)
    BY <1>3, <1>4, <1>11, ZenonT(30)
  <2>3. Flow(q)
    BY <1>2, <1>11, <2>1, <2>2, ZenonT(30) DEF Flow, AtWork, AtUpload
  <2>4. p.pc # "file"
    BY <1>11, Zenon DEF Flow
  <2>5. Made(q) = InstalledBy(Cmd(p))
    BY <2>2, Zenon DEF Made
  <2>6. p.kind \in {"KogitoRuntime", "KogitoSupportingService"} =>
          Made(p) = InstalledBy(Cmd(p)) \ {p.kind}
    BY <2>4, Zenon DEF Made, AtWork
  <2>7. p.kind = "KogitoInfra" => InstalledBy(Cmd(p)) = {"KogitoInfra"}
    BY <1>2, <2>1, InstalledByCases, Zenon
  <2>8. Made(q) \subseteq Made(p) \cup {p.kind}
    BY <1>11, <2>5, <2>6, <2>7, ZenonT(30)
  <2> QED
    BY <1>11, <2>1, <2>2, <2>3, <2>4, <2>8, Zenon DEF Gone, ToDelete
<1> QED
  BY <1>2, <1>9, <1>10, <1>11, Zenon DEF Kinds

-----------------------------------------------------------------------------
(* The steps of a process that touch no object.                             *)

Good(q, cluster, O) == IsProcess(q) /\ Flow(q) /\ Progress(q, O) /\ Saving(q, cluster)

LEMMA GoodProcess ==
  ASSUME CLIInv, NEW c \in Clients
  PROVE  /\ Good(proc[c], ClusterOf(kubeconfig), objects)
         /\ proc[c].pc \notin {"idle", "failed"} => /\ proc[c].cmd \in CommandLines
                                                    /\ Cmd(proc[c]).op \in Operations
                                                    /\ CheckArgs(Cmd(proc[c]))
<1>1. Good(proc[c], ClusterOf(kubeconfig), objects)
  BY DEF CLIInv, TypeOK, Good
<1>2. proc[c].cmd \in CommandLines \cup {NoCommand}
  BY <1>1 DEF Good, IsProcess
<1>3. proc[c].pc \notin {"idle", "failed"} => proc[c].cmd # NoCommand /\ CheckArgs(Cmd(proc[c]))
  BY <1>1, Zenon DEF Good, Flow
<1> QED
  BY <1>1, <1>2, <1>3, CommandTypes

\* The parts of what a command asks for.
LEMMA AskedFields ==
  ASSUME NEW line \in CommandLines
  PROVE  LET cmd == Parse[line]
             r == Resources[line]
         IN  /\ r["KogitoBuild"].type = FromResourceTypeToKogitoBuildType(GetResourceType(cmd.source))
             /\ r["KogitoBuild"].env = FromStringArrayToEnvs(cmd.flags.buildEnvs)
             /\ r["KogitoRuntime"].env = FromStringArrayToEnvs(cmd.flags.envs)
             /\ r["KogitoInfra"].env = FromStringArrayToEnvs(cmd.flags.envs)
             /\ r["KogitoSupportingService"].env = FromStringArrayToEnvs(cmd.flags.envs)
             /\ r["ConfigMap"] = cmd.flags.file
<1> DEFINE cmd == Parse[line]
           r == Resources[line]
<1>1. /\ r["KogitoBuild"] = KogitoBuildFor(cmd.flags, cmd.source)
      /\ r["KogitoRuntime"] = KogitoRuntimeFor(cmd.flags)
      /\ r["KogitoInfra"] = KogitoInfraFor(cmd.flags)
      /\ r["KogitoSupportingService"] = KogitoSupportingServiceFor(cmd.type, cmd.flags)
      /\ r["ConfigMap"] = cmd.flags.file
  BY DEF Resources
<1>2. /\ KogitoBuildFor(cmd.flags, cmd.source).type
             = FromResourceTypeToKogitoBuildType(GetResourceType(cmd.source))
      /\ KogitoBuildFor(cmd.flags, cmd.source).env = FromStringArrayToEnvs(cmd.flags.buildEnvs)
  BY DEF KogitoBuildFor
<1>3. KogitoRuntimeFor(cmd.flags).env = FromStringArrayToEnvs(cmd.flags.envs)
  BY DEF KogitoRuntimeFor
<1>4. KogitoInfraFor(cmd.flags).env = FromStringArrayToEnvs(cmd.flags.envs)
  BY DEF KogitoInfraFor
<1>5. KogitoSupportingServiceFor(cmd.type, cmd.flags).env = FromStringArrayToEnvs(cmd.flags.envs)
  BY DEF KogitoSupportingServiceFor
<1> HIDE DEF cmd, r
<1> QED
  BY <1>1, <1>2, <1>3, <1>4, <1>5, ZenonT(30) DEF cmd, r

\* What the invariant says of a command that installed and succeeded.
LEMMA StoredIsMeant == ASSUME CLIInv PROVE InstalledAsAsked
<1> SUFFICES ASSUME NEW c \in Clients, proc[c].pc = "ok", SecretsWellFormed(Cmd(proc[c]).flags),
                    NEW kind \in InstalledBy(Cmd(proc[c])),
                    KeyOf(proc[c], kind) \notin proc[c].touched
             PROVE  /\ KeyOf(proc[c], kind) \in DOMAIN objects
                    /\ Content(kind, objects[KeyOf(proc[c], kind)])
                         = MeantResources[proc[c].cmd][kind]
  BY DEF InstalledAsAsked, KeyOf
<1> DEFINE p == proc[c]
           f == Parse[p.cmd].flags
           k == KeyOf(p, kind)
<1>1. /\ Good(p, ClusterOf(kubeconfig), objects) /\ p.cmd \in CommandLines
      /\ Cmd(p).op \in Operations /\ CheckArgs(Cmd(p))
  BY GoodProcess, Zenon
<1>2. p.cmd # NoCommand /\ f.envs \in Variables /\ f.buildEnvs \in Variables
  BY <1>1, CommandsAssumption, Zenon
<1>3. Made(p) = InstalledBy(Cmd(p))
  BY Zenon DEF Made
<1>4. k \in DOMAIN objects /\ objects[k] = Resources[p.cmd][kind]
  BY <1>1, <1>2, <1>3, ZenonT(30) DEF Good, Progress
<1>5. CheckKeyPair(f.envs.secretEnv) /\ CheckKeyPair(f.buildEnvs.secretEnv)
  BY DEF SecretsWellFormed, Cmd
<1>6. /\ kind \in {"KogitoBuild", "KogitoRuntime", "KogitoSupportingService", "KogitoInfra",
                   "ConfigMap"}
      /\ kind # "ConfigMap" => CheckEnvVarArgs(f.envs)
      /\ kind = "KogitoBuild" => CheckEnvVarArgs(f.buildEnvs)
  BY <1>1, ZenonT(30) DEF InstalledBy, CheckArgs, DeployServiceArgs, InstallServiceArgs, InstallInfraArgs,
     CheckRuntimeArgs, CheckInstallArgs, CheckBuildArgs, Operations, Cmd
<1>7. MeantResources[p.cmd] =
        [KogitoBuild |-> MeantEnvs(f.buildEnvs), KogitoRuntime |-> MeantEnvs(f.envs),
         KogitoInfra |-> MeantEnvs(f.envs), KogitoSupportingService |-> MeantEnvs(f.envs),
         ConfigMap |-> f.file]
  BY <1>1 DEF MeantResources
<1>8. kind # "ConfigMap" => FromStringArrayToEnvs(f.envs) = MeantEnvs(f.envs)
  BY <1>2, <1>5, <1>6, EnvsAreMeant, ZenonT(30)
<1>9. kind = "KogitoBuild" => FromStringArrayToEnvs(f.buildEnvs) = MeantEnvs(f.buildEnvs)
  BY <1>2, <1>5, <1>6, EnvsAreMeant, ZenonT(30)
<1> HIDE DEF k
<1> DEFINE r == Resources[p.cmd]
           m == MeantResources[p.cmd]
<1>10. /\ r["ConfigMap"] = f.file /\ r["KogitoBuild"].env = FromStringArrayToEnvs(f.buildEnvs)
       /\ \A x \in {"KogitoRuntime", "KogitoSupportingService", "KogitoInfra"} :
            r[x].env = FromStringArrayToEnvs(f.envs)
  BY <1>1, AskedFields, ZenonT(30)
<1>11. /\ m["ConfigMap"] = f.file /\ m["KogitoBuild"] = MeantEnvs(f.buildEnvs)
       /\ \A x \in {"KogitoRuntime", "KogitoSupportingService", "KogitoInfra"} :
            m[x] = MeantEnvs(f.envs)
  BY ONLY <1>7, SMT
<1> HIDE DEF r, m, f, p
<1>12. Content(kind, r[kind]) = IF kind = "ConfigMap" THEN r[kind] ELSE r[kind].env
  BY ONLY Zenon DEF Content
<1>13. Content(kind, r[kind]) = m[kind]
  <2>1. CASE kind = "ConfigMap"
    BY ONLY <2>1, <1>10, <1>11, <1>12, Zenon
  <2>2. CASE kind = "KogitoBuild"
    BY ONLY <2>2, <1>9, <1>10, <1>11, <1>12, Zenon
  <2>3. CASE kind \in {"KogitoRuntime", "KogitoSupportingService", "KogitoInfra"}
    <3>1. kind # "ConfigMap"
      BY ONLY <2>3, SMT
    <3> QED
      BY ONLY <2>3, <3>1, <1>8, <1>10, <1>11, <1>12, Zenon
  <2> QED
    BY ONLY <1>6, <2>1, <2>2, <2>3, Zenon
<1> QED
  BY ONLY <1>4, <1>13, ZenonT(30) DEF k, r, m, p

LEMMA GoodStep ==
  ASSUME CLIInv, NEW c \in Clients, NEW q, Continue(c, q),
         UNCHANGED <<kubeconfig, projects, objects, ran, writes>>,
         Good(q, ClusterOf(kubeconfig), objects)
  PROVE  CLIInv'
BY LocalKeeps DEF Good, CLIInv, TypeOK

LEMMA FailStep ==
  ASSUME CLIInv, NEW c \in Clients, Continue(c, Failed),
         UNCHANGED <<kubeconfig, projects, objects, ran, writes>>
  PROVE  CLIInv'
BY FailedProcess, GoodStep DEF Good

\* A process that moves without having done more.
LEMMA GoodMove ==
  ASSUME NEW p, NEW q, NEW cluster, NEW O, Good(p, cluster, O), IsProcess(q), Flow(q),
         q.cmd = p.cmd, q.project = p.project, q.touched = p.touched, q.pc # "save",
         Made(q) \subseteq Made(p), Gone(q) \subseteq Gone(p), ToDelete(q, O) = {}
  PROVE  Good(q, cluster, O)
BY MoveProgress DEF Good, Saving

LEMMA NamespaceType ==
  ASSUME NEW config, ConfigIsSound(config)
  PROVE  NamespaceOf(config) \in Projects \cup {NoProject}
<1>1. CASE config.current \in DOMAIN config.contexts
  <2>1. config.current \in Contexts
    BY <1>1 DEF ConfigIsSound
  <2>2. config.current.project \in Projects
    BY <2>1 DEF Contexts
  <2>3. config.contexts[config.current].namespace = config.current.project
    <3> DEFINE y == config.current
    <3>1. config.contexts[y] = [namespace |-> y.project, cluster |-> y.cluster]
      BY <1>1 DEF ConfigIsSound
    <3> HIDE DEF y
    <3>2. config.contexts[y].namespace = y.project
      BY <3>1
    <3> QED
      BY <3>2 DEF y
  <2> QED
    BY <1>1, <2>2, <2>3 DEF NamespaceOf
<1>2. CASE config.current \notin DOMAIN config.contexts
  BY <1>2 DEF NamespaceOf
<1> QED
  BY <1>1, <1>2

LEMMA BeginStep ==
  ASSUME CLIInv, NEW c \in Clients, NEW line \in CommandLines, Begin(c, line)
  PROVE  CLIInv'
<1> DEFINE cmd == Parse[line]
           p == [Idle EXCEPT !.cmd = line, !.project = cmd.project]
           named == [p EXCEPT !.pc = "lookup",
                              !.project = IF p.project = NoProject THEN NamespaceOf(kubeconfig)
                                          ELSE p.project]
           q == IF cmd.op \in {"use-project", "new-project"} THEN named ELSE Goto(p, "context")
<1>1. /\ Continue(c, q) /\ CheckArgs(cmd) /\ ran' \in 0 .. MaxCommands
      /\ cmd.op = "use-project" => named.project # NoProject
      /\ UNCHANGED <<kubeconfig, projects, objects, writes>>
  BY BoundsAssumption DEF Begin, CLIInv, TypeOK
<1>2. /\ cmd.op \in Operations /\ cmd.project \in Projects \cup {NoProject} /\ line # NoCommand
  BY CommandsAssumption
<1>3. cmd.op = "new-project" => cmd.project # NoProject
  BY <1>1, <1>2 DEF CheckArgs, NewProjectArgs, Operations
<1>4. NamespaceOf(kubeconfig) \in Projects \cup {NoProject}
  BY NamespaceType DEF CLIInv
<1>5. IsProcess(p) /\ p.cmd = line /\ p.project = cmd.project /\ p.touched = {} /\ p.kind \in Kinds
  BY <1>2, Zenon DEF Idle, IsProcess, Kinds, Positions, Ended
<1> HIDE DEF p
<1>6. CASE cmd.op \in {"use-project", "new-project"}
  <2>1. /\ IsProcess(named) /\ named.pc = "lookup" /\ named.cmd = line
        /\ named.project \in Projects
    BY <1>1, <1>2, <1>3, <1>4, <1>5, <1>6, ZenonT(30) DEF IsProcess, Positions
  <2>2. Cmd(named) = cmd /\ q = named
    BY <1>6, <2>1 DEF Cmd
  <2> HIDE DEF named, q
  <2>3. Flow(q)
    BY <1>1, <1>2, <1>6, <2>1, <2>2, Zenon DEF Flow, AtWork, AtUpload
  <2>4. Progress(q, objects)
    BY <2>1, <2>2, Zenon DEF Progress, Made, Gone, ToDelete, AtWork, AtUpload
  <2> QED
    BY <1>1, <2>1, <2>2, <2>3, <2>4, LocalKeeps, ZenonT(30) DEF Saving, CLIInv, TypeOK
<1>7. CASE cmd.op \notin {"use-project", "new-project"}
  <2>1. "context" \in Positions /\ q = Goto(p, "context")
    BY <1>7 DEF Positions
  <2> HIDE DEF q
  <2>2. IsProcess(q) /\ q.pc = "context" /\ q.cmd = line /\ Cmd(q) = cmd
    BY <1>5, <2>1, GotoFields DEF Cmd
  <2>3. Flow(q)
    BY <1>1, <1>2, <2>2, ZenonT(30) DEF Flow, AtWork, AtUpload
  <2>4. Progress(q, objects)
    BY <2>2 DEF Progress, Made, Gone, ToDelete, AtWork, AtUpload
  <2> QED
    BY <1>1, <2>2, <2>3, <2>4, LocalKeeps, ZenonT(30) DEF Saving, CLIInv, TypeOK
<1> QED
  BY <1>6, <1>7

LEMMA EnsureProjectStep ==
  ASSUME CLIInv, NEW c \in Clients, EnsureProject(c)
  PROVE  CLIInv'
<1> DEFINE p == proc[c]
           found == NamespaceOf(kubeconfig)
           q == [p EXCEPT !.pc = "exists", !.inContext = found,
                          !.project = IF p.project = NoProject THEN found ELSE p.project]
<1>1. /\ p.pc = "context" /\ Continue(c, IF q.project = NoProject THEN Failed ELSE q)
      /\ UNCHANGED <<kubeconfig, projects, objects, ran, writes>>
  BY DEF EnsureProject
<1>2. Good(p, ClusterOf(kubeconfig), objects) /\ p.cmd \in CommandLines /\ CheckArgs(Cmd(p))
  BY <1>1, GoodProcess
<1>3. found \in Projects \cup {NoProject}
  BY NamespaceType DEF CLIInv
<1> HIDE DEF found
<1>4. /\ IsProcess(q) /\ q.pc = "exists" /\ q.cmd = p.cmd
      /\ q.project \in Projects \cup {NoProject}
  <2>1. IsProcess(p) /\ "exists" \in Positions
    BY <1>2, Zenon DEF Good, Positions
  <2> HIDE DEF p
  <2> QED
    BY <1>3, <2>1, Zenon DEF IsProcess
<1> HIDE DEF q
<1>5. CASE q.project = NoProject
  BY <1>1, <1>5, FailStep, Zenon
<1>6. CASE q.project # NoProject
  <2>1. Cmd(q) = Cmd(p) /\ q.project \in Projects /\ p.cmd # NoCommand
    BY <1>2, <1>4, <1>6, CommandTypes, ZenonT(30) DEF Cmd
  <2>2. Flow(q)
    BY <1>2, <1>4, <2>1, Zenon DEF Flow, AtWork, AtUpload
  <2>3. Progress(q, objects)
    BY <1>4, Zenon DEF Progress, Made, Gone, ToDelete, AtWork, AtUpload
  <2> QED
    BY <1>1, <1>4, <1>6, <2>2, <2>3, GoodStep, ZenonT(30) DEF Good, Saving
<1> QED
  BY <1>5, <1>6

LEMMA CheckProjectExistsStep ==
  ASSUME CLIInv, NEW c \in Clients, CheckProjectExists(c)
  PROVE  CLIInv'
<1> DEFINE p == proc[c]
           q == IF p.project # p.inContext THEN Goto(p, "load") ELSE Started(p)
<1>1. /\ p.pc = "exists" /\ Continue(c, IF p.project \notin projects THEN Failed ELSE q)
      /\ UNCHANGED <<kubeconfig, projects, objects, ran, writes>>
  BY ZenonT(30) DEF CheckProjectExists
<1>2. Good(p, ClusterOf(kubeconfig), objects) /\ p.cmd \in CommandLines /\ CheckArgs(Cmd(p))
  BY <1>1, GoodProcess
<1>3. p.project \in Projects /\ p.cmd # NoCommand
  BY <1>1, <1>2, CommandTypes, Zenon DEF Good, Flow
<1>4. Good(Started(p), ClusterOf(kubeconfig), objects)
  BY <1>2, <1>3, StartedProcess DEF Good
<1>5. Good(Goto(p, "load"), ClusterOf(kubeconfig), objects)
  <2> DEFINE r == Goto(p, "load")
  <2>1. "load" \in Positions
    BY Zenon DEF Positions
  <2>2. /\ IsProcess(r) /\ r.pc = "load" /\ r.cmd = p.cmd /\ r.project = p.project
    BY <1>2, <2>1, GotoFields, ZenonT(30) DEF Good
  <2> HIDE DEF r
  <2>3. Cmd(r) = Cmd(p)
    BY <2>2, Zenon DEF Cmd
  <2>4. Flow(r)
    BY <1>2, <1>3, <2>2, <2>3, Zenon DEF Flow, AtWork, AtUpload
  <2>5. Progress(r, objects)
    BY <2>2, Zenon DEF Progress, Made, Gone, ToDelete, AtWork, AtUpload
  <2>6. Good(r, ClusterOf(kubeconfig), objects)
    BY <2>2, <2>4, <2>5, ZenonT(30) DEF Good, Saving
  <2> QED
    BY <2>6 DEF r
<1> QED
  BY <1>1, <1>4, <1>5, FailStep, GoodStep, ZenonT(30)

\* Processes that go on with the same object.
LEMMA GoodWork ==
  ASSUME NEW p, NEW q, NEW cluster, NEW O, Good(p, cluster, O), IsProcess(q),
         q.cmd = p.cmd, q.project = p.project, q.touched = p.touched, q.kind = p.kind,
         p.cmd \in CommandLines, p.pc \in AtWork, q.pc \in AtWork \ {"file"},
         p.kind = "KogitoBuild" => q.pc = "crds" \/ ValidatePreRequisite(Cmd(p))
  PROVE  Good(q, cluster, O)
<1>1. Cmd(q) = Cmd(p) /\ p.cmd # NoCommand
  BY CommandTypes DEF Cmd
<1>2. Flow(q)
  BY <1>1, ZenonT(30) DEF Good, Flow, AtWork, AtUpload
<1>3. Made(q) = Made(p)
  BY <1>1, Zenon DEF Made, AtWork, AtUpload
<1>4. Gone(q) = {} /\ ToDelete(q, O) = {} /\ q.pc # "save"
  BY DEF Gone, ToDelete, AtWork
<1> QED
  BY <1>2, <1>3, <1>4, GoodMove, ZenonT(30)

LEMMA GoodUpload ==
  ASSUME NEW p, NEW q, NEW cluster, NEW O, Good(p, cluster, O), IsProcess(q),
         q.cmd = p.cmd, q.project = p.project, q.touched = p.touched, q.kind = p.kind,
         p.cmd \in CommandLines, p.pc \in AtUpload, q.pc \in AtUpload
  PROVE  Good(q, cluster, O)
<1>1. Cmd(q) = Cmd(p) /\ p.cmd # NoCommand
  BY CommandTypes DEF Cmd
<1>2. Flow(q)
  BY <1>1, Zenon DEF Good, Flow, AtWork, AtUpload
<1>3. Made(q) = Made(p)
  BY <1>1, Zenon DEF Made, AtWork, AtUpload
<1>4. Gone(q) = {} /\ ToDelete(q, O) = {} /\ q.pc # "save"
  BY DEF Gone, ToDelete, AtUpload
<1> QED
  BY <1>2, <1>3, <1>4, GoodMove, ZenonT(30)

LEMMA GoodGoto ==
  ASSUME NEW p, NEW cluster, NEW O, Good(p, cluster, O), p.cmd \in CommandLines, p.pc \in AtWork,
         NEW pc \in AtWork \ {"file"},
         p.kind = "KogitoBuild" => pc = "crds" \/ ValidatePreRequisite(Cmd(p))
  PROVE  Good(Goto(p, pc), cluster, O)
<1> DEFINE q == Goto(p, pc)
<1>1. IsProcess(p) /\ pc \in Positions
  BY DEF Good, AtWork, Positions
<1>2. /\ IsProcess(q) /\ q.pc = pc /\ q.cmd = p.cmd /\ q.project = p.project
      /\ q.touched = p.touched /\ q.kind = p.kind
  BY <1>1, GotoFields
<1> HIDE DEF q
<1>3. Good(q, cluster, O)
  BY <1>2, GoodWork
<1> QED
  BY <1>3 DEF q

LEMMA InstallingSteps ==
  ASSUME CLIInv, NEW c \in Clients, CheckOperatorCRDs(c) \/ Fetch(c) \/ CreateConfigMapFromFile(c)
  PROVE  CLIInv'
<1> DEFINE p == proc[c]
<1>1. p.pc \in AtWork /\ UNCHANGED <<kubeconfig, projects, objects, ran, writes>>
  BY Zenon DEF CheckOperatorCRDs, Fetch, CreateConfigMapFromFile, AtWork
<1>2. Good(p, ClusterOf(kubeconfig), objects) /\ p.cmd \in CommandLines
  BY <1>1, GoodProcess, Zenon DEF AtWork
<1>3. IsProcess(p) /\ Flow(p) /\ Progress(p, objects)
  BY <1>2 DEF Good
<1>4. "fetch" \in Positions /\ "create" \in Positions
  BY DEF Positions
<1>5. "fetch" \in AtWork \ {"file"} /\ "create" \in AtWork \ {"file"} /\ "update" \in AtWork \ {"file"}
  BY Zenon DEF AtWork
<1>6. CASE CheckOperatorCRDs(c)
  <2>1. Continue(c, IF p.kind = "KogitoBuild" /\ ~ValidatePreRequisite(Cmd(p))
                    THEN Failed ELSE Goto(p, "fetch"))
    BY <1>6, Zenon DEF CheckOperatorCRDs
  <2>2. p.kind = "KogitoBuild" => ~ValidatePreRequisite(Cmd(p)) \/
          Good(Goto(p, "fetch"), ClusterOf(kubeconfig), objects)
    BY <1>1, <1>2, <1>5, GoodGoto, ZenonT(30)
  <2>3. p.kind # "KogitoBuild" => Good(Goto(p, "fetch"), ClusterOf(kubeconfig), objects)
    BY <1>1, <1>2, <1>5, GoodGoto, ZenonT(30)
  <2> QED
    BY <1>1, <2>1, <2>2, <2>3, FailStep, GoodStep, ZenonT(30)
<1>7. CASE Fetch(c)
  <2> DEFINE q == [p EXCEPT !.pc = "update", !.current = TRUE]
  <2>1. Continue(c, IF Target(p) \in DOMAIN objects THEN q ELSE Goto(p, "create")) /\ p.pc = "fetch"
    BY <1>7 DEF Fetch
  <2>2. p.kind = "KogitoBuild" => ValidatePreRequisite(Cmd(p))
    BY <1>3, <2>1, ZenonT(30) DEF Flow
  <2>3. Good(Goto(p, "create"), ClusterOf(kubeconfig), objects)
    BY <1>1, <1>2, <1>5, <2>2, GoodGoto, ZenonT(30)
  <2>4. /\ IsProcess(q) /\ q.cmd = p.cmd /\ q.project = p.project /\ q.touched = p.touched
        /\ q.kind = p.kind /\ q.pc = "update"
    BY <1>3, ZenonT(30) DEF IsProcess, Positions
  <2> HIDE DEF q
  <2>5. Good(q, ClusterOf(kubeconfig), objects)
    BY <1>1, <1>2, <1>5, <2>2, <2>4, GoodWork, ZenonT(30)
  <2> QED
    BY <1>1, <2>1, <2>3, <2>5, GoodStep, ZenonT(30)
<1>8. CASE CreateConfigMapFromFile(c)
  <2>1. Continue(c, IF Cmd(p).flags.file = "" THEN Installed(p) ELSE Goto(p, "fetch"))
        /\ p.pc = "file"
    BY <1>8, ZenonT(30) DEF CreateConfigMapFromFile
  <2>2. p.kind = "ConfigMap" /\ p.cmd # NoCommand
    BY <1>2, <1>3, <2>1, CommandTypes, ZenonT(30) DEF Flow
  <2>3. Good(Goto(p, "fetch"), ClusterOf(kubeconfig), objects)
    BY <1>1, <1>2, <1>5, <2>2, GoodGoto, ZenonT(30)
  <2>4. \A kind \in Made(p) : \/ KeyOf(p, kind) \in p.touched
                              \/ /\ KeyOf(p, kind) \in DOMAIN objects
                                 /\ objects[KeyOf(p, kind)] = Resources[p.cmd][kind]
    BY <1>3, <2>2 DEF Progress
  <2>5. Cmd(p).flags.file = "" => Good(Installed(p), ClusterOf(kubeconfig), objects)
    BY <1>2, <1>3, <2>1, <2>4, InstalledProcess, ZenonT(30) DEF Good
  <2> QED
    BY <1>1, <2>1, <2>3, <2>5, GoodStep, ZenonT(30)
<1> QED
  BY <1>6, <1>7, <1>8

LEMMA UploadSteps ==
  ASSUME CLIInv, NEW c \in Clients,
         LoadIntoMemory(c) \/ WaitForBuildConfig(c) \/ TriggerBuildFromFile(c)
  PROVE  CLIInv'
<1> DEFINE p == proc[c]
<1>1. p.pc \in AtUpload /\ UNCHANGED <<kubeconfig, projects, objects, ran, writes>>
  BY ZenonT(30) DEF LoadIntoMemory, WaitForBuildConfig, TriggerBuildFromFile, AtUpload
<1>2. Good(p, ClusterOf(kubeconfig), objects) /\ p.cmd \in CommandLines
  BY <1>1, GoodProcess DEF AtUpload
<1>3. IsProcess(p) /\ Flow(p) /\ Progress(p, objects) /\ p.cmd # NoCommand
  BY <1>2, CommandTypes, Zenon DEF Good
<1>4. "post" \in Positions /\ "file" \in Positions /\ "ConfigMap" \in Kinds
  BY DEF Positions, Kinds
<1>5. "wait" \in AtUpload /\ "post" \in AtUpload
  BY DEF AtUpload
<1>6. CASE LoadIntoMemory(c)
  <2>1. PICK tgz : Continue(c, IF tgz.ok THEN [p EXCEPT !.pc = "wait", !.upload = tgz.files]
                               ELSE Failed)
    BY <1>6, Zenon DEF LoadIntoMemory
  <2> DEFINE q == [p EXCEPT !.pc = "wait", !.upload = tgz.files]
  <2>2. /\ IsProcess(q) /\ q.cmd = p.cmd /\ q.project = p.project /\ q.touched = p.touched
        /\ q.kind = p.kind /\ q.pc = "wait"
    BY <1>3, ZenonT(30) DEF IsProcess, Positions
  <2> HIDE DEF q
  <2>3. Good(q, ClusterOf(kubeconfig), objects)
    BY <1>1, <1>2, <1>5, <2>2, GoodUpload, ZenonT(30)
  <2> QED
    BY <1>1, <2>1, <2>3, FailStep, GoodStep, ZenonT(30) DEF q
<1>7. CASE WaitForBuildConfig(c)
  <2> DEFINE q == [p EXCEPT !.attempts = p.attempts + 1]
  <2>1. Continue(c, q) \/ Continue(c, Goto(p, "post")) \/ Continue(c, Failed)
    <3>1. Continue(c, CASE InputOf(p) \in DOMAIN buildConfigs -> Goto(p, "post")
                        [] InputOf(p) \notin DOMAIN buildConfigs /\ p.attempts < MaxRetries - 1 -> q
                        [] OTHER -> Failed)
      BY <1>7, Zenon DEF WaitForBuildConfig
    <3> QED
      BY <3>1
  <2>2. /\ IsProcess(q) /\ q.cmd = p.cmd /\ q.project = p.project /\ q.touched = p.touched
        /\ q.kind = p.kind /\ q.pc = p.pc
    BY <1>3 DEF IsProcess
  <2> HIDE DEF q
  <2>3. Good(q, ClusterOf(kubeconfig), objects)
    BY <1>1, <1>2, <2>2, GoodUpload, ZenonT(30)
  <2>4. Good(Goto(p, "post"), ClusterOf(kubeconfig), objects)
    BY <1>1, <1>2, <1>3, <1>4, <1>5, GotoFields, GoodUpload
  <2> QED
    BY <1>1, <2>1, <2>3, <2>4, FailStep, GoodStep, ZenonT(30)
<1>8. CASE TriggerBuildFromFile(c)
  <2> DEFINE r == [p EXCEPT !.upload = {}]
             q == Work(r, "file", "ConfigMap")
  <2>1. Continue(c, Failed) \/ Continue(c, q)
    BY <1>8 DEF TriggerBuildFromFile
  <2>2. IsProcess(r) /\ r.cmd = p.cmd /\ r.project = p.project /\ r.touched = p.touched
    BY <1>3, Zenon DEF IsProcess
  <2> HIDE DEF r
  <2>3. /\ IsProcess(q) /\ q.cmd = r.cmd /\ q.project = r.project /\ q.touched = r.touched
        /\ q.kind = "ConfigMap" /\ q.pc = "file"
    BY <1>4, <2>2, WorkFields
  <2> HIDE DEF q
  <2>4. Cmd(q) = Cmd(p) /\ q.cmd = p.cmd /\ q.project = p.project /\ q.touched = p.touched
    BY <2>2, <2>3 DEF Cmd
  <2>5. Cmd(p).op = "deploy-service" /\ Cmd(p).flags.image = "" /\ p.project \in Projects
        /\ CheckArgs(Cmd(p))
    BY <1>1, <1>3, ZenonT(30) DEF Flow, AtUpload
  <2>6. Flow(q)
    BY <1>3, <2>3, <2>4, <2>5, ZenonT(30) DEF Flow, AtWork, AtUpload, InstallKinds
  <2>7. Made(q) = Made(p) /\ Gone(q) = {} /\ ToDelete(q, objects) = {}
    BY <1>1, <2>3, <2>4, <2>5, ZenonT(30) DEF Made, Gone, ToDelete, AtWork, AtUpload
  <2>8. Good(q, ClusterOf(kubeconfig), objects)
    BY <1>2, <2>3, <2>4, <2>6, <2>7, GoodMove, ZenonT(30)
  <2> QED
    BY <1>1, <2>1, <2>8, FailStep, GoodStep, Zenon
<1> QED
  BY <1>6, <1>7, <1>8

\* The kubeconfig with another project as its context.
LEMMA WithNamespaceSound ==
  ASSUME NEW config, ConfigIsSound(config), config.current \in DOMAIN config.contexts,
         NEW project \in Projects
  PROVE  /\ ConfigIsSound(WithNamespace(config, project))
         /\ WithNamespace(config, project).current # NoContext
         /\ ClusterOf(WithNamespace(config, project)) = ClusterOf(config)
<1> DEFINE y == config.current
           new == [project |-> project, cluster |-> y.cluster]
           F == [x \in DOMAIN config.contexts \cup {new} |->
                   IF x \in DOMAIN config.contexts THEN config.contexts[x]
                   ELSE [config.contexts[y] EXCEPT !.namespace = project]]
<1>1. WithNamespace(config, project) = [current |-> new, contexts |-> F]
  BY DEF WithNamespace
<1>2. y \in Contexts /\ config.contexts[y] = [namespace |-> y.project, cluster |-> y.cluster]
  BY DEF ConfigIsSound
<1>3. y.cluster \in Clusters
  BY <1>2 DEF Contexts
<1>4. new \in Contexts /\ new.project = project /\ new.cluster = y.cluster
  BY <1>3 DEF Contexts
<1>5. [config.contexts[y] EXCEPT !.namespace = project]
        = [namespace |-> new.project, cluster |-> new.cluster]
  BY <1>2, <1>4
<1>6. \A x \in DOMAIN config.contexts :
        config.contexts[x] = [namespace |-> x.project, cluster |-> x.cluster]
  BY Zenon DEF ConfigIsSound
<1> HIDE DEF new
<1>7. /\ DOMAIN F = DOMAIN config.contexts \cup {new}
      /\ \A x \in DOMAIN F : F[x] = [namespace |-> x.project, cluster |-> x.cluster]
  <2>1. DOMAIN F = DOMAIN config.contexts \cup {new}
    OBVIOUS
  <2>2. ASSUME NEW x \in DOMAIN F
        PROVE  F[x] = [namespace |-> x.project, cluster |-> x.cluster]
    <3>1. CASE x \in DOMAIN config.contexts
      BY <1>6, <3>1
    <3>2. CASE x \notin DOMAIN config.contexts
      <4>1. x = new /\ F[x] = [config.contexts[y] EXCEPT !.namespace = project]
        BY <2>1, <3>2, ZenonT(30)
      <4> QED
        BY <1>5, <4>1
    <3> QED
      BY <3>1, <3>2, ZenonT(30)
  <2> QED
    BY <2>1, <2>2, Zenon
<1> HIDE DEF F
<1>8. DOMAIN F \subseteq Contexts /\ new \in DOMAIN F
  BY <1>4, <1>7 DEF ConfigIsSound
<1>9. ConfigIsSound(WithNamespace(config, project))
  <2> DEFINE w == WithNamespace(config, project)
  <2>1. w.current = new /\ w.contexts = F
    BY <1>1
  <2> HIDE DEF w
  <2>2. ConfigIsSound(w)
    BY <1>7, <1>8, <2>1, ZenonT(30) DEF ConfigIsSound
  <2> QED
    BY <2>2 DEF w
<1>10. new # NoContext /\ y # NoContext
  BY <1>2, <1>4, ContextAssumption, ZenonT(30)
<1>11. WithNamespace(config, project).current = new
  BY <1>1
<1> QED
  BY <1>4, <1>9, <1>10, <1>11, ZenonT(30) DEF ClusterOf

LEMMA SetCurrentNamespaceStep ==
  ASSUME CLIInv, NEW c \in Clients, SetCurrentNamespaceToKubeConfig(c)
  PROVE  CLIInv'
<1> DEFINE p == proc[c]
           w == WithNamespace(kubeconfig, p.project)
           q == [p EXCEPT !.pc = "save", !.config = w]
<1>1. /\ p.pc = "load" /\ UNCHANGED <<kubeconfig, projects, objects, ran, writes>>
      /\ Continue(c, IF kubeconfig.current \in DOMAIN kubeconfig.contexts THEN q ELSE Failed)
  BY DEF SetCurrentNamespaceToKubeConfig
<1>2. Good(p, ClusterOf(kubeconfig), objects) /\ p.cmd \in CommandLines /\ CheckArgs(Cmd(p))
  BY <1>1, GoodProcess
<1>3. p.project \in Projects /\ p.cmd # NoCommand /\ IsProcess(p)
  BY <1>1, <1>2, CommandTypes, ZenonT(30) DEF Good, Flow
<1>4. kubeconfig.current \in DOMAIN kubeconfig.contexts =>
        /\ ConfigIsSound(w) /\ w.current # NoContext /\ ClusterOf(w) = ClusterOf(kubeconfig)
  BY <1>3, WithNamespaceSound DEF CLIInv
<1> HIDE DEF w
<1>5. IsProcess(q) /\ q.pc = "save" /\ q.cmd = p.cmd /\ q.project = p.project /\ q.config = w
  BY <1>3, ZenonT(30) DEF IsProcess, Positions
<1> HIDE DEF q
<1>6. Cmd(q) = Cmd(p)
  BY <1>5, Zenon DEF Cmd
<1>7. Flow(q)
  BY <1>2, <1>3, <1>5, <1>6, ZenonT(30) DEF Flow, AtWork, AtUpload
<1>8. Progress(q, objects)
  BY <1>5, Zenon DEF Progress, Made, Gone, ToDelete, AtWork, AtUpload
<1>9. CASE kubeconfig.current \in DOMAIN kubeconfig.contexts
  <2>1. Saving(q, ClusterOf(kubeconfig))
    BY <1>4, <1>5, <1>9, Zenon DEF Saving
  <2> QED
    BY <1>1, <1>5, <1>7, <1>8, <1>9, <2>1, GoodStep, ZenonT(30) DEF Good
<1>10. CASE kubeconfig.current \notin DOMAIN kubeconfig.contexts
  BY <1>1, <1>10, FailStep, Zenon
<1> QED
  BY <1>9, <1>10

LEMMA FetchNamespaceStep ==
  ASSUME CLIInv, NEW c \in Clients, FetchNamespace(c)
  PROVE  CLIInv'
<1> DEFINE p == proc[c]
<1>1. p.pc = "lookup" /\ UNCHANGED <<kubeconfig, projects, objects, ran, writes>>
  BY ZenonT(30) DEF FetchNamespace
<1>2. Good(p, ClusterOf(kubeconfig), objects) /\ p.cmd \in CommandLines /\ CheckArgs(Cmd(p))
  BY <1>1, GoodProcess
<1>3. /\ p.project \in Projects /\ p.cmd # NoCommand /\ IsProcess(p)
      /\ Cmd(p).op \in {"use-project", "new-project"} /\ Cmd(p).op \in Operations
  BY <1>1, <1>2, CommandTypes, Zenon DEF Good, Flow
<1>4. \E pc \in {"load", "ok", "make"} : Continue(c, Goto(p, pc)) \/ Continue(c, Failed)
  BY <1>3 DEF FetchNamespace
<1>5. ASSUME NEW pc \in {"load", "ok", "make"}
      PROVE  Good(Goto(p, pc), ClusterOf(kubeconfig), objects)
  <2> DEFINE q == Goto(p, pc)
  <2>1. pc \in Positions
    BY ZenonT(30) DEF Positions, Ended
  <2>2. IsProcess(q) /\ q.pc = pc /\ q.cmd = p.cmd /\ q.project = p.project
    BY <1>3, <2>1, GotoFields
  <2> HIDE DEF q
  <2>3. Cmd(q) = Cmd(p)
    BY <2>2 DEF Cmd
  <2>4. Flow(q)
    BY <1>2, <1>3, <2>2, <2>3, Zenon DEF Flow, AtWork, AtUpload
  <2>5. InstalledBy(Cmd(p)) = {}
    BY <1>3, InstalledByCases, ZenonT(30)
  <2>6. Progress(q, objects)
    BY <1>3, <2>2, <2>3, <2>5, ZenonT(30) DEF Progress, Made, Gone, ToDelete, AtWork, AtUpload
  <2>7. Good(q, ClusterOf(kubeconfig), objects)
    BY <2>2, <2>4, <2>6, ZenonT(30) DEF Good, Saving
  <2> QED
    BY <2>7 DEF q
<1> QED
  BY <1>1, <1>4, <1>5, FailStep, GoodStep, ZenonT(30)

LEMMA CreateNamespaceStep ==
  ASSUME CLIInv, NEW c \in Clients, CreateNamespace(c)
  PROVE  CLIInv'
<1> DEFINE p == proc[c]
           q == IF p.project \in projects THEN Failed ELSE Goto(p, "load")
<1>1. /\ p.pc = "make" /\ UNCHANGED <<kubeconfig, objects, ran, writes>>
      /\ Continue(c, q) /\ projects' = projects \cup {p.project}
  BY ZenonT(30) DEF CreateNamespace
<1>2. Good(p, ClusterOf(kubeconfig), objects) /\ p.cmd \in CommandLines /\ CheckArgs(Cmd(p))
  BY <1>1, GoodProcess
<1>3. p.project \in Projects /\ p.cmd # NoCommand /\ IsProcess(p)
  BY <1>1, <1>2, CommandTypes, Zenon DEF Good, Flow
<1>4. Good(q, ClusterOf(kubeconfig), objects)
  <2> DEFINE r == Goto(p, "load")
  <2>1. "load" \in Positions
    BY DEF Positions
  <2>2. IsProcess(r) /\ r.pc = "load" /\ r.cmd = p.cmd /\ r.project = p.project
    BY <1>3, <2>1, GotoFields, Zenon
  <2> HIDE DEF r
  <2>3. Cmd(r) = Cmd(p)
    BY <2>2, Zenon DEF Cmd
  <2>4. Flow(r)
    BY <1>2, <1>3, <2>2, <2>3, Zenon DEF Flow, AtWork, AtUpload
  <2>5. Progress(r, objects)
    BY <2>2, Zenon DEF Progress, Made, Gone, ToDelete, AtWork, AtUpload
  <2>6. Good(r, ClusterOf(kubeconfig), objects)
    BY <2>2, <2>4, <2>5, ZenonT(30) DEF Good, Saving
  <2> QED
    BY <2>6, FailedProcess, ZenonT(30) DEF r, Good
<1> HIDE DEF q
<1>5. proc = [d \in Clients |-> proc[d]] /\ \A d \in Clients : IsProcess(proc[d])
  BY DEF CLIInv, TypeOK
<1>6. /\ proc' = [d \in Clients |-> proc'[d]] /\ proc'[c] = q
      /\ \A d \in Clients \ {c} : proc'[d] = proc[d]
  BY <1>1, <1>5, Zenon DEF Continue
<1>7. \A d \in Clients \ {c} : Follows(proc'[d], proc[d], {})
  BY <1>5, <1>6, Zenon DEF Follows
<1>8. Agree(objects, objects', {})
  BY <1>1, Zenon DEF Agree
<1>9. /\ ConfigIsSound(kubeconfig') /\ projects' \subseteq Projects
      /\ DOMAIN objects' \subseteq ObjectKeys /\ \A k \in DOMAIN objects' : k.project \in projects'
      /\ BuildsOnOpenShift' /\ ClusterOf(kubeconfig') = ClusterOf(kubeconfig)
      /\ ran' \in 0 .. MaxCommands /\ writes' \in 0 .. MaxWrites
  BY <1>1, <1>3, Zenon DEF CLIInv, TypeOK, BuildsOnOpenShift
<1> QED
  BY <1>1, <1>4, <1>6, <1>7, <1>8, <1>9, StepKeeps, ZenonT(30) DEF Good

\* The file that is written has the cluster of the file that is there, also
\* when others wrote it since it was read.
LEMMA WriteToFileStep ==
  ASSUME CLIInv, NEW c \in Clients, WriteToFile(c)
  PROVE  CLIInv' /\ ClusterOf(kubeconfig') = ClusterOf(kubeconfig)
<1> DEFINE p == proc[c]
           r == [p EXCEPT !.config = NoContext]
           q == Started(r)
<1>1. /\ p.pc = "save" /\ UNCHANGED <<projects, objects, ran, writes>>
      /\ Continue(c, q) /\ kubeconfig' = p.config
  BY DEF WriteToFile
<1>2. Good(p, ClusterOf(kubeconfig), objects) /\ p.cmd \in CommandLines /\ CheckArgs(Cmd(p))
  BY <1>1, GoodProcess
<1>3. p.project \in Projects /\ p.cmd # NoCommand /\ IsProcess(p)
  BY <1>1, <1>2, CommandTypes, Zenon DEF Good, Flow
<1>4. ConfigIsSound(kubeconfig') /\ ClusterOf(kubeconfig') = ClusterOf(kubeconfig)
  BY <1>1, <1>2 DEF Good, Saving
<1>5. IsProcess(r) /\ r.cmd = p.cmd /\ r.project = p.project
  BY <1>3, Zenon DEF IsProcess
<1> HIDE DEF r
<1>6. Good(q, ClusterOf(kubeconfig), objects)
  <2>1. CheckArgs(Cmd(r))
    BY <1>2, <1>5 DEF Cmd
  <2> QED
    BY <1>2, <1>3, <1>5, <2>1, StartedProcess, SMTT(30) DEF Good
<1> HIDE DEF q
<1>7. proc = [d \in Clients |-> proc[d]] /\ \A d \in Clients : IsProcess(proc[d])
  BY DEF CLIInv, TypeOK
<1>8. /\ proc' = [d \in Clients |-> proc'[d]] /\ proc'[c] = q
      /\ \A d \in Clients \ {c} : proc'[d] = proc[d]
  BY <1>1, <1>7, ZenonT(30) DEF Continue
<1>9. \A d \in Clients \ {c} : Follows(proc'[d], proc[d], {})
  BY <1>7, <1>8 DEF Follows
<1>10. Agree(objects, objects', {})
  BY <1>1, Zenon DEF Agree
<1>11. /\ projects' \subseteq Projects
       /\ DOMAIN objects' \subseteq ObjectKeys /\ \A k \in DOMAIN objects' : k.project \in projects'
       /\ BuildsOnOpenShift' /\ ran' \in 0 .. MaxCommands /\ writes' \in 0 .. MaxWrites
  BY <1>1, Zenon DEF CLIInv, TypeOK, BuildsOnOpenShift
<1> QED
  BY <1>1, <1>4, <1>6, <1>8, <1>9, <1>10, <1>11, StepKeeps, ZenonT(30) DEF Good

LEMMA ConsoleStep ==
  ASSUME CLIInv, NEW c \in Clients, PrintMgmtConsoleInfo(c)
  PROVE  CLIInv'
<1> DEFINE p == proc[c]
           q == Goto(p, "ok")
<1>1. /\ p.pc = "console" /\ Continue(c, q)
      /\ UNCHANGED <<kubeconfig, projects, objects, ran, writes>>
  BY Zenon DEF PrintMgmtConsoleInfo
<1>2. Good(p, ClusterOf(kubeconfig), objects) /\ p.cmd \in CommandLines /\ CheckArgs(Cmd(p))
  BY <1>1, GoodProcess
<1>3. /\ p.project \in Projects /\ p.cmd # NoCommand /\ IsProcess(p)
      /\ Cmd(p).op = "deploy-service" /\ "ok" \in Positions
  BY <1>1, <1>2, CommandTypes, ZenonT(30) DEF Good, Flow, Positions, Ended
<1>4. /\ IsProcess(q) /\ q.pc = "ok" /\ q.cmd = p.cmd /\ q.project = p.project
      /\ q.touched = p.touched
  BY <1>3, GotoFields, ZenonT(30)
<1> HIDE DEF q
<1>5. Cmd(q) = Cmd(p)
  BY <1>4, Zenon DEF Cmd
<1>6. Flow(q)
  BY <1>2, <1>3, <1>4, <1>5, ZenonT(30) DEF Flow, AtWork, AtUpload
<1>7. Made(q) = Made(p) /\ Gone(q) = {} /\ ToDelete(q, objects) = {} /\ q.pc # "save"
  BY <1>1, <1>3, <1>4, <1>5, ZenonT(30) DEF Made, Gone, ToDelete
<1>8. Good(q, ClusterOf(kubeconfig), objects)
  BY <1>2, <1>4, <1>6, <1>7, GoodMove, ZenonT(30)
<1> QED
  BY <1>1, <1>8, GoodStep, ZenonT(30)

LEMMA CheckExistsStep ==
  ASSUME CLIInv, NEW c \in Clients, CheckExists(c)
  PROVE  CLIInv'
<1> DEFINE p == proc[c]
           q == Goto(p, "delete")
<1>1. /\ p.pc = "check" /\ Continue(c, IF Target(p) \in DOMAIN objects THEN q ELSE Failed)
      /\ UNCHANGED <<kubeconfig, projects, objects, ran, writes>>
  BY ZenonT(30) DEF CheckExists
<1>2. Good(p, ClusterOf(kubeconfig), objects) /\ p.cmd \in CommandLines /\ CheckArgs(Cmd(p))
  BY <1>1, GoodProcess
<1>3. /\ p.project \in Projects /\ p.cmd # NoCommand /\ IsProcess(p) /\ "delete" \in Positions
      /\ \/ Cmd(p).op = "delete-service" /\ p.kind \in {"KogitoRuntime", "KogitoBuild"}
         \/ Cmd(p).op = "remove-infra" /\ p.kind = "KogitoInfra"
  BY <1>1, <1>2, CommandTypes, ZenonT(30) DEF Good, Flow, Positions
<1>4. /\ IsProcess(q) /\ q.pc = "delete" /\ q.cmd = p.cmd /\ q.project = p.project
      /\ q.touched = p.touched /\ q.kind = p.kind
  BY <1>3, GotoFields, Zenon
<1> HIDE DEF q
<1>5. Cmd(q) = Cmd(p)
  BY <1>4, Zenon DEF Cmd
<1>6. Flow(q)
  BY <1>2, <1>3, <1>4, <1>5, ZenonT(30) DEF Flow, AtWork, AtUpload
<1>7. Made(q) = {} /\ Gone(q) = Gone(p) /\ ToDelete(q, objects) = {} /\ q.pc # "save"
  BY <1>1, <1>4, <1>5 DEF Made, Gone, ToDelete, AtWork, AtUpload
<1>8. Good(q, ClusterOf(kubeconfig), objects)
  BY <1>2, <1>4, <1>6, <1>7, GoodMove, ZenonT(30)
<1> QED
  BY <1>1, <1>8, FailStep, GoodStep, ZenonT(30)

LEMMA ListServicesStep ==
  ASSUME CLIInv, NEW c \in Clients, ListServices(c)
  PROVE  CLIInv'
<1> DEFINE p == proc[c]
           found == OfServiceType(p.project, Cmd(p).type)
           at == IF found = {} THEN "ok" ELSE "each"
           q == [p EXCEPT !.pc = at, !.list = found]
<1>1. /\ p.pc = "list" /\ Continue(c, q)
      /\ UNCHANGED <<kubeconfig, projects, objects, ran, writes>>
  BY DEF ListServices
<1>2. Good(p, ClusterOf(kubeconfig), objects) /\ p.cmd \in CommandLines /\ CheckArgs(Cmd(p))
  BY <1>1, GoodProcess
<1>3. /\ p.project \in Projects /\ p.cmd # NoCommand /\ IsProcess(p)
      /\ Cmd(p).op = "remove-service" /\ Cmd(p).op \in Operations
  BY <1>1, <1>2, CommandTypes, Zenon DEF Good, Flow
<1>4. found \subseteq ObjectKeys
  BY Zenon DEF OfServiceType, CLIInv, TypeOK
<1>5. /\ at \in Positions /\ at \in {"ok", "each"} /\ (at = "ok" => found = {})
      /\ at # "ok" => at = "each"
  BY DEF Positions, Ended
<1>6. found = {k \in DOMAIN objects : /\ k.project = p.project /\ k.kind = "KogitoSupportingService"
                                      /\ objects[k].type = Cmd(p).type}
  BY DEF OfServiceType
<1> HIDE DEF found, at
<1>7. /\ IsProcess(q) /\ q.pc = at /\ q.cmd = p.cmd /\ q.project = p.project
      /\ q.touched = p.touched /\ q.list = found
  BY <1>3, <1>4, <1>5, Zenon DEF IsProcess
<1> HIDE DEF q
<1>8. Cmd(q) = Cmd(p)
  BY <1>7 DEF Cmd
<1>9. Flow(q)
  BY <1>2, <1>3, <1>5, <1>7, <1>8, ZenonT(30) DEF Flow, AtWork, AtUpload
<1>10. InstalledBy(Cmd(p)) = {}
  BY <1>3, InstalledByCases, ZenonT(30)
<1>11. Made(q) = {} /\ Gone(q) = {}
  BY <1>3, <1>5, <1>7, <1>8, <1>10, Zenon DEF Made, Gone, AtWork, AtUpload
<1>12. ToDelete(q, objects) = found
  BY <1>3, <1>5, <1>6, <1>7, <1>8, ZenonT(30) DEF ToDelete
<1>13. found \subseteq Known(q)
  BY <1>5, <1>7, ZenonT(30) DEF Known
<1>14. Progress(q, objects)
  BY <1>11, <1>12, <1>13, ZenonT(30) DEF Progress
<1>15. Saving(q, ClusterOf(kubeconfig))
  BY <1>5, <1>7 DEF Saving
<1> QED
  BY <1>1, <1>7, <1>9, <1>14, <1>15, GoodStep, ZenonT(30) DEF Good

-----------------------------------------------------------------------------
(* The steps that change objects.                                           *)

\* The other processes see which objects changed.
LEMMA OthersFollow ==
  ASSUME CLIInv, NEW c \in Clients, NEW q, NEW K \in SUBSET ObjectKeys, ContinueAndTouch(c, q, K)
  PROVE  /\ proc' = [d \in Clients |-> proc'[d]] /\ proc'[c] = q
         /\ \A d \in Clients \ {c} : Follows(proc'[d], proc[d], K)
<1>1. proc' = [d \in Clients |-> proc'[d]] /\ proc'[c] = q
  BY Zenon DEF ContinueAndTouch
<1>2. ASSUME NEW d \in Clients \ {c} PROVE Follows(proc'[d], proc[d], K)
  <2> DEFINE p == proc[d]
             b == p.current /\ Target(p) \notin K
  <2>1. IsProcess(p)
    BY DEF CLIInv, TypeOK
  <2>2. CASE p.cmd = NoCommand
    BY <2>1, <2>2, Zenon DEF ContinueAndTouch, Follows
  <2>3. CASE p.cmd # NoCommand
    <3>1. proc'[d] = [p EXCEPT !.touched = p.touched \cup K, !.current = b]
      BY <2>3, Zenon DEF ContinueAndTouch
    <3>2. b \in BOOLEAN
      OBVIOUS
    <3> HIDE DEF p, b
    <3> DEFINE r == [p EXCEPT !.touched = p.touched \cup K, !.current = b]
    <3>4. /\ IsProcess(r) /\ r.pc = p.pc /\ r.cmd = p.cmd /\ r.project = p.project
          /\ r.kind = p.kind /\ r.config = p.config /\ r.list = p.list
          /\ r.touched = p.touched \cup K
      BY <2>1, <3>2, ZenonT(30) DEF IsProcess
    <3> HIDE DEF r
    <3>5. Follows(r, p, K)
      BY <3>4 DEF Follows
    <3> QED
      BY <3>1, <3>5 DEF r, p
  <2> QED
    BY <2>2, <2>3, ZenonT(30)
<1> QED
  BY <1>1, <1>2

\* A step that stores an object.
LEMMA StoreStep ==
  ASSUME CLIInv, NEW c \in Clients, NEW q, NEW k \in ObjectKeys, NEW value, Store(c, q, k, value),
         UNCHANGED <<kubeconfig, projects, ran, writes>>, k.project \in projects,
         k.kind = "KogitoBuild" => OpenShift,
         Good(q, ClusterOf(kubeconfig), objects')
  PROVE  CLIInv'
<1>1. objects' = [j \in DOMAIN objects \cup {k} |-> IF j = k THEN value ELSE objects[j]]
      /\ ContinueAndTouch(c, q, {k})
  BY Zenon DEF Store
<1>2. Agree(objects, objects', {k}) /\ DOMAIN objects' = DOMAIN objects \cup {k}
  BY <1>1, Zenon DEF Agree
<1>3. /\ proc' = [d \in Clients |-> proc'[d]] /\ proc'[c] = q
      /\ \A d \in Clients \ {c} : Follows(proc'[d], proc[d], {k})
  BY <1>1, OthersFollow, ZenonT(30)
<1>4. /\ ConfigIsSound(kubeconfig') /\ projects' \subseteq Projects
      /\ DOMAIN objects' \subseteq ObjectKeys /\ \A j \in DOMAIN objects' : j.project \in projects'
      /\ BuildsOnOpenShift' /\ ClusterOf(kubeconfig') = ClusterOf(kubeconfig)
      /\ ran' \in 0 .. MaxCommands /\ writes' \in 0 .. MaxWrites
  BY <1>2, Zenon DEF CLIInv, TypeOK, BuildsOnOpenShift
<1> QED
  BY <1>2, <1>3, <1>4, StepKeeps, Zenon DEF Good

\* A step that deletes objects.
LEMMA RemoveStep ==
  ASSUME CLIInv, NEW c \in Clients, NEW q, NEW K \in SUBSET ObjectKeys, Remove(c, q, K),
         UNCHANGED <<kubeconfig, ran, writes>>, projects' \subseteq projects,
         \A j \in DOMAIN objects \ K : j.project \in projects',
         Good(q, ClusterOf(kubeconfig), objects')
  PROVE  CLIInv'
<1>1. objects' = [j \in DOMAIN objects \ K |-> objects[j]] /\ ContinueAndTouch(c, q, K)
  BY DEF Remove
<1>2. Agree(objects, objects', K) /\ DOMAIN objects' = DOMAIN objects \ K
  BY <1>1 DEF Agree
<1>3. /\ proc' = [d \in Clients |-> proc'[d]] /\ proc'[c] = q
      /\ \A d \in Clients \ {c} : Follows(proc'[d], proc[d], K)
  BY <1>1, OthersFollow, Zenon
<1>4. /\ ConfigIsSound(kubeconfig') /\ projects' \subseteq Projects
      /\ DOMAIN objects' \subseteq ObjectKeys /\ \A j \in DOMAIN objects' : j.project \in projects'
      /\ BuildsOnOpenShift' /\ ClusterOf(kubeconfig') = ClusterOf(kubeconfig)
      /\ ran' \in 0 .. MaxCommands /\ writes' \in 0 .. MaxWrites
  BY <1>2, ZenonT(30) DEF CLIInv, TypeOK, BuildsOnOpenShift
<1> QED
  BY <1>2, <1>3, <1>4, StepKeeps, ZenonT(30) DEF Good

\* A process stores the object it was asked for and goes on.
LEMMA InstallStep ==
  ASSUME CLIInv, NEW c \in Clients, proc[c].pc \in {"create", "update"},
         Store(c, Installed(proc[c]), Target(proc[c]), Asked(proc[c])),
         proc[c].project \in projects, UNCHANGED <<kubeconfig, projects, ran, writes>>
  PROVE  CLIInv'
<1> DEFINE p == proc[c]
           k == Target(p)
<1>1. Good(p, ClusterOf(kubeconfig), objects) /\ p.cmd \in CommandLines
  BY GoodProcess
<1>2. IsProcess(p) /\ Flow(p) /\ Progress(p, objects) /\ p.cmd # NoCommand /\ p.project \in Projects
  BY <1>1, CommandTypes, ZenonT(30) DEF Good, Flow
<1>3. p.kind \in Kinds /\ k = KeyOf(p, p.kind) /\ Asked(p) = Resources[p.cmd][p.kind]
  BY <1>2, ZenonT(30) DEF IsProcess, Target, KeyOf, Asked
<1>4. k \in ObjectKeys /\ k.project = p.project /\ k.kind = p.kind
  BY <1>1, <1>2, <1>3, CommandTypes, ZenonT(30) DEF Target, ObjectKey
<1>5. /\ objects' = [j \in DOMAIN objects \cup {k} |-> IF j = k THEN Asked(p) ELSE objects[j]]
  BY ZenonT(30) DEF Store
<1>6. k \in DOMAIN objects' /\ objects'[k] = Resources[p.cmd][p.kind]
  BY <1>3, <1>5
<1>7. \A kind \in Made(p) : \/ KeyOf(p, kind) \in p.touched
                            \/ /\ KeyOf(p, kind) \in DOMAIN objects
                               /\ objects[KeyOf(p, kind)] = Resources[p.cmd][kind]
  BY <1>2, ZenonT(30) DEF Progress
<1>8. \A kind \in Made(p) : KeyOf(p, kind) # k
  <2>1. \A kind \in Made(p) : kind # p.kind
    <3>1. p.kind \in InstallKinds(Cmd(p)) /\ p.pc \in AtWork
      BY <1>2, ZenonT(30) DEF Flow, AtWork
    <3> QED
      BY <3>1, ZenonT(30) DEF Made, AtWork, AtUpload
  <2>2. \A kind : KeyOf(p, kind).kind = kind
    BY SMTT(30) DEF KeyOf, ObjectKey
  <2> QED
    BY <1>4, <2>1, <2>2
<1>9. \A kind \in Made(p) : \/ KeyOf(p, kind) \in p.touched
                            \/ /\ KeyOf(p, kind) \in DOMAIN objects'
                               /\ objects'[KeyOf(p, kind)] = Resources[p.cmd][kind]
  BY <1>5, <1>7, <1>8
<1>10. Good(Installed(p), ClusterOf(kubeconfig), objects')
  BY <1>1, <1>2, <1>3, <1>6, <1>9, InstalledProcess, ZenonT(30) DEF Good
<1>11. k.kind = "KogitoBuild" => OpenShift
  BY <1>2, <1>4, ZenonT(30) DEF Flow, ValidatePreRequisite
<1> QED
  BY <1>4, <1>10, <1>11, StoreStep, SMTT(30)

LEMMA CreateStep ==
  ASSUME CLIInv, NEW c \in Clients, Create(c)
  PROVE  CLIInv'
<1>1. proc[c].pc = "create" /\ UNCHANGED <<kubeconfig, projects, ran, writes>>
  BY ZenonT(30) DEF Create
<1>2. \/ Continue(c, Failed) /\ UNCHANGED objects
      \/ /\ Store(c, Installed(proc[c]), Target(proc[c]), Asked(proc[c]))
         /\ proc[c].project \in projects
  BY DEF Create
<1> QED
  BY <1>1, <1>2, FailStep, InstallStep, ZenonT(30)

LEMMA RetryFields ==
  ASSUME NEW p, IsProcess(p)
  PROVE  LET q == [p EXCEPT !.current = TRUE, !.attempts = p.attempts + 1]
         IN  /\ IsProcess(q) /\ q.cmd = p.cmd /\ q.project = p.project /\ q.touched = p.touched
             /\ q.kind = p.kind /\ q.pc = p.pc
<1> DEFINE n == p.attempts + 1
           q == [p EXCEPT !.current = TRUE, !.attempts = n]
<1>1. n \in Nat
  BY DEF IsProcess
<1> HIDE DEF n
<1>2. /\ IsProcess(q) /\ q.cmd = p.cmd /\ q.project = p.project /\ q.touched = p.touched
      /\ q.kind = p.kind /\ q.pc = p.pc
  BY <1>1, Zenon DEF IsProcess
<1> QED
  BY <1>2 DEF n

LEMMA UpdateStep ==
  ASSUME CLIInv, NEW c \in Clients, Update(c)
  PROVE  CLIInv'
<1> DEFINE p == proc[c]
           q == [p EXCEPT !.current = TRUE, !.attempts = p.attempts + 1]
<1>1. p.pc = "update" /\ UNCHANGED <<kubeconfig, projects, ran, writes>>
  BY ZenonT(30) DEF Update
<1>2. Good(p, ClusterOf(kubeconfig), objects) /\ p.cmd \in CommandLines
  BY <1>1, GoodProcess
<1>3. \/ UNCHANGED objects /\ (Continue(c, Failed) \/ Continue(c, q))
      \/ Store(c, Installed(p), Target(p), Asked(p)) /\ Target(p) \in DOMAIN objects
  BY DEF Update
<1>4. CASE UNCHANGED objects /\ Continue(c, Failed)
  BY <1>1, <1>4, FailStep, ZenonT(30)
<1>5. CASE UNCHANGED objects /\ Continue(c, q)
  <2>1. /\ IsProcess(q) /\ q.cmd = p.cmd /\ q.project = p.project /\ q.touched = p.touched
        /\ q.kind = p.kind /\ q.pc = p.pc
    <3>1. IsProcess(p)
      BY <1>2 DEF Good
    <3> QED
      BY <3>1, RetryFields, ZenonT(30)
  <2> HIDE DEF q
  <2>2. p.kind = "KogitoBuild" => ValidatePreRequisite(Cmd(p))
    BY <1>1, <1>2, ZenonT(30) DEF Good, Flow
  <2>3. Good(q, ClusterOf(kubeconfig), objects)
    BY <1>1, <1>2, <2>1, <2>2, GoodWork, ZenonT(30) DEF AtWork
  <2> QED
    BY <1>1, <1>5, <2>3, GoodStep, ZenonT(30)
<1>6. CASE Store(c, Installed(p), Target(p), Asked(p)) /\ Target(p) \in DOMAIN objects
  <2>1. Target(p).project = p.project
    BY Zenon DEF Target, ObjectKey
  <2>2. p.project \in projects
    BY <1>6, <2>1, Zenon DEF CLIInv, TypeOK
  <2> QED
    BY <1>1, <1>6, <2>2, InstallStep, ZenonT(30)
<1> QED
  BY <1>3, <1>4, <1>5, <1>6, ZenonT(30)

LEMMA DeleteStep ==
  ASSUME CLIInv, NEW c \in Clients, Delete(c)
  PROVE  CLIInv'
<1> DEFINE p == proc[c]
           k == Target(p)
           more == p.kind = "KogitoRuntime" /\ OpenShift
           q == IF more THEN Work(p, "check", "KogitoBuild") ELSE Goto(p, "ok")
<1>1. p.pc = "delete" /\ UNCHANGED <<kubeconfig, projects, ran, writes>>
  BY ZenonT(30) DEF Delete
<1>2. Good(p, ClusterOf(kubeconfig), objects) /\ p.cmd \in CommandLines /\ CheckArgs(Cmd(p))
  BY <1>1, GoodProcess
<1>3. /\ p.project \in Projects /\ p.cmd # NoCommand /\ IsProcess(p) /\ Progress(p, objects)
      /\ Cmd(p).op \in Operations
      /\ \/ Cmd(p).op = "delete-service" /\ p.kind \in {"KogitoRuntime", "KogitoBuild"}
         \/ Cmd(p).op = "remove-infra" /\ p.kind = "KogitoInfra"
  BY <1>1, <1>2, CommandTypes, ZenonT(30) DEF Good, Flow
<1>4. \/ Continue(c, Failed) /\ UNCHANGED objects
      \/ Remove(c, q, {k})
  BY ZenonT(30) DEF Delete
<1>5. CASE Continue(c, Failed) /\ UNCHANGED objects
  BY <1>1, <1>5, FailStep, ZenonT(30)
<1>6. CASE Remove(c, q, {k})
  <2>1. p.kind \in Kinds /\ k = KeyOf(p, p.kind) /\ k \in ObjectKeys
    BY <1>2, <1>3, CommandTypes, ZenonT(30) DEF IsProcess, Target, KeyOf
  <2>2. objects' = [j \in DOMAIN objects \ {k} |-> objects[j]]
    BY <1>6 DEF Remove
  <2>3. DOMAIN objects' = DOMAIN objects \ {k}
    BY <2>2
  <2>4. /\ IsProcess(q) /\ q.cmd = p.cmd /\ q.project = p.project /\ q.touched = p.touched
        /\ more => q.pc = "check" /\ q.kind = "KogitoBuild"
        /\ ~more => q.pc = "ok"
    <3>1. "check" \in Positions /\ "ok" \in Positions /\ "KogitoBuild" \in Kinds
      BY Zenon DEF Positions, Ended, Kinds
    <3>2. CASE more
      <4>1. q = Work(p, "check", "KogitoBuild")
        BY <3>2, ZenonT(30)
      <4>2. LET w == Work(p, "check", "KogitoBuild")
            IN  /\ IsProcess(w) /\ w.cmd = p.cmd /\ w.project = p.project /\ w.touched = p.touched
                /\ w.pc = "check" /\ w.kind = "KogitoBuild"
        BY <1>3, <3>1, WorkFields, SMTT(30)
      <4> HIDE DEF q
      <4> QED
        BY <3>2, <4>1, <4>2, ZenonT(30)
    <3>3. CASE ~more
      <4>1. q = Goto(p, "ok")
        BY <3>3, ZenonT(30)
      <4> HIDE DEF q
      <4> QED
        BY <1>3, <3>1, <3>3, <4>1, GotoFields, ZenonT(30)
    <3> QED
      BY <3>2, <3>3, Zenon
  <2> HIDE DEF q
  <2>5. Cmd(q) = Cmd(p) /\ \A kind : KeyOf(q, kind) = KeyOf(p, kind)
    BY <2>4 DEF Cmd, KeyOf
  <2>6. InstalledBy(Cmd(p)) = {}
    BY <1>3, InstalledByCases, ZenonT(30)
  <2>7. Made(q) = {}
    BY <2>4, <2>5, <2>6, ZenonT(30) DEF Made, AtWork, AtUpload
  <2>8. ToDelete(q, objects') = {}
    BY <1>3, <2>4, <2>5, ZenonT(30) DEF ToDelete
  <2>9. Flow(q)
    BY <1>2, <1>3, <2>4, <2>5, ZenonT(30) DEF Flow, AtWork, AtUpload
  <2>10. \A kind \in Gone(p) : KeyOf(p, kind) \in p.touched \/ KeyOf(p, kind) \notin DOMAIN objects
    BY <1>3, Zenon DEF Progress
  <2>11. p.kind = "KogitoRuntime" /\ ~OpenShift => KeyOf(p, "KogitoBuild") \notin DOMAIN objects
    <3>1. KeyOf(p, "KogitoBuild").kind = "KogitoBuild"
      BY Zenon DEF KeyOf, ObjectKey
    <3> QED
      BY <3>1, ZenonT(30) DEF CLIInv, BuildsOnOpenShift
  <2>12. ASSUME NEW kind \in Gone(q)
         PROVE  KeyOf(q, kind) \in q.touched \/ KeyOf(q, kind) \notin DOMAIN objects'
    <3>1. CASE kind = p.kind
      BY <2>1, <2>3, <2>5, <3>1, ZenonT(30)
    <3>2. CASE kind # p.kind
      <4>1. kind \in Gone(p) \/ (p.kind = "KogitoRuntime" /\ ~OpenShift /\ kind = "KogitoBuild")
        BY <1>1, <1>3, <2>4, <2>5, <3>2, ZenonT(30) DEF Gone
      <4> QED
        BY <2>3, <2>4, <2>5, <2>10, <2>11, <4>1, ZenonT(30)
    <3> QED
      BY <3>1, <3>2, Zenon
  <2>13. Progress(q, objects')
    BY <2>7, <2>8, <2>12, ZenonT(30) DEF Progress
  <2>14. Good(q, ClusterOf(kubeconfig), objects')
    BY <2>4, <2>9, <2>13, ZenonT(30) DEF Good, Saving
  <2>15. \A j \in DOMAIN objects \ {k} : j.project \in projects'
    BY <1>1 DEF CLIInv, TypeOK
  <2> QED
    BY <1>1, <1>6, <2>1, <2>14, <2>15, RemoveStep, ZenonT(30)
<1> QED
  BY <1>4, <1>5, <1>6, ZenonT(30)

LEMMA DeleteServiceStep ==
  ASSUME CLIInv, NEW c \in Clients, DeleteService(c)
  PROVE  CLIInv'
<1> DEFINE p == proc[c]
<1>1. p.pc = "each" /\ UNCHANGED <<kubeconfig, projects, ran, writes>>
  BY ZenonT(30) DEF DeleteService
<1>2. Good(p, ClusterOf(kubeconfig), objects) /\ p.cmd \in CommandLines /\ CheckArgs(Cmd(p))
  BY <1>1, GoodProcess
<1>3. /\ p.project \in Projects /\ p.cmd # NoCommand /\ IsProcess(p) /\ Progress(p, objects)
      /\ Cmd(p).op = "remove-service" /\ Cmd(p).op \in Operations /\ p.list \subseteq ObjectKeys
  BY <1>1, <1>2, CommandTypes, ZenonT(30) DEF Good, Flow, IsProcess
<1>4. PICK k \in p.list :
        \/ Continue(c, Failed) /\ UNCHANGED objects
        \/ Remove(c, [p EXCEPT !.list = p.list \ {k},
                               !.pc = IF p.list \ {k} = {} THEN "ok" ELSE p.pc], {k})
  BY Zenon DEF DeleteService
<1> DEFINE rest == p.list \ {k}
           at == IF rest = {} THEN "ok" ELSE "each"
           q == [p EXCEPT !.list = rest, !.pc = at]
<1>5. CASE Continue(c, Failed) /\ UNCHANGED objects
  BY <1>1, <1>5, FailStep, ZenonT(30)
<1>6. CASE Remove(c, q, {k})
  <2>1. k \in ObjectKeys /\ rest \subseteq ObjectKeys /\ at \in Positions /\ at \in {"ok", "each"}
        /\ (at = "ok" => rest = {})
    BY <1>3 DEF Positions, Ended
  <2>2. objects' = [j \in DOMAIN objects \ {k} |-> objects[j]]
    BY <1>6 DEF Remove
  <2> HIDE DEF at
  <2>3. /\ IsProcess(q) /\ q.cmd = p.cmd /\ q.project = p.project /\ q.touched = p.touched
        /\ q.list = rest /\ q.pc = at
    <3> HIDE DEF p, rest
    <3> QED
      BY <1>3, <2>1, ZenonT(30) DEF IsProcess
  <2> HIDE DEF q
  <2>4. Cmd(q) = Cmd(p)
    BY <2>3 DEF Cmd
  <2>5. InstalledBy(Cmd(p)) = {}
    BY <1>3, InstalledByCases, ZenonT(30)
  <2>6. Made(q) = {} /\ Gone(q) = {}
    BY <1>3, <2>1, <2>3, <2>4, <2>5, ZenonT(30) DEF Made, Gone, AtWork, AtUpload
  <2>7. Flow(q)
    BY <1>2, <1>3, <2>1, <2>3, <2>4, ZenonT(30) DEF Flow, AtWork, AtUpload
  <2>8. ToDelete(p, objects) \subseteq p.touched \cup p.list
    BY <1>1, <1>3, ZenonT(30) DEF Progress, Known
  <2>9. ToDelete(q, objects') \subseteq ToDelete(p, objects) \ {k}
    BY <1>1, <1>3, <2>1, <2>2, <2>3, <2>4, ZenonT(30) DEF ToDelete
  <2>10. ToDelete(q, objects') \subseteq Known(q)
    BY <2>1, <2>3, <2>8, <2>9, ZenonT(30) DEF Known
  <2>11. Progress(q, objects')
    BY <2>6, <2>10, ZenonT(30) DEF Progress
  <2>12. Good(q, ClusterOf(kubeconfig), objects')
    BY <2>1, <2>3, <2>7, <2>11, ZenonT(30) DEF Good, Saving
  <2>13. \A j \in DOMAIN objects \ {k} : j.project \in projects'
    BY <1>1, Zenon DEF CLIInv, TypeOK
  <2> QED
    BY <1>1, <1>6, <2>1, <2>12, <2>13, RemoveStep, ZenonT(30)
<1> QED
  BY <1>1, <1>4, <1>5, <1>6, ZenonT(30)

LEMMA DeleteProjectStep ==
  ASSUME CLIInv, NEW c \in Clients, DeleteProject(c)
  PROVE  CLIInv'
<1> DEFINE p == proc[c]
           gone == {k \in DOMAIN objects : k.project = p.project}
           q == Goto(p, "ok")
<1>1. p.pc = "drop" /\ UNCHANGED <<kubeconfig, ran, writes>>
  BY ZenonT(30) DEF DeleteProject
<1>2. Good(p, ClusterOf(kubeconfig), objects) /\ p.cmd \in CommandLines /\ CheckArgs(Cmd(p))
  BY <1>1, GoodProcess
<1>3. /\ p.project \in Projects /\ p.cmd # NoCommand /\ IsProcess(p)
      /\ Cmd(p).op = "delete-project" /\ Cmd(p).op \in Operations /\ "ok" \in Positions
  BY <1>1, <1>2, CommandTypes, ZenonT(30) DEF Good, Flow, Positions, Ended
<1>4. \/ Continue(c, Failed) /\ UNCHANGED <<projects, objects>>
      \/ projects' = projects \ {p.project} /\ Remove(c, q, gone)
  BY DEF DeleteProject
<1>5. CASE Continue(c, Failed) /\ UNCHANGED <<projects, objects>>
  BY <1>1, <1>5, FailStep, ZenonT(30)
<1>6. CASE projects' = projects \ {p.project} /\ Remove(c, q, gone)
  <2>1. gone \in SUBSET ObjectKeys
    BY Zenon DEF CLIInv, TypeOK
  <2>2. objects' = [j \in DOMAIN objects \ gone |-> objects[j]]
    BY <1>6, ZenonT(30) DEF Remove
  <2>3. \A j \in DOMAIN objects' : j.project # p.project
    BY <2>2, ZenonT(30)
  <2>4. IsProcess(q) /\ q.pc = "ok" /\ q.cmd = p.cmd /\ q.project = p.project
    BY <1>3, GotoFields, ZenonT(30)
  <2> HIDE DEF q
  <2>5. Cmd(q) = Cmd(p)
    BY <2>4 DEF Cmd
  <2>6. InstalledBy(Cmd(p)) = {}
    BY <1>3, InstalledByCases, ZenonT(30)
  <2>7. Made(q) = {} /\ Gone(q) = {}
    BY <1>3, <2>4, <2>5, <2>6, ZenonT(30) DEF Made, Gone
  <2>8. ToDelete(q, objects') = {}
    BY <1>3, <2>3, <2>4, <2>5, ZenonT(30) DEF ToDelete
  <2>9. Flow(q)
    BY <1>2, <1>3, <2>4, <2>5, ZenonT(30) DEF Flow, AtWork, AtUpload
  <2>10. Good(q, ClusterOf(kubeconfig), objects')
    BY <2>4, <2>7, <2>8, <2>9, ZenonT(30) DEF Good, Saving, Progress
  <2>11. \A j \in DOMAIN objects \ gone : j.project \in projects'
    BY <1>6 DEF CLIInv, TypeOK
  <2> HIDE DEF gone
  <2>12. projects' \subseteq projects
    BY <1>6, Zenon
  <2> QED
    BY <1>1, <1>6, <2>1, <2>10, <2>11, <2>12, RemoveStep, ZenonT(30)
<1> QED
  BY <1>4, <1>5, <1>6, ZenonT(30)

-----------------------------------------------------------------------------
(* The whole system.                                                        *)

\* The operator gives objects new versions, which processes find out.
LEMMA WriteStatusStep ==
  ASSUME CLIInv, NEW k, WriteStatus(k)
  PROVE  CLIInv'
<1>1. /\ UNCHANGED <<kubeconfig, projects, objects, ran>> /\ writes' \in 0 .. MaxWrites
      /\ proc' = [d \in Clients |-> proc'[d]]
  BY BoundsAssumption DEF WriteStatus, CLIInv, TypeOK
<1>2. ASSUME NEW d \in Clients PROVE Follows(proc'[d], proc[d], {})
  <2> DEFINE p == proc[d]
             b == p.current /\ Target(p) # k
             r == [p EXCEPT !.current = b]
  <2>1. IsProcess(p) /\ b \in BOOLEAN /\ proc'[d] = r
    BY DEF CLIInv, TypeOK, WriteStatus
  <2> HIDE DEF p, b
  <2>2. /\ IsProcess(r) /\ r.pc = p.pc /\ r.cmd = p.cmd /\ r.project = p.project
        /\ r.kind = p.kind /\ r.config = p.config /\ r.list = p.list /\ r.touched = p.touched
    BY <2>1, Zenon DEF IsProcess
  <2> HIDE DEF r
  <2>3. Follows(r, p, {})
    BY <2>2 DEF Follows
  <2> QED
    BY <2>1, <2>3 DEF p
<1>3. Agree(objects, objects', {})
  BY <1>1, Zenon DEF Agree
<1>4. ASSUME NEW d \in Clients
      PROVE  /\ IsProcess(proc'[d]) /\ Flow(proc'[d]) /\ Progress(proc'[d], objects')
             /\ Saving(proc'[d], ClusterOf(kubeconfig'))
  <2>1. Flow(proc[d]) /\ Progress(proc[d], objects) /\ Saving(proc[d], ClusterOf(kubeconfig))
    BY Zenon DEF CLIInv
  <2>2. Follows(proc'[d], proc[d], {})
    BY <1>2, Zenon
  <2>3. Flow(proc'[d])
    BY <2>1, <2>2, FollowsFlow, ZenonT(30)
  <2>4. Progress(proc'[d], objects')
    BY <1>3, <2>1, <2>2, FollowsProgress, ZenonT(30)
  <2>5. Saving(proc'[d], ClusterOf(kubeconfig'))
    BY <1>1, <2>1, <2>2, ZenonT(30) DEF Saving, Follows
  <2> QED
    BY <2>2, <2>3, <2>4, <2>5, ZenonT(30) DEF Follows
<1>5. TypeOK'
  BY <1>1, <1>4, ZenonT(30) DEF CLIInv, TypeOK
<1> QED
  BY <1>1, <1>4, <1>5, ZenonT(30) DEF CLIInv, BuildsOnOpenShift

LEMMA InitInv == Init => CLIInv
<1> SUFFICES ASSUME Init PROVE CLIInv
  BY Zenon
<1>1. ConfigIsSound(kubeconfig) /\ projects \subseteq Projects
  BY StartsAssumption DEF Init
<1>2. /\ IsProcess(Idle) /\ Flow(Idle) /\ Progress(Idle, objects)
      /\ Saving(Idle, ClusterOf(kubeconfig))
  BY Zenon DEF Idle, IsProcess, Positions, Ended, Kinds, Flow, AtWork, AtUpload, Saving, Progress
<1>3. DOMAIN objects = {}
  BY DEF Init
<1>4. kubeconfig.current \in Contexts \cup {NoContext} /\ DOMAIN kubeconfig.contexts \subseteq Contexts
  BY <1>1, ZenonT(30) DEF ConfigIsSound
<1>5. TypeOK
  BY <1>1, <1>2, <1>3, <1>4, BoundsAssumption DEF Init, TypeOK
<1> QED
  BY <1>1, <1>2, <1>3, <1>5, ZenonT(30) DEF Init, CLIInv, BuildsOnOpenShift

LEMMA NextInv == CLIInv /\ [Next]_vars => CLIInv'
<1> SUFFICES ASSUME CLIInv, [Next]_vars PROVE CLIInv'
  BY Zenon
<1>1. ASSUME NEW c \in Clients, Step(c) PROVE CLIInv'
  BY <1>1, EnsureProjectStep, CheckProjectExistsStep, SetCurrentNamespaceStep, WriteToFileStep,
     FetchNamespaceStep, CreateNamespaceStep, DeleteProjectStep, InstallingSteps, CreateStep,
     UpdateStep, ConsoleStep, UploadSteps, CheckExistsStep, DeleteStep, ListServicesStep,
     DeleteServiceStep, ZenonT(30)
  DEF Step
<1>2. ASSUME NEW c \in Clients, Interrupt(c) PROVE CLIInv'
  BY <1>2, FailStep, ZenonT(30) DEF Interrupt
<1>3. CASE ApplyBuilds
  <2>1. UNCHANGED <<kubeconfig, projects, objects, proc, ran, writes>>
    BY <1>3, ZenonT(30) DEF ApplyBuilds
  <2> QED
    BY <2>1 DEF CLIInv, TypeOK, BuildsOnOpenShift
<1>4. CASE UNCHANGED vars
  BY <1>4 DEF CLIInv, TypeOK, BuildsOnOpenShift, vars
<1> QED
  BY <1>1, <1>2, <1>3, <1>4, BeginStep, WriteStatusStep, ZenonT(30) DEF Next

\* CLIInv is an invariant of the command line.
THEOREM Invariance == Spec => []CLIInv
BY InitInv, NextInv, PTL DEF Spec

\* The variables keep their types; objects are only in projects that exist.
THEOREM TypeCorrect == Spec => []TypeOK
BY Invariance, PTL DEF CLIInv

\* Whatever processes write the kubeconfig file over each other's content, its
\* current context is defined, and every context selects what it is named
\* after (kubeconfig.go).
THEOREM KubeconfigSound == Spec => []KubeconfigInv
<1>1. CLIInv => KubeconfigInv
  BY DEF CLIInv, KubeconfigInv, Saving
<1> QED
  BY <1>1, Invariance, PTL

\* No command changes the cluster of the context: a file that was read is only
\* written over one with the same cluster.
THEOREM ClusterKept == Spec => SwitchKeepsCluster
<1>1. CLIInv /\ [Next]_vars => [ClusterOf(kubeconfig') = ClusterOf(kubeconfig)]_vars
  <2> SUFFICES ASSUME CLIInv, Next PROVE ClusterOf(kubeconfig') = ClusterOf(kubeconfig)
    OBVIOUS
  <2>1. ASSUME NEW c \in Clients, WriteToFile(c)
        PROVE  ClusterOf(kubeconfig') = ClusterOf(kubeconfig)
    BY <2>1, WriteToFileStep
  <2>2. (\A c \in Clients : ~WriteToFile(c)) => UNCHANGED kubeconfig
    BY ZenonT(30) DEF Next, Step, Begin, EnsureProject, CheckProjectExists, SetCurrentNamespaceToKubeConfig,
       FetchNamespace, CreateNamespace, DeleteProject, CheckOperatorCRDs, Fetch, Create, Update,
       CreateConfigMapFromFile, PrintMgmtConsoleInfo, LoadIntoMemory, WaitForBuildConfig,
       TriggerBuildFromFile, CheckExists, Delete, ListServices, DeleteService, Interrupt,
       WriteStatus, ApplyBuilds
  <2> QED
    BY <2>1, <2>2
<1> QED
  BY <1>1, Invariance, PTL DEF Spec, SwitchKeepsCluster

\* A command that deletes and reports success has left nothing that it is to
\* delete, but what others made meanwhile (delete_service.go, remove/).
THEOREM DeletedGone == Spec => []DeletedIsGone
<1>1. ASSUME CLIInv PROVE DeletedIsGone
  <2> SUFFICES ASSUME NEW c \in Clients, proc[c].pc = "ok",
                      NEW k \in DOMAIN objects, k.project = proc[c].project, k \notin proc[c].touched
               PROVE  /\ Cmd(proc[c]).op = "delete-service" =>
                           ~(/\ k.name = Cmd(proc[c]).name
                             /\ k.kind \in {"KogitoRuntime", "KogitoBuild"})
                      /\ Cmd(proc[c]).op = "remove-infra" =>
                           ~(k.name = Cmd(proc[c]).name /\ k.kind = "KogitoInfra")
                      /\ Cmd(proc[c]).op = "remove-service" =>
                           k \notin OfServiceType(proc[c].project, Cmd(proc[c]).type)
                      /\ Cmd(proc[c]).op # "delete-project"
    BY ZenonT(30) DEF DeletedIsGone
  <2> DEFINE p == proc[c]
  <2>1. Good(p, ClusterOf(kubeconfig), objects) /\ p.cmd \in CommandLines
    BY <1>1, GoodProcess
  <2>2. /\ p.cmd # NoCommand
        /\ \A kind \in Gone(p) : KeyOf(p, kind) \in p.touched \/ KeyOf(p, kind) \notin DOMAIN objects
        /\ ToDelete(p, objects) \subseteq p.touched
    BY <2>1, CommandTypes, Zenon DEF Good, Progress, Known
  <2>3. k \in ObjectKeys
    BY <1>1, ZenonT(30) DEF CLIInv, TypeOK
  <2>4. k = [project |-> k.project, kind |-> k.kind, name |-> k.name]
    BY <2>3, Zenon DEF ObjectKeys
  <2>5. k.name = Cmd(p).name => k.kind \notin Gone(p)
    BY <2>2, <2>4, ZenonT(30) DEF KeyOf, ObjectKey
  <2>6. k \notin ToDelete(p, objects)
    BY <2>2
  <2> QED
    BY <2>5, <2>6 DEF Gone, ToDelete, OfServiceType
<1> QED
  BY <1>1, Invariance, PTL

-----------------------------------------------------------------------------
(* What an upload goes to.                                                  *)

LEMMA UploadType ==
  ASSUME NEW cmd, cmd.source \in Sources, GetResourceType(cmd.source) # NoResource, Uploads(cmd)
  PROVE  FromResourceTypeToKogitoBuildType(GetResourceType(cmd.source)) =
           (IF BuildType(cmd.flags, cmd.source) = "SourceToImage" THEN "LocalSource" ELSE "Binary")
BY ZenonT(30) DEF GetResourceType, NoResource, Sources, Uploads, BuildType, FromArgsToBinaryBuildType, IsTarget,
   FromResourceTypeToKogitoBuildType

LEMMA RequestedFor ==
  ASSUME NEW k \in DOMAIN objects, k = ObjectKey(k.project, "KogitoBuild", k.name),
         NEW r \in DOMAIN BuildConfigsOf(objects[k].type)
  PROVE  RequestedBuildConfigs[[project |-> k.project, name |-> k.name, role |-> r]]
           = BuildConfigsOf(objects[k].type)[r]
<1> DEFINE b == [project |-> k.project, name |-> k.name, role |-> r]
           builds == {j \in DOMAIN objects : j.kind = "KogitoBuild"}
           configs == UNION {{[project |-> j.project, name |-> j.name, role |-> s] :
                                s \in DOMAIN BuildConfigsOf(objects[j].type)} : j \in builds}
<1>1. k \in builds
  BY SMTT(30) DEF ObjectKey
<1>2. b \in configs
  BY <1>1, SMTT(30)
<1>3. b.project = k.project /\ b.name = k.name /\ b.role = r
  OBVIOUS
<1> HIDE DEF b, configs
<1>4. RequestedBuildConfigs = [d \in configs |->
         BuildConfigsOf(objects[ObjectKey(d.project, "KogitoBuild", d.name)].type)[d.role]]
  BY Zenon DEF RequestedBuildConfigs, configs
<1>5. RequestedBuildConfigs[b] = BuildConfigsOf(objects[k].type)[r]
  BY <1>2, <1>3, <1>4, Zenon
<1> QED
  BY <1>5, Zenon DEF b

LEMMA PostedToBinary ==
  ASSUME CLIInv, NEW c \in Clients, proc[c].pc = "post"
  PROVE  \/ buildConfigs[InputOf(proc[c])] = "Binary"
         \/ ObjectKey(proc[c].project, "KogitoBuild", Cmd(proc[c]).name) \in proc[c].touched
         \/ buildConfigs # RequestedBuildConfigs
<1> DEFINE p == proc[c]
           k == KeyOf(p, "KogitoBuild")
<1> SUFFICES ASSUME k \notin p.touched, buildConfigs = RequestedBuildConfigs
             PROVE  buildConfigs[InputOf(p)] = "Binary"
  BY Zenon DEF KeyOf
<1>1. Good(p, ClusterOf(kubeconfig), objects) /\ p.cmd \in CommandLines
  BY GoodProcess, ZenonT(30)
<1>2. p.cmd # NoCommand /\ Cmd(p).source \in Sources
  BY <1>1, CommandsAssumption DEF Cmd
<1>3. Uploads(Cmd(p)) /\ ValidatePreRequisite(Cmd(p))
  BY <1>1, ZenonT(30) DEF Good, Flow, AtUpload
<1>4. Made(p) = {"KogitoBuild"}
  BY ZenonT(30) DEF Made, AtUpload, AtWork
<1>5. k \in DOMAIN objects /\ objects[k] = Resources[p.cmd]["KogitoBuild"]
  BY <1>1, <1>2, <1>4, ZenonT(30) DEF Good, Progress
<1>6. objects[k].type = (IF BuildType(Cmd(p).flags, Cmd(p).source) = "SourceToImage"
                         THEN "LocalSource" ELSE "Binary")
  <2>1. objects[k].type = FromResourceTypeToKogitoBuildType(GetResourceType(Cmd(p).source))
    BY <1>1, <1>5, AskedFields, Zenon DEF Cmd
  <2> QED
    BY <1>2, <1>3, <2>1, UploadType, ZenonT(30) DEF ValidatePreRequisite
<1>7. Builds[p.cmd] = BuildType(Cmd(p).flags, Cmd(p).source)
  BY <1>1, ZenonT(30) DEF Builds, Cmd
<1>8. k = ObjectKey(k.project, "KogitoBuild", k.name) /\ k.project = p.project /\ k.name = Cmd(p).name
  BY ZenonT(30) DEF KeyOf, ObjectKey
<1> HIDE DEF k
<1>9. CASE BuildType(Cmd(p).flags, Cmd(p).source) = "SourceToImage"
  <2>1. BuildConfigsOf(objects[k].type) = [builder |-> "Binary", runtime |-> "Image"]
    BY <1>6, <1>9 DEF BuildConfigsOf
  <2>2. InputOf(p) = [project |-> k.project, name |-> k.name, role |-> "builder"]
    BY <1>7, <1>8, <1>9, ZenonT(30) DEF InputOf
  <2>3. "builder" \in DOMAIN BuildConfigsOf(objects[k].type)
        /\ BuildConfigsOf(objects[k].type)["builder"] = "Binary"
    BY <2>1, SMTT(30)
  <2>4. RequestedBuildConfigs[[project |-> k.project, name |-> k.name, role |-> "builder"]]
          = BuildConfigsOf(objects[k].type)["builder"]
    BY <1>5, <1>8, <2>3, RequestedFor, ZenonT(30)
  <2> QED
    BY <2>2, <2>3, <2>4, Zenon
<1>10. CASE BuildType(Cmd(p).flags, Cmd(p).source) # "SourceToImage"
  <2>1. BuildConfigsOf(objects[k].type) = [runtime |-> "Binary"]
    BY <1>6, <1>10, ZenonT(30) DEF BuildConfigsOf
  <2>2. InputOf(p) = [project |-> k.project, name |-> k.name, role |-> "runtime"]
    BY <1>7, <1>8, <1>10, ZenonT(30) DEF InputOf
  <2>3. "runtime" \in DOMAIN BuildConfigsOf(objects[k].type)
        /\ BuildConfigsOf(objects[k].type)["runtime"] = "Binary"
    BY <2>1, SMTT(30)
  <2>4. RequestedBuildConfigs[[project |-> k.project, name |-> k.name, role |-> "runtime"]]
          = BuildConfigsOf(objects[k].type)["runtime"]
    BY <1>5, <1>8, <2>3, RequestedFor, ZenonT(30)
  <2> QED
    BY <2>2, <2>3, <2>4, ZenonT(30)
<1> QED
  BY <1>9, <1>10, Zenon

\* Files are uploaded to a BuildConfig that takes them, whatever was given as
\* the source, unless the KogitoBuild is not the command's any more or the
\* operator has not applied it (build_service.go, build.go
\* TriggerBuildFromFile).
THEOREM UploadsFit == Spec => UploadFits
<1> DEFINE Fits == \A c \in Clients :
             proc[c].pc = "post" /\ uploads' # uploads /\ proc'[c] # proc[c] =>
               \/ buildConfigs[InputOf(proc[c])] = "Binary"
               \/ ObjectKey(proc[c].project, "KogitoBuild", Cmd(proc[c]).name) \in proc[c].touched
               \/ buildConfigs # RequestedBuildConfigs
<1>1. CLIInv => Fits
  BY PostedToBinary
<1>2. UploadFits <=> [][Fits]_vars
  BY DEF UploadFits
<1> QED
  BY <1>1, <1>2, Invariance, PTL

\* A command that installs and reports success has stored every object it was
\* asked for with exactly the variables that were meant, whatever the flags
\* are and whatever others did to other objects (resource_manager.go,
\* envvar_converter.go, key_pair_converter.go).
THEOREM StoredAsAsked == Spec => []InstalledAsAsked
BY StoredIsMeant, Invariance, PTL
=============================================================================
