---------------------------- MODULE MCKogitoCLI ----------------------------
\* Instances of KogitoCLI for TLC.
EXTENDS KogitoCLI

Item(k, v) == [key |-> k, value |-> v]

\* A variable given twice, one from a Secret, and a properties file.
SomeFlags ==
  [NoFlags EXCEPT !.envs = [env |-> <<Item("A", "1"), Item("A", "2")>>,
                            secretEnv |-> <<Item("B", "s#k")>>],
                  !.buildEnvs.env = <<Item("B", "1")>>, !.file = "file"]
OtherFlags == [NoFlags EXCEPT !.envs.env = <<Item("A", "1")>>]
FromImage == [OtherFlags EXCEPT !.image = "image"]

\* A target directory with a fast jar, a maven project, a repository.
Target1 == [place |-> "directory", valid |-> TRUE, name |-> "target",
            files |-> {<<"", "quarkus-app">>, <<"quarkus-app/", ".jar">>,
                       <<"quarkus-app/quarkus/", ".jar">>}]
Maven == [place |-> "directory", valid |-> TRUE, name |-> "project", files |-> {<<"", "pom.xml">>}]
Repository == [place |-> "http", valid |-> TRUE, name |-> "repository", files |-> {}]

Command(op, project, name, type, source, flags) ==
  [op |-> op, project |-> project, name |-> name, type |-> type, source |-> source,
   flags |-> flags]

\* Logged in to one cluster, with or without contexts for the other.
File(current, C) ==
  [current |-> current, contexts |-> [x \in C |-> [namespace |-> x.project, cluster |-> x.cluster]]]
Context(p, x) == [project |-> p, cluster |-> x]
Start(current, C, P) == [config |-> File(current, C), projects |-> P]
SomeStarts ==
  {Start(NoContext, {}, {"a", "b"}),
   Start(Context("b", "x"), {Context("b", "x"), Context("a", "y")}, {"a"}),
   Start(Context("a", "x"), Contexts, {"a", "b"})}

Commands ==
  [deployMaven    |-> Command("deploy-service", "a", "s", "", Maven, SomeFlags),
   deployTarget   |-> Command("deploy-service", NoProject, "s", "", Target1, OtherFlags),
   deployGit      |-> Command("deploy-service", NoProject, "s", "", Repository, NoFlags),
   deployImage    |-> Command("deploy-service", NoProject, "s", "", NoSource, FromImage),
   deleteService  |-> Command("delete-service", NoProject, "s", "", NoSource, NoFlags),
   installInfra   |-> Command("install-infra", NoProject, "i", "", NoSource, OtherFlags),
   removeInfra    |-> Command("remove-infra", "b", "i", "", NoSource, NoFlags),
   installService |-> Command("install-service", NoProject, "data-index", "DataIndex", NoSource,
                              OtherFlags),
   removeService  |-> Command("remove-service", NoProject, "", "DataIndex", NoSource, NoFlags),
   useProject     |-> Command("use-project", "b", "", "", NoSource, NoFlags),
   newProject     |-> Command("new-project", "b", "", "", NoSource, NoFlags),
   deleteProject  |-> Command("delete-project", "a", "", "", NoSource, NoFlags)]
Lines == DOMAIN Commands
=============================================================================
