-------------------------- MODULE MCBuildResources --------------------------
(***************************************************************************)
(* Two KogitoBuilds and a KogitoRuntime for TLC.                           *)
(***************************************************************************)
EXTENDS BuildResources

CONSTANTS b1, b2, r1, lib

TheBuilds == {b1, b2}
TheRuntimes == {r1}

Plain ==
  [type |-> "Binary", git |-> GitSource(None, None, None), hooks |-> {}, runtime |-> None, native |-> FALSE,
   buildImage |-> Unset, runtimeImage |-> Unset, target |-> None, env |-> {},
   limits |-> None, mirror |-> None, artifact |-> Artifact(None, None, None), incremental |-> TRUE,
   downloads |-> None]
Image(domain, name, tag) == [domain |-> domain, name |-> name, tag |-> tag]

\* A remote source with everything set, for the service r1; a binary build of it.
Remote ==
  [Plain EXCEPT !.type = "RemoteSource", !.git = GitSource("repo", "main", None),
                !.hooks = {WebHookSecret("GitHub", "s1"), WebHookSecret("Generic", "s2")},
                !.native = TRUE, !.target = r1, !.limits = "2Gi", !.mirror = "mirror",
                !.downloads = TRUE, !.env = {<<"A", "1">>},
                !.buildImage = Image("quay", "mybuilder", None)]
Binary == [Plain EXCEPT !.target = r1, !.runtime = "springboot",
                        !.runtimeImage = Image("docker", "mybuilder", <<"2">>)]
\* One that fails the check, one of a local source for a service of its own.
NoGit == [Plain EXCEPT !.type = "RemoteSource"]
Local == [Plain EXCEPT !.type = "LocalSource", !.artifact = Artifact("group", None, "1"),
                       !.buildImage = Image(None, "mybuilder", <<"2">>)]

TheSpecs == b1 :> {Remote, Local} @@ b2 :> {Binary, NoGit}
TheImages == r1 :> {Unset, Image("quay", lib, None)}
\* The KogitoBuilds and the KogitoRuntime write one stream and there is an edit,
\* a fault or a restart, or they write one each and there is an edit; or two of
\* the three write one, both KogitoBuilds or the second and the KogitoRuntime,
\* and there is a deletion.
Left(edits, deletes, faults, crashes) ==
  used = [edits |-> MaxEdits - edits, deletes |-> MaxDeletes - deletes, releases |-> 0,
          faults |-> MaxFaults - faults, crashes |-> MaxCrashes - crashes]
AllInit ==
  /\ Init
  /\ spec[b2] = Binary
  /\ \/ /\ spec[b1] = Remote /\ image[r1] = Unset
        /\ Left(1, 0, 0, 0) \/ Left(0, 0, 1, 0) \/ Left(0, 0, 0, 1)
     \/ spec[b1] = Local /\ image[r1] # Unset /\ Left(1, 0, 0, 0)
     \/ spec[b1] = Remote /\ image[r1] # Unset /\ Left(0, 1, 0, 0)
     \/ spec[b1] = Local /\ image[r1] = Unset /\ Left(0, 1, 0, 0)
AllSpec == AllInit /\ [][Next]_vars /\ Fairness
TheVersion == <<1, 7, 0>>
=============================================================================
