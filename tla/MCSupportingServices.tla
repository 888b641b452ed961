----------------------- MODULE MCSupportingServices -----------------------
\* Instances of SupportingServices for TLC.
EXTENDS SupportingServices

\* The name of a service tells its type.
Kinds == [i1 |-> "DataIndex", i2 |-> "DataIndex", jobs |-> "JobsService", jobs2 |-> "JobsService",
          mgmt |-> "MgmtConsole", task |-> "TaskConsole", trusty |-> "TrustyAI",
          ui |-> "TrustyUI", explain |-> "Explainability"]
TypeByName == [s \in Services |-> Kinds[s]]

\* At first everything was just created but the management console, and each
\* KogitoRuntime serves all the files.
WithoutConsole ==
  /\ Init
  /\ exists = {k \in Owners : k \in Services => TypeOf[k] # "MgmtConsole"}
  /\ \A r \in Runtimes : served[r] = Files
WithoutConsoleSpec == WithoutConsole /\ [][Next]_vars /\ Fairness

=============================================================================
