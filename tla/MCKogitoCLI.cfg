\* Two commands, one after the other or at the same time, in two projects and with two clusters.
SPECIFICATION Spec
CONSTANTS
  Keys = {"A", "B"}
  Plains = {"1", "2"}
  Secrets = {"s#k"}
  Absent = Absent
  Clients = {c1, c2}
  Projects = {"a", "b"}
  NoProject = NoProject
  Clusters = {"x", "y"}
  NoContext = NoContext
  Starts <- SomeStarts
  CommandLines <- Lines
  NoCommand = NoCommand
  Parse <- Commands
  OpenShift = TRUE
  MaxCommands = 2
  MaxWrites = 1
  MaxUpdates = 2
  MaxRetries = 2
CHECK_DEADLOCK FALSE
INVARIANT TypeOK
 
INVARIANT InstalledAsAsked
 
 
PROPERTY UploadFits
PROPERTY CommandsEnd
