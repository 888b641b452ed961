SPECIFICATION FullSpec
CONSTANTS
  Specs <- FullSpecs
  Infras = {"i"}
  InfraStates <- InfraLife
  KindOf <- AllKafka
  UserObjects = {"o"}
  a = a
  Images = {a}
  Groups = {"prometheus", "grafana"}
  Dashboards = {"d"}
  Topics = {"t"}
  Events = {"e"}
  None = None
  MaxLag <- LagFirst
  MaxReplicas = 1
  MaxTriggers = 2
  MaxEdits = 0
  MaxChanges = 0
  MaxPodLosses = 1
  MaxFaults = 1
  MaxCrashes = 1
  MaxTotal = 1
INVARIANT TypeOK
INVARIANT FinishedIsDeployed
INVARIANT UrlIsReported
