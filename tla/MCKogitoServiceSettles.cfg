SPECIFICATION BoundSpec
CONSTANTS
  Specs <- BoundSpecs
  Infras = {"i"}
  InfraStates <- InfraLife
  KindOf <- AllBroker
  UserObjects = {"o"}
  a = a
  b = b
  Images = {a, b}
  Groups = {}
  Dashboards = {}
  Topics = {}
  Events = {"e"}
  None = None
  MaxLag <- NoLag
  MaxReplicas = 1
  MaxTriggers = 2
  MaxEdits = 1
  MaxChanges = 1
  MaxPodLosses = 0
  MaxFaults = 0
  MaxCrashes = 0
  MaxTotal = 1
PROPERTY ObjectsSettle
PROPERTY StatusSettles
 
PROPERTY WaitingIsReported
PROPERTY DeploymentRests
