SPECIFICATION AcceptedSpec
CONSTANTS
  p1 = p1
  p2 = p2
  img = img
  NoBC = NoBC
  Outcomes = {"Complete", "Failed", "Error"}
  Specs <- CheckedSpecs
  Parts = {p1, p2}
  Images = {img}
  MaxEdits = 2
  MaxOther = 0
  MaxBuilds = 2
  MaxFaults = 1
  MaxCrashes = 1
CONSTRAINT OneDisturbance
INVARIANTS
  TypeOK
  BuildInv
  SuccessIsBacked
PROPERTIES
  OneBuildPerChange
  BuildIsAsRequested
  LatestBuildNeverRegresses
  PromiseKept
