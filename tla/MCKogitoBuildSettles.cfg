SPECIFICATION MirroredSpec
CONSTANTS
  p1 = p1
  p2 = p2
  img = img
  NoBC = NoBC
  Outcomes = {"Complete"}
  Specs <- SourceSpecs
  Parts = {p1, p2}
  Images = {img}
  MaxEdits = 1
  MaxOther = 1
  MaxBuilds = 2
  MaxFaults = 1
  MaxCrashes = 0
PROPERTIES
  SpecIsApplied
  StatusSettles
