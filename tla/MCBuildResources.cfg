SPECIFICATION AllSpec
CONSTANTS
  Builds <- TheBuilds
  Runtimes <- TheRuntimes
  SpecsOf <- TheSpecs
  ImagesOf <- TheImages
  Version <- TheVersion
  Registry = "kiegroup"
  Labels = "labels"
  None = None
  b1 = b1
  b2 = b2
  r1 = r1
  lib = lib
  MaxEdits = 1
  MaxDeletes = 1
  MaxReleases = 1
  MaxFaults = 1
  MaxCrashes = 1
CHECK_DEADLOCK FALSE
INVARIANT TypeOK
INVARIANT BaseImageExists
PROPERTY StreamsComeBack
PROPERTY NothingLeftOfBuild
