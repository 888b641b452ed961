CONSTANTS
  i1 = i1
  i2 = i2
  r1 = r1
  r2 = r2
  r3 = r3
  c1 = c1
  c2 = c2
  u1 = u1
  None = None
  Infras = {i1, i2}
  SpecsOf <- TwoSpecs
  BackingsOf <- AllBackings
  Contents = {c1}
  UserObjects = {u1}
  MaxEdits = 0
  MaxChanges = 1
  MaxOwners = 0
  MaxDeletes = 1
  MaxFaults = 0
  MaxCrashes = 0
SPECIFICATION AllSpec
PROPERTIES
  
  BindingSettles
  UnavailableIsReported
  NothingLeftBehind
