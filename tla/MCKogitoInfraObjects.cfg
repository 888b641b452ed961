CONSTANTS
  i1 = i1
  i2 = i2
  r1 = r1
  r2 = r2
  r3 = r3
  c1 = c1
  c2 = c2
  u1 = u1
  None = None
  Infras = {i1}
  SpecsOf <- KafkaSpecs
  BackingsOf <- KafkaBackings
  Contents = {c1, c2}
  UserObjects = {}
  MaxEdits = 1
  MaxChanges = 1
  MaxOwners = 1
  MaxDeletes = 0
  MaxFaults = 1
  MaxCrashes = 1
SPECIFICATION FreshSpec
CONSTRAINT OneDisturbance
INVARIANTS
  TypeOK
  ReferencesExist
