\* Services of one type that users create and delete while passes run, with
\* failing calls and restarts.
SPECIFICATION Spec
CONSTANTS
  Services = {"jobs", "jobs2"}
  TypeOf <- TypeByName
  Runtimes = {}
  Plain = {"p"}
  Files = {"f"}
  None = None
  MaxChanges = 4
  MaxFaults = 1
  MaxCrashes = 1
INVARIANT TypeOK
INVARIANT SingletonDeployed
