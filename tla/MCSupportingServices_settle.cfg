\* One Data Index, one KogitoRuntime, and a management console that users may
\* create at any moment; or they delete one of the others, or change its files.
SPECIFICATION WithoutConsoleSpec
CONSTANTS
  Services = {"i1", "mgmt"}
  TypeOf <- TypeByName
  Runtimes = {"r"}
  Plain = {}
  Files = {"f"}
  None = None
  MaxChanges = 1
  MaxFaults = 0
  MaxCrashes = 0
PROPERTY AdditionsArrive
PROPERTY ReferencesSettle
PROPERTY DeploymentsRest
