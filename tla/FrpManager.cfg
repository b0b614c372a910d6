CONSTANTS
  Paths = {d1, d2}
  Procs = {p1, p2}
  None = None
  Files <- FrpFileSet
  Required <- FrpFileSet
SPECIFICATION FairSpec
INVARIANTS
  TypeOK
  BusyHasDriver
  TempClean
  ReadyMeansInstalled
  NoOrphanProcess
  ErrorIsReported
  TomlInSync
PROPERTIES
  TomlPreserved
  ImplementsManagedTool
