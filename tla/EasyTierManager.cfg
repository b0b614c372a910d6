CONSTANTS
  Paths = {d1, d2}
  Procs = {p1, p2}
  None = None
  Files <- EasyTierFileSet
  Required <- EasyTierRequired
  MaxCli = 1
  MaxKills = 1
SPECIFICATION Spec
INVARIANTS TypeOK ServiceInv PollingOnlyWhileRunning
PROPERTIES PollingLasts ImplementsManagedTool
