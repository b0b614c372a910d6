CONSTANTS
  Launches = {l1, l2}
  Paths = {d1, d2}
  None = None
SPECIFICATION Spec
INVARIANTS
  TypeOK
  OneOwner
  NothingSurvives
  StopHonoured
PROPERTIES
  PendingEnds
\* Nothing is left to do once the launcher has closed.
CHECK_DEADLOCK FALSE
