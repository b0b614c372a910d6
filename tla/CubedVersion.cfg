CONSTANTS
  Dirs = {d1, d2}
  DefaultDir = d1
  Versions = {v1, v2}
  None = None
  Queries = {q1, q2}
  Procs = {p1}
SPECIFICATION Spec
INVARIANT VersionIsOfDirectory
