CONSTANTS
  Ttl = 1
  LastMirror = 1
  Absent = Absent
  MaxReplies = 1
SPECIFICATION Spec
INVARIANT ReplayedWithinTtl
