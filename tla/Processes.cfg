SPECIFICATION Spec
CONSTANTS
  Calls = {p1, p2, p3}
  Absent = Absent
  Corrupt = Corrupt
  Starts = {s1, s2}
  Stops = {t1}
  Procs = {q1, q2}
  Close = close
  None = None
CHECK_DEADLOCK FALSE
INVARIANTS OneSecret StatusIsOwn NoneLost
PROPERTIES SecretEnds EndIsNoticed
