SPECIFICATION FairSpec
CONSTANTS
  Bridges = {b1, b2}
  c1 = c1
  c2 = c2
  Commands = {c1, c2}
  Ports = {p1, p2}
  DefaultPort = p1
  Versions = {"v1", "v2"}
  Version <- TwoVersions
  Mortal = {b1}
  None = None
INVARIANTS LockNotLeaked FailureLeavesNothing StoppedIsGone
PROPERTY CommandEnds
CHECK_DEADLOCK FALSE
