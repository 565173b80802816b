SPECIFICATION FairSpec
CONSTANTS
  Requests = {r1, r2}
  Tuples = {t1, t2}
  Answers = {a1, big}
  Cancellers = {k1}
  Waiters = {w1}
  None = None
  big = big
  MaxActive = 2
  MinTTL = 1
  MaxTTL = 1
  Retention = 1
  MaxWait = 1
  MaxTime = 2
  MaxStepBack = 1
  Size <- MCSize
  MaxSize = 9
INVARIANT IInv
PROPERTY WaitEnds
