SPECIFICATION Spec
CONSTANTS
  Requests = {r1, r2, r3}
  Tuples = {t1, t2, t3}
  Answers = {a1, big}
  Cancellers = {k1, k2}
  Waiters = {}
  None = None
  big = big
  MaxActive = 2
  MinTTL = 1
  MaxTTL = 2
  Retention = 1
  MaxWait = 1
  MaxTime = 3
  MaxStepBack = 0
  Size <- MCSize
  MaxSize = 9
SYMMETRY Symmetry
INVARIANTS MemoryIsFile OneAnswer CancelOrAnswer AnswerKept Restartable
PROPERTY LifeCycle
