SPECIFICATION FairSpec
CONSTANTS
  f1 = f1
  f2 = f2
  t1 = t1
  t2 = t2
  Members = {0, 1}
  Failers = {f1, f2}
  Copiers = {t1, t2}
  None = none
  Total = 1
  Races = {}
  MaxEvents = 2
INVARIANTS Settled
PROPERTIES FailLands Rebuilt
CHECK_DEADLOCK FALSE
