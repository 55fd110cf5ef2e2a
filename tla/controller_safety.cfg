SPECIFICATION FairSpec
CONSTANTS
  r0 = r0
  Reqs = {r0}
  None = none
  Queues = 1
  MaxEvents = 2
INVARIANTS ReadyUnlessDead FreedUnowned AsleepQuiet NotThrashed
PROPERTY RecoveryEnds
CHECK_DEADLOCK FALSE
