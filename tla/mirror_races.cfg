SPECIFICATION LiveSpec
CONSTANTS
  Members = {m0, m1}
  Writers = {w1}
  Total = 2
  Xfer = 1
  MaxRetries = 1
  Initial = initial
  Stale = stale
  None = none
  MaxFaults = 1
  Admit = {"snapshot", "late_write"}
INVARIANT CopyExclusive
PROPERTY AllEnd
CHECK_DEADLOCK FALSE
