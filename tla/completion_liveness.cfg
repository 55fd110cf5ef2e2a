SPECIFICATION LiveSpec
CONSTANTS
  Members = {m0, m1}
  Tags = {t0}
  Batch = 0
  MaxRearm = 1
  None = none
  MaxUses = 1
  MaxFaults = 1
  Late = {}
PROPERTY RequestsEnd
CHECK_DEADLOCK FALSE
