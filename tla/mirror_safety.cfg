SPECIFICATION Spec
CONSTANTS
  Members = {m0, m1}
  Writers = {w1,w2}
  Total = 2
  Xfer = 1
  MaxRetries = 1
  Initial = initial
  Stale = stale
  None = none
  MaxFaults = 1
  Admit = {}
SYMMETRY Symmetry
INVARIANTS CopiesCurrent
PROPERTIES BehavesAsOneDisk PromotedOnlyByCopy
CHECK_DEADLOCK FALSE
