SPECIFICATION Spec
CONSTANTS
  Members = {m0, m1}
  Tags = {t0}
  Batch = 1
  MaxRearm = 1
  None = none
  MaxUses = 2
  MaxFaults = 1
  Late = {}
SYMMETRY Symmetry
INVARIANTS EndedOnce NothingOwed OkIsDurable
CHECK_DEADLOCK FALSE
