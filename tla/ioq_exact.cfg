SPECIFICATION Spec
CONSTANTS
  Depth = 3
  Tags = {t0, t1}
  SeqValues = 4
  MaxSync = 2
  MaxTimeouts = 1
  MaxResets = 1
  ResetRaces = FALSE
SYMMETRY Symmetry
INVARIANTS RingExact StatusOwn
CHECK_DEADLOCK FALSE
