SPECIFICATION AdapterSpec
CONSTANTS
  Devs = {d1, d2}
  NoOne = noone
  Other = other
  Rigs <- SomeRigs
  Slots = 2
  Expected = 2
  Vectors = {2}
  Target = 2
  Cpus = 2
  MaxFaults = 1
  MaxProbes = 2
  MaxRemovals = 1
  Admit = {}
SYMMETRY Symmetry
INVARIANTS NothingLeft NothingGone NobodyStuck
CHECK_DEADLOCK FALSE
