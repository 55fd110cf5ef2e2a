SPECIFICATION MCSpec
CONSTANTS
  Volumes <- EveryLevel
  Requests = {r1, r2, r3}
  Ops = {"read", "write", "discard", "flush"}
  Ring = 1
  None = none
  Chunks = {1}
  MaxWindows = 1
  MaxFaults = 1
  MaxSync = 1
  MaxIssued <- OneOnPairs
SYMMETRY Symmetry
INVARIANTS SlotsExact NothingKept MembersThere Durable NoneForgotten
CHECK_DEADLOCK FALSE
