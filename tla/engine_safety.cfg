SPECIFICATION MCSpec
CONSTANTS
  c0 = c0
  c1 = c1
  m0 = m0
  m1 = m1
  None = none
  Contexts = {c0, c1}
  Members = {m0, m1}
  Fan <- TwoAndOne
  Aborter = aborter
  Repeat = repeat
  Flush = flush
  Reports = {"ok", "ioerr"}
  GraveMax = 2
  Admit = {}
  Slots = {0, 1, 2, 3}
  Ranges <- SomeRanges
  Targets <- SomeTargets
  Chunk = 2
  Width = 16
  Drives = {0, 3, 4}
  MaxJobs = 2
  MaxMarks = 1
  Threadless = FALSE
INVARIANTS ParentTold ReapedOnce NoUseAfterFree BrakeWorks
PROPERTY EngineEnds
CHECK_DEADLOCK FALSE
