SPECIFICATION FanoutSpec
CONSTANTS
  Geometries <- Small
  Rows = 3
  Rest = 0
  Base <- Offsets
  Page = 2
  MaxSectors = 9
  Xfer = 3
  ReadBoth = FALSE
INVARIANTS RightPlace CopyAligned FanoutExact
CHECK_DEADLOCK FALSE
