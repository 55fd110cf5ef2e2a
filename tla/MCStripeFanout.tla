--------------------------- MODULE MCStripeFanout ---------------------------
(* Small volumes for TLC.                                                   *)
EXTENDS StripeFanout

Small == {[level |-> "RAID0", nm |-> 2, stripe |-> 2],
          [level |-> "RAID0", nm |-> 3, stripe |-> 2],
          [level |-> "RAID10", nm |-> 4, stripe |-> 4]}
Mirrored == {[level |-> "RAID10", nm |-> 4, stripe |-> 4]}
Striped == {[level |-> "RAID0", nm |-> 2, stripe |-> 2]}

\* Each member's data begins at an offset of its own.
Offsets == [m \in 0 .. 5 |-> 3 * m]
=============================================================================
