----------------------------- MODULE MCAssembly -----------------------------
(* Small instances of Assembly for TLC.                                     *)
EXTENDS Assembly, TLC

CONSTANTS a0, a1, a2, a3

\* A sound record of one volume with two sectors per member.
Sound(level, pos, n) ==
  LET first == CASE level = "RAID0" -> n [] level = "RAID1" -> 1 [] OTHER -> n \div 2
  IN  [ld |-> TRUE, level |-> level, pos |-> pos, devices |-> n, first |-> first,
       capacity |-> 2 * first, size |-> 2, stripe |-> 1, plausible |-> TRUE,
       queues |-> 2, bdf |-> pos]
Legacy(bdf) == [Sound("RAID0", bdf, 2) EXCEPT !.ld = FALSE]

Fleet(label) == [label |-> label, degraded |-> TRUE, writes |-> TRUE]

\* A mirror and a third drive for the place of the second: as good; with
\* fewer queues; smaller.
Pair(spare) == Fleet((a0 :> Sound("RAID1", 0, 2)) @@ (a1 :> Sound("RAID1", 1, 2)) @@ (a2 :> spare))
Spares == {Sound("RAID1", 1, 2),
           [Sound("RAID1", 1, 2) EXCEPT !.queues = 1],
           [Sound("RAID1", 1, 2) EXCEPT !.size = 1, !.capacity = 1]}
Mirrors == {Pair(spare) : spare \in Spares} \cup
             {[Pair(Sound("RAID1", 1, 2)) EXCEPT !.degraded = FALSE, !.writes = FALSE]}

\* A mirror whose third drive has a record that does not add up.
DoubtfulSpare == {Pair([Sound("RAID1", 1, 2) EXCEPT !.capacity = 1])}

Nested == {Fleet((a0 :> Sound("RAID10", 0, 4)) @@ (a1 :> Sound("RAID10", 1, 4))
                 @@ (a2 :> Sound("RAID10", 2, 4)) @@ (a3 :> Sound("RAID10", 3, 4)))}

\* Striped volumes: sound, doubtful, by bus order; and drives that do not
\* belong together.
Odd(r) == Fleet((a0 :> Sound("RAID0", 0, 2)) @@ (a1 :> Sound("RAID0", 1, 2)) @@ (a2 :> r))
Striped == {Odd([Sound("RAID0", 1, 2) EXCEPT !.plausible = FALSE]),
            Odd([Sound("RAID0", 1, 2) EXCEPT !.stripe = 2]),
            Odd(Sound("RAID0", 2, 3)),
            Odd(Sound("RAID1", 1, 2)),
            Odd([Sound("RAID0", 1, 2) EXCEPT !.level = "other"]),
            Fleet((a0 :> Legacy(1)) @@ (a1 :> Legacy(0)))}

\* One record of two cannot be read.
Mixed == {Fleet((a0 :> Legacy(0)) @@ (a1 :> Sound("RAID0", 1, 2)))}

AllFleets == Mirrors \cup Striped \cup Nested
=============================================================================
