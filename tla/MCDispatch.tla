----------------------------- MODULE MCDispatch -----------------------------
(* Small instances of Dispatch for TLC.                                      *)
EXTENDS Dispatch

CONSTANT MaxIssued   \* requests that are asked of a volume of each level

Raid0 == [level |-> "raid0", cols |-> <<{0}, {1}>>]
Raid1 == [level |-> "raid1", cols |-> <<{0, 1}>>]
Raid10 == [level |-> "raid10", cols |-> <<{0, 1}, {2, 3}>>]

EveryLevel == {Raid0, Raid1, Raid10}

\* Two at once on RAID0, three on a mirror, one on the pair of mirrors.
OneOnPairs == [raid0 |-> 2, raid1 |-> 3, raid10 |-> 1]

Issued == Cardinality({r \in Requests : rq[r].bio # None})

\* The tags are interchangeable.
Symmetry == Permutations(Requests)

\* At most one member is not live at first.
MCInit == Init /\ live \in {Members, Members \ {0}}

\* Two requests at once are two writes, or of different kinds.
Apart ==
  \A r, q \in Requests :
    r # q /\ rq[r].bio # None /\ rq[q].bio # None =>
      rq[r].bio.op # rq[q].bio.op \/ rq[r].bio.op = "write"

\* Three at once are reads and writes, and meet no fault, window or synchronous
\* command.
Three ==
  Issued = 3 =>
    /\ \A r \in Requests : rq[r].bio # None => rq[r].bio.op \in {"read", "write"}
    /\ budget = [windows |-> MaxWindows, faults |-> MaxFaults, sync |-> MaxSync]

\* A synchronous command and a window do not meet in one behaviour.
Either == budget.sync = MaxSync \/ budget.windows = MaxWindows

MCNext == Next /\ Issued' <= MaxIssued[vol.level] /\ Apart' /\ Three' /\ Either'
MCSpec == MCInit /\ [][MCNext]_vars
=============================================================================
