--------------------------- MODULE MCAsyncEngine ---------------------------
(* Small instances of AsyncEngine for TLC.                                   *)
EXTENDS AsyncEngine, TLC

CONSTANTS c0, c1, m0, m1

\* A range whose last chunk is short.
SomeRanges == {<<0, 3>>}
SomeTargets == {-1, 1}

\* A mirrored parent, and one with a single copy left.
TwoAndOne == (c0 :> {m0, m1} @@ c1 :> {m1})

\* The pumps share no state but the unload, so a behaviour that drives both
\* shows neither anything new: a run drives one of them.
OnePump ==
  \/ jobs = 0 /\ marks = 0
  \/ \A c \in Contexts : ctx[c].place = "none" /\ parent[c] = <<>>

MCNext == Next /\ OnePump'

MCSpec == Init /\ [][MCNext]_vars /\ Fairness
=============================================================================
