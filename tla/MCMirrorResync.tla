--------------------------- MODULE MCMirrorResync ---------------------------
(* Small instances of MirrorResync for TLC.                                 *)
EXTENDS MirrorResync, TLC

\* The contents of sectors are compared, never ordered: writers are
\* interchangeable.
Symmetry == Permutations(Writers) \cup Permutations(Members)
=============================================================================
