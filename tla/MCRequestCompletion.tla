------------------------ MODULE MCRequestCompletion ------------------------
(* RequestCompletion for TLC: members and tags are interchangeable.          *)
EXTENDS RequestCompletion, TLC

Symmetry == Permutations(Members) \cup Permutations(Tags)
=============================================================================
