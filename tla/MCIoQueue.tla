------------------------------ MODULE MCIoQueue ------------------------------
(* Symmetry for TLC: tags are interchangeable.                              *)
EXTENDS IoQueue, TLC

Symmetry == Permutations(Tags)
=============================================================================
