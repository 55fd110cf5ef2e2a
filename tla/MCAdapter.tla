------------------------------ MODULE MCAdapter ------------------------------
(* Small instances of Adapter for TLC.                                      *)
EXTENDS Adapter, TLC

\* All but others are members of an array; n slots are taken already.
Rig(others, n) == [kind |-> [d \in Devs |-> IF d \in others THEN "ahci" ELSE "nvme"],
                   taken |-> n]

\* Two members of an array; one, a controller that is not NVMe and no slot for both.
SomeRigs == {Rig({}, 0)} \cup {Rig({d}, 1) : d \in Devs}

\* The devices differ in their kind only.
Symmetry == Permutations(Devs)
=============================================================================
