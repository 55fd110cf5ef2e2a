--------------------------- MODULE MCMemberState ----------------------------
(* Small instances of MemberState for TLC.                                  *)
EXTENDS MemberState, TLC

CONSTANTS f1, f2, t1, t2
=============================================================================
