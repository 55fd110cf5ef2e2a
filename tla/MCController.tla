---------------------------- MODULE MCController ----------------------------
(* Small instances of Controller for TLC.                                   *)
EXTENDS Controller, TLC

CONSTANT r0
=============================================================================
