---------------------------- MODULE MCCxxBridge ----------------------------
(***************************************************************************)
(* Instances of CxxBridge for TLC.                                         *)
(***************************************************************************)
EXTENDS CxxBridge

CONSTANTS caller, js
=============================================================================
