---------------------------- MODULE MCRCTTiming ----------------------------
(* Instances of RCTTiming for TLC. *)
EXTENDS RCTTiming
=============================================================================
