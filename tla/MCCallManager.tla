---------------------------- MODULE MCCallManager ----------------------------
(* Instances of CallManager for TLC. *)
EXTENDS CallManager, TLC
==============================================================================
