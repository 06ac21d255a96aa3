---------------------------- MODULE MCCallRecords ----------------------------
(* Instances of CallRecords for TLC. *)
EXTENDS CallRecords, TLC
==============================================================================
