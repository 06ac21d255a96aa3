---------------------------- MODULE MCClientCalls ----------------------------
(* Instances of ClientCalls for TLC. *)
EXTENDS ClientCalls, TLC
CONSTANTS c1, s1
=============================================================================
