----------------------------- MODULE MCVoiceAgent -----------------------------
(* Instances of VoiceAgent for TLC. *)
EXTENDS VoiceAgent, TLC
=============================================================================
