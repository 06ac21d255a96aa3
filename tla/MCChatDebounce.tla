--------------------------- MODULE MCChatDebounce ---------------------------
(* ChatDebounce for TLC: the bounds are in the .cfg files. *)
EXTENDS ChatDebounce
==============================================================================
