---------------------------- MODULE CallLifecycle ----------------------------
(***************************************************************************)
(* What the call engine promises its users about one call: it goes through *)
(* the phases of callstate.go in their order, its audio codec is acquired  *)
(* once, when the call begins, and released once and for good, and the     *)
(* silence keepalive (which is also the watchdog of the relay connection)  *)
(* runs exactly while an established call holds its codec.                 *)
(*                                                                         *)
(* The engine itself, with its goroutines, is CallManager, which is shown  *)
(* to implement this module.                                               *)
(***************************************************************************)

VARIABLES phase,     \* CallStateData.State, "none" before there is a call
          codec,     \* the call holds its codec
          watchdog   \* the silence keepalive is armed

vars == <<phase, codec, watchdog>>

Phases == {"Initiating", "Ringing", "IncomingRinging", "Connecting",
           "Active", "OnHold", "Ended"}

\* The edges of ApplyTransition: the phases a transition may leave and the one
\* it enters.  (Muting and the camera do not change the phase.)
Edge ==
  [OfferSent      |-> [from |-> {"Initiating"},      to |-> "Ringing"],
   OfferReceived  |-> [from |-> {"Initiating"},      to |-> "IncomingRinging"],
   RemoteAccepted |-> [from |-> {"Ringing"},         to |-> "Connecting"],
   LocalAccepted  |-> [from |-> {"IncomingRinging"}, to |-> "Connecting"],
   RemoteRejected |-> [from |-> {"Ringing"},         to |-> "Ended"],
   LocalRejected  |-> [from |-> {"IncomingRinging"}, to |-> "Ended"],
   MediaConnected |-> [from |-> {"Connecting"},      to |-> "Active"],
   Terminated     |-> [from |-> Phases \ {"Ended"},  to |-> "Ended"],
   Hold           |-> [from |-> {"Active"},          to |-> "OnHold"],
   Resume         |-> [from |-> {"OnHold"},          to |-> "Active"]]

Transitions == DOMAIN Edge

Valid(p, t) == p \in Edge[t].from

\* (mutant) a transition that is not valid is recorded all the same
ApplyTransitionAnyway(p, t) == IF Valid(p, t) THEN Edge[t].to ELSE t

\* ApplyTransition changes nothing when it returns InvalidTransition.
ApplyTransition(p, t) == IF Valid(p, t) THEN Edge[t].to ELSE p

Init == /\ phase = "none"
        /\ codec = FALSE
        /\ watchdog = FALSE

\* A call is placed or offered; it has audio if the codec library loads.
Begin == /\ phase = "none"
         /\ phase' \in {"Initiating", "IncomingRinging"}
         /\ codec' \in BOOLEAN
         /\ UNCHANGED watchdog

\* The media path opens: the call is established and its watchdog armed.
Establish == /\ Valid(phase, "MediaConnected")
             /\ phase' = Edge["MediaConnected"].to
             /\ watchdog' = codec
             /\ UNCHANGED codec

Proceed == \E t \in Transitions \ {"MediaConnected"} :
             /\ Valid(phase, t)
             /\ phase' = Edge[t].to
             /\ UNCHANGED <<codec, watchdog>>

\* The media of a call is released: codec and watchdog go together.
Release == /\ phase # "none"
           /\ codec' = FALSE
           /\ watchdog' = FALSE
           /\ UNCHANGED phase

Next == Begin \/ Establish \/ Proceed \/ Release

ReleaseEnded == phase = "Ended" /\ Release

Spec == Init /\ [][Next]_vars /\ WF_vars(ReleaseEnded)
==============================================================================
