---------------------------- MODULE OperatorCalls ----------------------------
(***************************************************************************)
(* What the web phone promises the operator of one browser about each      *)
(* call.  A call rings here once, if at all, and nothing rings beside it.  *)
(* It is taken once, by this browser or by somebody else, and only a call  *)
(* taken here ever opens a microphone here: one, once, which stays off     *)
(* when it has been closed.  Nobody is connected to a call that has not    *)
(* been taken, and a call that has ended stays so.                         *)
(*                                                                         *)
(* The phone itself, with its stream of events, its store and everything   *)
(* that answers calls, is ClientCalls, which is shown to implement this    *)
(* module.                                                                 *)
(***************************************************************************)
EXTENDS Naturals

CONSTANTS Calls, Inbound

VARIABLES status, \* of each call: "none", "ringing", "connected" or "ended"
          bell,   \* what is heard of it here: "silent", "ringing" or "over"
          media,  \* its media here: "none", "asked", "on" or "over"
          mics    \* the microphones open for it here

vars == <<status, bell, media, mics>>

Init ==
  /\ status = [c \in Calls |-> "none"] /\ bell = [c \in Calls |-> "silent"]
  /\ media = [c \in Calls |-> "none"] /\ mics = [c \in Calls |-> 0]

\* The bells of some calls, which have begun, stop or will not ring at all.
Cease(S) == bell' = [c \in Calls |-> IF c \in S THEN "over" ELSE bell[c]]
SomeCease == \E S \in SUBSET {c \in Calls : status[c] # "none"} : Cease(S)

\* The peer calls; the news of it may not come through.
Ring(c) ==
  /\ c \in Inbound /\ status[c] = "none"
  /\ status' = [status EXCEPT ![c] = "ringing"]
  /\ Cease({}) \/ Cease({c})
  /\ UNCHANGED <<media, mics>>

\* A call is placed from here, with media here or for the server's AI.
Place(c) ==
  /\ c \in Calls \ Inbound /\ status[c] = "none"
  /\ status' = [status EXCEPT ![c] = "ringing"]
  /\ Cease({c})
  /\ \E step \in {"asked", "over"} : media' = [media EXCEPT ![c] = step]
  /\ UNCHANGED mics

\* It rings here, and nothing else does.
RingHere(c) ==
  /\ c \in Inbound /\ status[c] # "none" /\ bell[c] = "silent"
  /\ bell' = [d \in Calls |-> IF d = c THEN "ringing"
                              ELSE IF bell[d] = "ringing" THEN "over" ELSE bell[d]]
  /\ UNCHANGED <<status, media, mics>>

\* It is taken, here or elsewhere.
Take(c) ==
  /\ status[c] = "ringing" /\ media[c] = "none"
  /\ \E step \in {"asked", "over"} : media' = [media EXCEPT ![c] = step]
  /\ UNCHANGED <<status, bell, mics>>

Open(c) ==
  /\ media[c] = "asked" /\ media' = [media EXCEPT ![c] = "on"]
  /\ mics' = [mics EXCEPT ![c] = 1]
  /\ UNCHANGED <<status, bell>>

\* The media are closed, or given up, for good.
Close(c) ==
  /\ media[c] \in {"asked", "on"} /\ media' = [media EXCEPT ![c] = "over"]
  /\ mics' = [mics EXCEPT ![c] = 0]
  /\ SomeCease
  /\ UNCHANGED status

Connect(c) ==
  /\ status[c] = "ringing" /\ media[c] # "none"
  /\ status' = [status EXCEPT ![c] = "connected"]
  /\ UNCHANGED <<bell, media, mics>>

End(c) ==
  /\ status[c] \in {"ringing", "connected"}
  /\ status' = [status EXCEPT ![c] = "ended"]
  /\ SomeCease
  /\ UNCHANGED <<media, mics>>

\* What rings is answered, claimed or called off, or the stream breaks.
Hush == SomeCease /\ UNCHANGED <<status, media, mics>>

\* The page goes away, and everything it had open.
Leave ==
  /\ media' = [c \in Calls |-> IF media[c] \in {"asked", "on"} THEN "over" ELSE media[c]]
  /\ mics' = [c \in Calls |-> 0]
  /\ SomeCease
  /\ UNCHANGED status

Next ==
  \/ \E c \in Calls : Ring(c) \/ Place(c) \/ RingHere(c) \/ Take(c) \/ Open(c) \/ Close(c)
                      \/ Connect(c) \/ End(c)
  \/ Hush \/ Leave

Spec == Init /\ [][Next]_vars
==============================================================================
