------------------------------ MODULE ClientCalls ------------------------------
(***************************************************************************)
(* The calls of one operator's browser (client/src): the event stream, the *)
(* store of calls with its single incoming call, and the three ways a call *)
(* gets a microphone here - the buttons of the incoming modal, the         *)
(* automatic answer of useAICallHandler, and the scheduler.  Every await   *)
(* is a step, so replies, events and clicks interleave freely.             *)
(*                                                                         *)
(* The broker's side is what its handlers do with a call: requests are     *)
(* served in the steps of doAccept, and events reach the browser in order, *)
(* but only while it is subscribed and its channel has room.               *)
(***************************************************************************)
EXTENDS Naturals, SequencesExt

CONSTANTS Calls,         \* the calls of the session
          Inbound,       \* those that come from the peer; the others are placed here
          ChannelSize,   \* capacity of a subscriber's channel (32 in the code)
          None

ASSUME CallsAssumption == Inbound \subseteq Calls /\ None \notin Calls
ASSUME ChannelAssumption == ChannelSize \in Nat \ {0}

Askers == {"modal", "auto", "start"}

VARIABLES
  server,      \* the broker's status of each call
  owner,       \* CallRecord.Owner: "none", "me", "server" or "other"
  accepted,    \* the calls the engine has accepted (or placed)
  stream,      \* EventStream: "ticket", "opening", "open", "waiting" or "off"
  wire,        \* events on their way to this browser
  missed,      \* (history) calls whose call-ended never came
  listed,      \* useCalls.calls
  incoming,    \* useCalls.incoming
  conns,       \* useCalls.ownConnections
  mics,        \* microphone streams of each call that nobody has stopped
  pc,          \* each mutation (asker, call) and what it awaits
  rejecting,   \* the calls a reject is under way for
  handled,     \* handledIncomingRef
  looking,     \* calls whose AI configuration the auto-answer awaits
  timer        \* the call autoAnswerTimerRef is armed for

broker == <<server, owner, accepted>>
channel == <<stream, wire, missed>>
store == <<listed, incoming, conns>>
autoAnswer == <<handled, looking, timer>>
vars == <<broker, channel, store, mics, pc, rejecting, autoAnswer>>

Awaits == {"idle", "check", "claim", "accept", "config", "mic", "sdp", "answer", "hangup"}

TypeOK ==
  /\ server \in [Calls -> {"none", "ringing", "connected", "ended"}]
  /\ owner \in [Calls -> {"none", "me", "server", "other"}]
  /\ accepted \subseteq Calls /\ missed \subseteq Calls
  /\ stream \in {"ticket", "opening", "open", "waiting", "off"}
  /\ Len(wire) <= ChannelSize
  /\ listed \subseteq Calls /\ conns \subseteq Calls
  /\ incoming \in Calls \union {None}
  /\ mics \in [Calls -> 0 .. Cardinality(Askers)]
  /\ pc \in [Askers \X Calls -> Awaits]
  /\ rejecting \subseteq Calls /\ looking \subseteq Calls
  /\ handled \in Calls \union {None} /\ timer \in Calls \union {None}

Live == {c \in Calls : server[c] \in {"ringing", "connected"}}

Init ==
  /\ server = [c \in Calls |-> "none"] /\ owner = [c \in Calls |-> "none"]
  /\ accepted = {} /\ missed = {}
  /\ stream = "ticket" /\ wire = <<>>
  /\ listed = {} /\ incoming = None /\ conns = {}
  /\ mics = [c \in Calls |-> 0]
  /\ pc = [p \in Askers \X Calls |-> "idle"]
  /\ rejecting = {} /\ handled = None /\ looking = {} /\ timer = None

-----------------------------------------------------------------------------
(* Broadcasting. *)

\* Lists that repeat what the browser has been told are left out.
Event(type, c) == [type |-> type, call |-> c]
CallList(cs) == [type |-> "call-list", calls |-> cs]

Ends(events) == {ev.call : ev \in {e \in ToSet(events) : e.type = "call-ended"}}

\* (mutant) a subscriber that lags is waited for
BroadcastAll(events) ==
  /\ UNCHANGED stream
  /\ IF stream = "open"
     THEN wire' = wire \o events /\ UNCHANGED missed
     ELSE UNCHANGED wire /\ missed' = missed \union Ends(events)

\* The channel takes what it has room for and drops the rest.
Broadcast(events) ==
  /\ UNCHANGED stream
  /\ IF stream = "open"
     THEN LET all == wire \o events
              kept == SubSeq(all, 1, IF Len(all) < ChannelSize THEN Len(all) ELSE ChannelSize)
          IN /\ wire' = kept
             /\ missed' = IF kept = all THEN missed ELSE missed \union Ends(events)
     ELSE UNCHANGED wire /\ missed' = missed \union Ends(events)

\* endCall
BrokerEnds(c) ==
  /\ server' = [server EXCEPT ![c] = "ended"]
  /\ UNCHANGED <<owner, accepted>>
  /\ Broadcast(<<Event("call-ended", c)>>)

EndIfLive(c) == \/ c \in Live /\ BrokerEnds(c)
                \/ c \notin Live /\ UNCHANGED <<broker, channel>>

\* The peer calls: upsertCall and emitIncoming.
Ring(c) ==
  /\ c \in Inbound /\ server[c] = "none"
  /\ server' = [server EXCEPT ![c] = "ringing"]
  /\ Broadcast(<<CallList(Live \union {c}), Event("incoming", c)>>)
  /\ UNCHANGED <<owner, accepted, store, mics, pc, rejecting, autoAnswer>>

\* The media is up: upsertCall from the state listener.
Activate(c) ==
  /\ server[c] = "ringing" /\ c \in accepted
  /\ server' = [server EXCEPT ![c] = "connected"]
  /\ Broadcast(<<Event("connected", c)>>)
  /\ UNCHANGED <<owner, accepted, store, mics, pc, rejecting, autoAnswer>>

\* The peer, the engine or another client ends the call.
PeerEnds(c) ==
  /\ c \in Live
  /\ BrokerEnds(c)
  /\ UNCHANGED <<store, mics, pc, rejecting, autoAnswer>>

\* Another browser, or the server's AI, claims and accepts it.
OtherClaims(c) ==
  /\ server[c] = "ringing" /\ owner[c] = "none" /\ c \in Inbound
  /\ owner' = [owner EXCEPT ![c] = "other"]
  /\ accepted' = accepted \union {c}
  /\ Broadcast(<<Event("incoming-claimed", c)>>)
  /\ UNCHANGED <<server, store, mics, pc, rejecting, autoAnswer>>

-----------------------------------------------------------------------------
(* EventStream. *)

\* #open has its ticket and creates an EventSource.
TicketArrives ==
  /\ stream = "ticket"
  /\ stream' = "opening"
  /\ UNCHANGED <<broker, wire, missed, store, mics, pc, rejecting, autoAnswer>>

TicketFails ==
  /\ stream = "ticket"
  /\ stream' = "waiting"
  /\ UNCHANGED <<broker, wire, missed, store, mics, pc, rejecting, autoAnswer>>

\* The reply to the ticket is 401: the page is reloaded and asks for a login, and
\* the browser stops what the page had open.
Unauthorized ==
  /\ stream = "ticket"
  /\ stream' = "off"
  /\ wire' = <<>>
  /\ listed' = {} /\ incoming' = None /\ conns' = {}
  /\ mics' = [c \in Calls |-> 0] /\ pc' = [p \in Askers \X Calls |-> "idle"]
  /\ rejecting' = {} /\ handled' = None /\ looking' = {} /\ timer' = None
  /\ UNCHANGED <<broker, missed>>

\* serveSSE subscribes the browser and broadcasts the list of calls.
Subscribed ==
  /\ stream = "opening"
  /\ stream' = "open"
  /\ wire' = <<CallList(Live)>>
  /\ UNCHANGED <<broker, missed, store, mics, pc, rejecting, autoAnswer>>

\* onerror: what was on its way is lost.
StreamFails ==
  /\ stream \in {"opening", "open"}
  /\ stream' = "waiting"
  /\ wire' = <<>>
  /\ missed' = missed \union Ends(wire)
  /\ UNCHANGED <<broker, store, mics, pc, rejecting, autoAnswer>>

Retry ==
  /\ stream = "waiting"
  /\ stream' = "ticket"
  /\ UNCHANGED <<broker, wire, missed, store, mics, pc, rejecting, autoAnswer>>

-----------------------------------------------------------------------------
(* The listener of stores/calls.ts. *)

OnCallList(ev) ==
  /\ ev.type = "call-list"
  /\ listed' = ev.calls
  /\ UNCHANGED <<incoming, conns, mics>>

OnConnected(ev) ==
  /\ ev.type = "connected"
  /\ incoming' = IF incoming = ev.call THEN None ELSE incoming
  /\ UNCHANGED <<listed, conns, mics>>

\* (mutant) the incoming call is left to the other events
OnCallEndedRinging(ev) ==
  /\ ev.type = "call-ended"
  /\ mics' = IF ev.call \in conns THEN [mics EXCEPT ![ev.call] = @ - 1] ELSE mics
  /\ conns' = conns \ {ev.call}
  /\ listed' = listed \ {ev.call}
  /\ UNCHANGED incoming

OnCallEnded(ev) ==
  /\ ev.type = "call-ended"
  /\ mics' = IF ev.call \in conns THEN [mics EXCEPT ![ev.call] = @ - 1] ELSE mics
  /\ conns' = conns \ {ev.call}
  /\ listed' = listed \ {ev.call}
  /\ incoming' = IF incoming = ev.call THEN None ELSE incoming

OnIncoming(ev) ==
  /\ ev.type = "incoming"
  /\ incoming' = ev.call
  /\ UNCHANGED <<listed, conns, mics>>

OnClaimed(ev) ==
  /\ ev.type = "incoming-claimed"
  /\ incoming' = IF incoming = ev.call THEN None ELSE incoming
  /\ UNCHANGED <<listed, conns, mics>>

Deliver ==
  /\ wire # <<>>
  /\ wire' = Tail(wire)
  /\ LET ev == Head(wire)
     IN \/ OnCallList(ev) \/ OnConnected(ev) \/ OnCallEnded(ev)
        \/ OnIncoming(ev) \/ OnClaimed(ev)
  /\ UNCHANGED <<broker, stream, missed, pc, rejecting, autoAnswer>>

-----------------------------------------------------------------------------
(* The mutations: useAcceptCall, useStartCall, useRejectCall. *)

Here == stream # "off"
Goto(p, label) == pc' = [pc EXCEPT ![p] = label]

MicOn(c)  == mics' = [mics EXCEPT ![c] = @ + 1]
MicOff(c) == mics' = [mics EXCEPT ![c] = @ - 1]

\* busy of IncomingCallModal: one request at a time.
ModalBusy == rejecting # {} \/ \E c \in Calls : pc[<<"modal", c>>] # "idle"

ClickAccept ==
  /\ Here /\ incoming # None /\ ~ModalBusy
  /\ Goto(<<"modal", incoming>>, "check")
  /\ UNCHANGED <<broker, channel, store, mics, rejecting, autoAnswer>>

ClickReject ==
  /\ Here /\ incoming # None /\ ~ModalBusy
  /\ rejecting' = {incoming}
  /\ UNCHANGED <<broker, channel, store, mics, pc, autoAnswer>>

\* doReject ends the call whatever its state; onSettled clears the modal, even
\* when the request fails.
RejectSettles(c) ==
  /\ c \in rejecting
  /\ EndIfLive(c) \/ UNCHANGED <<broker, channel>>
  /\ rejecting' = rejecting \ {c}
  /\ incoming' = None
  /\ UNCHANGED <<listed, conns, mics, pc, autoAnswer>>

\* The request does not get through, or comes back as an error: a toast.
RequestFails(p) ==
  /\ pc[p] \in {"check", "claim", "accept", "config"}
  /\ Goto(p, "idle")
  /\ UNCHANGED <<broker, channel, store, mics, rejecting, autoAnswer>>

\* 409 clears the modal.
Conflict(p) ==
  /\ Goto(p, "idle")
  /\ incoming' = None
  /\ UNCHANGED <<broker, channel, listed, conns, mics, rejecting, autoAnswer>>

\* doAccept looks for another call of the same operator...
CheckOwner(p) ==
  /\ pc[p] = "check" /\ p[2] \in Live
  /\ IF \E c \in Live \ {p[2]} : owner[c] = "me"
     THEN Conflict(p)
     ELSE /\ Goto(p, "claim")
          /\ UNCHANGED <<broker, channel, store, mics, rejecting, autoAnswer>>

\* ...claims the call, for the operator or (with AI on the server) for it...
Claim(p) ==
  /\ pc[p] = "claim" /\ p[2] \in Live
  /\ \E who \in IF p[1] = "modal" THEN {"me", "server"} ELSE {"me"} :
        IF owner[p[2]] \in {"none", who}
        THEN /\ owner' = [owner EXCEPT ![p[2]] = who]
             /\ Broadcast(<<Event("incoming-claimed", p[2])>>)
             /\ Goto(p, "accept")
             /\ UNCHANGED <<server, accepted, store, mics, rejecting, autoAnswer>>
        ELSE Conflict(p)

\* ...and has the engine accept it, which it does once.
AcceptCall(p) ==
  /\ pc[p] = "accept" /\ server[p[2]] = "ringing" /\ p[2] \notin accepted
  /\ accepted' = accepted \union {p[2]}
  /\ Goto(p, "config")
  /\ UNCHANGED <<server, owner, channel, store, mics, rejecting, autoAnswer>>

\* The scheduler's interval finds no call here and one that is due (startCall).
StartScheduled(c) ==
  /\ Here /\ c \in Calls \ Inbound /\ server[c] = "none"
  /\ listed = {} /\ incoming = None
  /\ server' = [server EXCEPT ![c] = "ringing"]
  /\ owner' = [owner EXCEPT ![c] = "me"] /\ accepted' = accepted \union {c}
  /\ Broadcast(<<CallList(Live \union {c})>>)
  /\ Goto(<<"start", c>>, "config")
  /\ UNCHANGED <<store, mics, rejecting, autoAnswer>>

\* The dialer of Webphone, shown while no call is listed: the call is placed and
\* owned, and no microphone is opened for it here (handleCall).
Dial(c) ==
  /\ Here /\ c \in Calls \ Inbound /\ server[c] = "none" /\ listed = {}
  /\ server' = [server EXCEPT ![c] = "ringing"]
  /\ owner' = [owner EXCEPT ![c] = "me"] /\ accepted' = accepted \union {c}
  /\ Broadcast(<<CallList(Live \union {c})>>)
  /\ UNCHANGED <<store, mics, pc, rejecting, autoAnswer>>

\* The configuration says that the server's AI talks: nothing to open here.
ServerTalks(p) ==
  /\ pc[p] = "config" /\ p[1] = "modal"
  /\ Goto(p, "idle")
  /\ incoming' = None
  /\ UNCHANGED <<broker, channel, listed, conns, mics, rejecting, autoAnswer>>

OpenCall(p) ==
  /\ pc[p] = "config"
  /\ Goto(p, "mic")
  /\ UNCHANGED <<broker, channel, store, mics, rejecting, autoAnswer>>

\* A failed accept hangs up; a failed start only says so.
AfterFailure(p) == IF p[1] = "start" THEN "idle" ELSE "hangup"

MicDenied(p) ==
  /\ pc[p] = "mic"
  /\ Goto(p, AfterFailure(p))
  /\ UNCHANGED <<broker, channel, store, mics, rejecting, autoAnswer>>

MicGranted(p) ==
  /\ pc[p] = "mic"
  /\ MicOn(p[2])
  /\ Goto(p, "sdp")
  /\ UNCHANGED <<broker, channel, store, rejecting, autoAnswer>>

\* (mutant) a failure leaves the microphone to the garbage collector
MediaFailsOpen(p) ==
  /\ pc[p] \in {"sdp", "answer"}
  /\ Goto(p, AfterFailure(p))
  /\ UNCHANGED <<broker, channel, store, mics, rejecting, autoAnswer>>

\* The ICE gathering times out, the bridge is refused, the answer is no good: the
\* microphone is released.
MediaFails(p) ==
  /\ pc[p] \in {"sdp", "answer"}
  /\ MicOff(p[2])
  /\ Goto(p, AfterFailure(p))
  /\ UNCHANGED <<broker, channel, store, rejecting, autoAnswer>>

\* doWebRTC answers while the call is registered.
Bridged(p) ==
  /\ pc[p] = "sdp" /\ p[2] \in Live
  /\ Goto(p, "answer")
  /\ UNCHANGED <<broker, channel, store, mics, rejecting, autoAnswer>>

\* openCall returns: registerOwnConnection, and an accept clears the modal.
Register(p) ==
  /\ pc[p] = "answer"
  /\ conns' = conns \union {p[2]}
  /\ incoming' = IF p[1] = "start" THEN incoming ELSE None
  /\ Goto(p, "idle")
  /\ UNCHANGED <<broker, channel, listed, mics, rejecting, autoAnswer>>

HangUp(p) ==
  /\ pc[p] = "hangup"
  /\ EndIfLive(p[2]) \/ UNCHANGED <<broker, channel>>
  /\ Goto(p, "idle")
  /\ UNCHANGED <<store, mics, rejecting, autoAnswer>>

\* The operator hangs up in the dialer, the call's card or the drawer.
EndCall(c) ==
  /\ Here /\ c \in listed /\ c \in Live
  /\ BrokerEnds(c)
  /\ UNCHANGED <<store, mics, pc, rejecting, autoAnswer>>

-----------------------------------------------------------------------------
(* useAICallHandler: the automatic answer. *)

\* The effect runs after a render that shows a new incoming call.
NoticeIncoming ==
  /\ Here /\ incoming \notin {None, handled}
  /\ handled' = incoming
  /\ looking' = looking \union {incoming}
  /\ UNCHANGED <<broker, channel, store, mics, pc, rejecting, timer>>

\* No automatic answer, the server's business, or no configuration.
NotOurs(c) ==
  /\ c \in looking
  /\ looking' = looking \ {c}
  /\ UNCHANGED <<broker, channel, store, mics, pc, rejecting, handled, timer>>

\* An older timer is cleared.
ArmTimer(c) ==
  /\ c \in looking
  /\ looking' = looking \ {c}
  /\ timer' = c
  /\ UNCHANGED <<broker, channel, store, mics, pc, rejecting, handled>>

Answer(c) ==
  IF incoming = c /\ pc[<<"auto", c>>] = "idle"
  THEN Goto(<<"auto", c>>, "check")
  ELSE UNCHANGED pc

AnswerAtOnce(c) ==
  /\ c \in looking
  /\ looking' = looking \ {c}
  /\ Answer(c)
  /\ UNCHANGED <<broker, channel, store, mics, rejecting, handled, timer>>

TimerFires ==
  /\ timer # None
  /\ timer' = None
  /\ Answer(timer)
  /\ UNCHANGED <<broker, channel, store, mics, rejecting, handled, looking>>

\* The effect that clears the timer runs after a render without an incoming call.
CancelTimer ==
  /\ incoming = None /\ timer # None
  /\ timer' = None
  /\ UNCHANGED <<broker, channel, store, mics, pc, rejecting, handled, looking>>

-----------------------------------------------------------------------------
Connect == TicketArrives \/ Subscribed
Stream == Connect \/ TicketFails \/ Unauthorized \/ StreamFails \/ Retry

Step(p) == \/ RequestFails(p) \/ CheckOwner(p) \/ Claim(p) \/ AcceptCall(p)
           \/ ServerTalks(p) \/ OpenCall(p) \/ MicDenied(p) \/ MicGranted(p)
           \/ MediaFails(p) \/ Bridged(p) \/ Register(p) \/ HangUp(p)

Answerer == \/ NoticeIncoming \/ TimerFires \/ CancelTimer
            \/ \E c \in Calls : NotOurs(c) \/ ArmTimer(c) \/ AnswerAtOnce(c)

Next ==
  \/ \E c \in Calls : Ring(c) \/ Activate(c) \/ PeerEnds(c) \/ OtherClaims(c)
                      \/ StartScheduled(c) \/ Dial(c) \/ EndCall(c) \/ RejectSettles(c)
  \/ Stream \/ Deliver \/ Answerer
  \/ ClickAccept \/ ClickReject
  \/ \E p \in Askers \X Calls : Step(p)

\* Events are delivered, timers fire, and a server that is asked for ever gives a
\* ticket and a stream in the end.
Fairness == /\ WF_vars(Deliver) /\ WF_vars(Retry)
            /\ SF_vars(TicketArrives) /\ SF_vars(Subscribed)
            /\ \A p \in Askers \X Calls : WF_vars(Step(p))

Spec == Init /\ [][Next]_vars /\ Fairness

-----------------------------------------------------------------------------
(* Properties. *)

Opening(c) == {a \in Askers : pc[<<a, c>>] \in {"sdp", "answer"}}

\* A microphone that is on belongs to an openCall that is still under way or to
\* the one connection registered for its call: no failure and no second answer
\* to the same call (the modal's, the automatic one) leaves a stream nobody stops.
MicsAccounted ==
  \A c \in Calls :
    mics[c] = Cardinality(Opening(c)) + (IF c \in conns THEN 1 ELSE 0)

\* The modal rings for a call that has ended only while the news of its end is on
\* the way, or if they never reached this browser: no other event, request or
\* reordered list brings a dead call back.
RingingIsLive ==
  incoming # None /\ server[incoming] = "ended" =>
    incoming \in Ends(wire) \union missed

\* What OperatorCalls sees of the phone: whether a call is yet to ring here, rings or
\* has rung, and how far its media here are.
HasMic(c) == c \in conns \/ \E a \in Askers : pc[<<a, c>>] \in {"sdp", "answer"}

BellSeen(c) ==
  IF incoming = c THEN "ringing"
  ELSE IF server[c] = "none" \/ Event("incoming", c) \in ToSet(wire) THEN "silent" ELSE "over"

MediaSeen(c) ==
  IF c \notin accepted THEN "none"
  ELSE IF HasMic(c) THEN "on"
  ELSE IF \E a \in Askers : pc[<<a, c>>] \in {"config", "mic"} THEN "asked" ELSE "over"

Promise == INSTANCE OperatorCalls WITH
  status <- server,
  bell <- [c \in Calls |-> BellSeen(c)], media <- [c \in Calls |-> MediaSeen(c)]

\* The phone keeps its promise step by step, whichever of its askers answers, whatever
\* fails and whatever the stream loses: a call rings once, is taken once, and has one
\* microphone here at most, once.
ImplementsOperatorCalls == Promise!Spec

=============================================================================
