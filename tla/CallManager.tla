----------------------------- MODULE CallManager -----------------------------
(***************************************************************************)
(* The call engine (internal/voip/call) of one WhatsApp call.  Several     *)
(* goroutines share it: the whatsmeow event loop, the goroutine waiting    *)
(* for the ack of the offer, the HTTP handlers of the operators, the       *)
(* silence keepalive, and one callback per relay connection that opens.    *)
(* They meet only in the sections that hold CallManager.mu; one step of    *)
(* this module is one such section, or one call made between two of them.  *)
(*                                                                         *)
(* A CallManager carries one call: session.go makes a new one for every    *)
(* offer, in or out, and registers it.  The relays are seen from outside,  *)
(* being dialled or open.                                                  *)
(***************************************************************************)
EXTENDS FiniteSets

CONSTANTS Operators,  \* HTTP handlers and other goroutines that act on calls
          Relays      \* the usable relay endpoints of the call

Workers == {"events", "ack", "keepalive"}
Threads == Workers \union Operators \union Relays

ASSUME ThreadsAssumption ==
  /\ Operators \intersect Relays = {}
  /\ Workers \intersect (Operators \union Relays) = {}

VARIABLES
  state,          \* currentCall.StateData.State, "none" while currentCall is nil
  direction,      \* currentCall.Direction
  relayData,      \* currentCall.RelayData: nil, or with or without usable endpoints
  key,            \* currentCall.EncryptionKey # nil
  codec,          \* m.codec # nil
  srtp,           \* m.srtpSession # nil
  keepaliveStop,  \* m.keepaliveStop # nil
  dialing,        \* relays in the transport's map, not open yet
  open,           \* relays in the transport's map, open
  registered,     \* the session's registry still routes to this call
  pc,             \* what each thread does next
  after,          \* what it does once the state listeners have returned
  read,           \* the state a thread's listeners have read, until they return
  seen,           \* the last state that listeners have acted on before it was left
  lateDial        \* (history) relays were dialled after the call had ended

media == <<key, codec, srtp, keepaliveStop>>
relay == <<dialing, open>>
vars == <<state, direction, relayData, media, relay, registered, pc, after,
          read, seen, lateDial>>

\* ApplyTransition and its edges are those of the lifecycle.
Lifecycle == INSTANCE CallLifecycle WITH phase <- state, watchdog <- keepaliveStop

Labels == {"idle", "routed", "offer", "query", "accepting", "emit", "told",
           "incoming", "activate", "reaccept", "reacceptDial", "dial", "notify", "cleanup",
           "closeRelays", "opened", "watch", "expired"}

ControlOK ==
  /\ pc \in [Threads -> Labels]
  /\ after \in [Threads -> Labels]

CallOK ==
  /\ state \in Lifecycle!Phases \union {"none"}
  /\ direction \in {"none", "outgoing", "incoming"}
  /\ relayData \in {"nil", "unusable", "usable"}
  /\ dialing \subseteq Relays /\ open \subseteq Relays
  /\ read \in [Threads -> Lifecycle!Phases \union {"none"}]
  /\ seen \in Lifecycle!Phases \union {"none"}

FlagsOK == {key, codec, srtp, keepaliveStop, registered, lateDial} \subseteq BOOLEAN

TypeOK == ControlOK /\ CallOK /\ FlagsOK

Init ==
  /\ state = "none" /\ direction = "none" /\ relayData = "nil"
  /\ key = FALSE /\ codec = FALSE /\ srtp = FALSE /\ keepaliveStop = FALSE
  /\ dialing = {} /\ open = {}
  /\ registered = FALSE
  /\ pc = [t \in Threads |-> "idle"]
  /\ after = [t \in Threads |-> "idle"]
  /\ read = [t \in Threads |-> "none"] /\ seen = "none"
  /\ lateDial = FALSE

-----------------------------------------------------------------------------
Apply(t) == state' = Lifecycle!ApplyTransition(state, t)

Goto(t, label) == pc' = [pc EXCEPT ![t] = label] /\ UNCHANGED after

\* Leave the critical section, call emitState, then go on at label.
EmitThen(t, label) == /\ pc' = [pc EXCEPT ![t] = "emit"]
                      /\ after' = [after EXCEPT ![t] = label]

\* (mutant) no session is derived when there is none yet
InitSrtpKeysKeeps == srtp

\* initSrtpKeysLocked: the session is derived from the call's key, if it has one.
InitSrtpKeys == srtp \/ key

\* emitState, and the listeners up to where they read the state.  They are given
\* the call itself, so they find the state it has by then, whatever transition
\* announced them...
EmitState(t) ==
  /\ pc[t] = "emit"
  /\ read' = [read EXCEPT ![t] = state]
  /\ pc' = [pc EXCEPT ![t] = "told"]
  /\ UNCHANGED <<state, direction, relayData, media, relay, registered, after,
                 seen, lateDial>>

\* ...and what they make of it they write with no lock held since, before or
\* after the listeners of another thread that have read a later state.
ListenersReturn(t) ==
  /\ pc[t] = "told"
  /\ seen' = IF read[t] = state THEN state ELSE seen
  /\ read' = [read EXCEPT ![t] = "none"]
  /\ pc' = [pc EXCEPT ![t] = after[t]]
  /\ after' = [after EXCEPT ![t] = "idle"]
  /\ UNCHANGED <<state, direction, relayData, media, relay, registered, lateDial>>

\* (mutant) the activation is not announced
ActivateThenSilently(t, label) ==
  /\ state' = "Active"
  /\ keepaliveStop' = (keepaliveStop \/ codec)
  /\ pc' = IF codec /\ ~keepaliveStop
             THEN [pc EXCEPT ![t] = label, !["keepalive"] = "watch"]
             ELSE [pc EXCEPT ![t] = label]
  /\ UNCHANGED after

\* startSilenceKeepaliveLocked, called as the call becomes Active, by thread t
\* which then notifies the listeners.
ActivateThen(t, label) ==
  /\ state' = "Active"
  /\ keepaliveStop' = (keepaliveStop \/ codec)
  /\ pc' = IF codec /\ ~keepaliveStop
             THEN [pc EXCEPT ![t] = "emit", !["keepalive"] = "watch"]
             ELSE [pc EXCEPT ![t] = "emit"]
  /\ after' = [after EXCEPT ![t] = label]

-----------------------------------------------------------------------------
(* Calls begin. *)

\* session.createCall registers the manager, StartCall installs the call.
StartCall(o) ==
  /\ pc[o] = "idle" /\ state = "none"
  /\ state' = "Initiating" /\ direction' = "outgoing"
  /\ key' = TRUE /\ codec' \in BOOLEAN
  /\ registered' = TRUE
  /\ Goto(o, "offer")
  /\ UNCHANGED <<relayData, srtp, keepaliveStop, relay, read, seen, lateDial>>

\* The offer stanza could not be built: StartCall fails, the session forgets the call.
BuildOfferFails(o) ==
  /\ pc[o] = "offer"
  /\ registered' = FALSE
  /\ Goto(o, "idle")
  /\ UNCHANGED <<state, direction, relayData, media, relay, read, seen, lateDial>>

OfferSent(o) ==
  /\ pc[o] = "offer"
  /\ Apply("OfferSent")
  /\ EmitThen(o, "query")
  /\ UNCHANGED <<direction, relayData, media, relay, registered, read, seen, lateDial>>

\* StartCall returns and leaves a goroutine that sends the offer and awaits its ack.
SpawnOfferQuery(o) ==
  /\ pc[o] = "query"
  /\ pc' = [pc EXCEPT ![o] = "idle", !["ack"] = "query"]
  /\ UNCHANGED <<state, direction, relayData, media, relay, registered, after,
                 read, seen, lateDial>>

HandleCallOffer ==
  /\ pc["events"] = "idle" /\ state = "none"
  /\ state' = "IncomingRinging" /\ direction' = "incoming"
  /\ registered' = TRUE
  /\ relayData' \in {"unusable", "usable"}
  /\ key' \in BOOLEAN /\ codec' \in BOOLEAN
  /\ srtp' = (srtp \/ (key' /\ relayData' = "usable"))
  /\ Goto("events", "incoming")
  /\ UNCHANGED <<keepaliveStop, relay, read, seen, lateDial>>

\* The incoming handler only writes the broker's record; then the listeners run.
AnnounceIncoming ==
  /\ pc["events"] = "incoming"
  /\ EmitThen("events", "idle")
  /\ UNCHANGED <<state, direction, relayData, media, relay, registered, read, seen, lateDial>>

-----------------------------------------------------------------------------
(* The registry hands the call to a handler; the call may end before it acts.  *)

\* The peer answers no offer that was not sent; operators may act at any time.
Route(t) ==
  /\ t \in Operators \union {"events"}
  /\ pc[t] = "idle" /\ registered
  /\ t = "events" => state # "Initiating"
  /\ Goto(t, "routed")
  /\ UNCHANGED <<state, direction, relayData, media, relay, registered, read, seen, lateDial>>

\* A handler whose guard refuses returns without a trace.
Refused(t) ==
  /\ \/ pc[t] = "routed"
     \/ pc[t] = "expired" /\ state \in {"none", "Ended"}
  /\ Goto(t, "idle")
  /\ UNCHANGED <<state, direction, relayData, media, relay, registered, read, seen, lateDial>>

AcceptCall(o) ==
  /\ o \in Operators /\ pc[o] = "routed"
  /\ state = "IncomingRinging"
  /\ Apply("LocalAccepted")
  /\ EmitThen(o, IF relayData = "nil" THEN "idle" ELSE "dial")
  /\ UNCHANGED <<direction, relayData, media, relay, registered, read, seen, lateDial>>

RejectCall(o) ==
  /\ o \in Operators /\ pc[o] = "routed"
  /\ state # "none"
  /\ Apply("LocalRejected")
  /\ EmitThen(o, "cleanup")
  /\ UNCHANGED <<direction, relayData, media, relay, registered, read, seen, lateDial>>

\* EndCall, by an operator or by the keepalive that lost its relays.
EndCall(t) ==
  /\ \/ t \in Operators /\ pc[t] = "routed"
     \/ t = "keepalive" /\ pc[t] = "expired"
  /\ state \notin {"none", "Ended"}
  /\ Apply("Terminated")
  /\ EmitThen(t, "notify")
  /\ UNCHANGED <<direction, relayData, media, relay, registered, read, seen, lateDial>>

-----------------------------------------------------------------------------
(* Signalling from the peer. *)

\* (mutant) a call the peer ends keeps its media
HandleCallTerminateKeepsMedia ==
  /\ pc["events"] = "routed" /\ state # "none"
  /\ Apply("Terminated")
  /\ EmitThen("events", "idle")
  /\ UNCHANGED <<direction, relayData, media, relay, registered, read, seen, lateDial>>

\* HandleCallTerminate ends the call, or goes through the same motions again.
HandleCallTerminate ==
  /\ pc["events"] = "routed" /\ state # "none"
  /\ Apply("Terminated")
  /\ EmitThen("events", "notify")
  /\ UNCHANGED <<direction, relayData, media, relay, registered, read, seen, lateDial>>

\* Endpoints of a transport stanza carry no relay token, so none of them can be
\* dialled, but they replace the ones the call had.
HandleCallTransport ==
  /\ pc["events"] = "routed" /\ state # "none" /\ open = {}
  /\ relayData' = "unusable"
  /\ Goto("events", "idle")
  /\ UNCHANGED <<state, direction, media, relay, registered, read, seen, lateDial>>

\* HandleCallAccept reads the call and decrypts the peer's key...
ReadAcceptedCall ==
  /\ pc["events"] = "routed" /\ direction = "outgoing"
  /\ Goto("events", "accepting")
  /\ UNCHANGED <<state, direction, relayData, media, relay, registered, read, seen, lateDial>>

\* (mutant) the accept does not look for a relay that is open already
AfterAcceptWaits == IF relayData = "usable" THEN "reacceptDial" ELSE "idle"

\* What HandleCallAccept goes on to do, from the relays it saw under the lock.
AfterAccept ==
  CASE open # {}                            -> "activate"
    [] open = {} /\ relayData = "usable"    -> "reacceptDial"
    [] open = {} /\ relayData = "unusable"  -> "reaccept"
    [] OTHER                                -> "idle"

\* ...then accepts it, and decides on the relays it sees in that section.
HandleCallAccept ==
  /\ pc["events"] = "accepting"
  /\ Apply("RemoteAccepted")
  /\ srtp' = InitSrtpKeys
  /\ EmitThen("events", AfterAccept)
  /\ UNCHANGED <<direction, relayData, key, codec, keepaliveStop, relay, registered,
                 read, seen, lateDial>>

\* (mutant) the call is activated without looking at its state again
ActivateAcceptedBlindly ==
  /\ pc["events"] = "activate"
  /\ ActivateThen("events", "idle")
  /\ UNCHANGED <<direction, relayData, key, codec, srtp, relay, registered, read, seen, lateDial>>

\* The media path was already open when the peer accepted.
ActivateAccepted ==
  /\ pc["events"] = "activate"
  /\ \/ state \in {"Ringing", "Connecting"} /\ ActivateThen("events", "idle")
     \/ /\ state \notin {"Ringing", "Connecting"}
        /\ Goto("events", "idle") /\ UNCHANGED <<state, keepaliveStop>>
  /\ UNCHANGED <<direction, relayData, key, codec, srtp, relay, registered, read, seen, lateDial>>

\* It was not: the acceptance is applied again if the first did not take.
AcceptAgain ==
  /\ pc["events"] \in {"reaccept", "reacceptDial"}
  /\ Apply("RemoteAccepted")
  /\ LET then == IF pc["events"] = "reacceptDial" THEN "dial" ELSE "idle"
     IN  \/ state = "Ringing" /\ EmitThen("events", then)
         \/ state # "Ringing" /\ Goto("events", then)
  /\ UNCHANGED <<direction, relayData, media, relay, registered, read, seen, lateDial>>

\* (mutant) the refused offer ends the call without telling the listeners
HandleAckErrorSilently ==
  /\ pc["ack"] = "query"
  /\ Apply("Terminated")
  /\ Goto("ack", IF state = "Ended" THEN "idle" ELSE "notify")
  /\ UNCHANGED <<direction, relayData, media, relay, registered, read, seen, lateDial>>

\* The ack of the offer: an error ends the call...
HandleAckError ==
  /\ pc["ack"] = "query"
  /\ Apply("Terminated")
  /\ \/ state = "Ended" /\ Goto("ack", "idle")
     \/ state # "Ended" /\ EmitThen("ack", "notify")
  /\ UNCHANGED <<direction, relayData, media, relay, registered, read, seen, lateDial>>

\* ...endpoints are stored and dialled, whatever became of the call meanwhile...
HandleAckRelays ==
  /\ pc["ack"] = "query"
  /\ \E found \in {"unusable", "usable"}, participants \in BOOLEAN :
       /\ relayData' = found
       /\ srtp' = IF participants THEN InitSrtpKeys ELSE srtp
       /\ Goto("ack", IF found = "usable" THEN "dial" ELSE "idle")
  /\ UNCHANGED <<state, direction, key, codec, keepaliveStop, relay, registered,
                 read, seen, lateDial>>

\* ...and a failed query, or an ack without relays, is only logged.
HandleAckNothing ==
  /\ pc["ack"] = "query"
  /\ Goto("ack", "idle")
  /\ UNCHANGED <<state, direction, relayData, media, relay, registered, read, seen, lateDial>>

-----------------------------------------------------------------------------
(* The end of a call, and its relays. *)

\* (mutant) the ended handler leaves the call in the registry
NotifyEndedStaysRegistered(t) ==
  /\ pc[t] = "notify"
  /\ Goto(t, "cleanup")
  /\ UNCHANGED <<state, direction, relayData, media, relay, registered, read, seen, lateDial>>

\* The ended handler of session.go takes the call out of the registry.
NotifyEnded(t) ==
  /\ pc[t] = "notify"
  /\ registered' = FALSE
  /\ Goto(t, "cleanup")
  /\ UNCHANGED <<state, direction, relayData, media, relay, read, seen, lateDial>>

\* (mutant) the keepalive channel is not closed
CleanupMediaKeepsTicker(t) ==
  /\ pc[t] = "cleanup"
  /\ codec' = FALSE /\ srtp' = FALSE
  /\ Goto(t, "closeRelays")
  /\ UNCHANGED <<key, keepaliveStop, state, direction, relayData, relay, registered,
                 read, seen, lateDial>>

\* cleanupMedia, the part under the lock...
CleanupMedia(t) ==
  /\ pc[t] = "cleanup"
  /\ codec' = FALSE /\ srtp' = FALSE /\ keepaliveStop' = FALSE
  /\ Goto(t, "closeRelays")
  /\ UNCHANGED <<key, state, direction, relayData, relay, registered, read, seen, lateDial>>

\* (mutant) only the relays that are open are closed
CloseRelaysThatAreOpen(t) ==
  /\ pc[t] = "closeRelays"
  /\ open' = {}
  /\ Goto(t, "idle")
  /\ registered' = (registered /\ t \notin Operators)
  /\ UNCHANGED <<state, direction, relayData, media, dialing, read, seen, lateDial>>

\* ...and relay.Cleanup.  A relay that opens as it is torn down still calls
\* back.  The HTTP handlers that reject or end a call then remove it.
CloseRelays(t) ==
  /\ pc[t] = "closeRelays"
  /\ dialing' = {} /\ open' = {}
  /\ \E late \in SUBSET {r \in dialing : pc[r] = "idle"} :
       pc' = [x \in Threads |-> IF x = t THEN "idle"
                                ELSE IF x \in late THEN "opened" ELSE pc[x]]
  /\ registered' = (registered /\ t \notin Operators)
  /\ UNCHANGED <<state, direction, relayData, media, after, read, seen, lateDial>>

\* connectRelays: relays that have an entry already are left alone.
ConnectRelays(t) ==
  /\ pc[t] = "dial"
  /\ dialing' = IF t \in Operators /\ relayData # "usable"
                  THEN dialing ELSE Relays \ open
  /\ lateDial' = (lateDial \/ (state = "Ended" /\ dialing' # dialing))
  /\ Goto(t, "idle")
  /\ UNCHANGED <<state, direction, relayData, media, open, registered, read, seen>>

\* The data channel of a relay opens, and its callback is on its way.
RelayOpens(r) ==
  /\ r \in dialing /\ pc[r] = "idle"
  /\ dialing' = dialing \ {r} /\ open' = open \union {r}
  /\ Goto(r, "opened")
  /\ UNCHANGED <<state, direction, relayData, media, registered, read, seen, lateDial>>

\* ICE fails, the channel closes, or the connection times out.
RelayLost(r) ==
  /\ r \in dialing \union open
  /\ dialing' = dialing \ {r} /\ open' = open \ {r}
  /\ UNCHANGED <<state, direction, relayData, media, registered, pc, after, read, seen, lateDial>>

\* (mutant) a relay activates only the calls this side accepted
OnRelayConnectedIncoming(r) ==
  /\ pc[r] = "opened"
  /\ \/ state = "Connecting" /\ direction = "incoming" /\ ActivateThen(r, "idle")
     \/ /\ ~(state = "Connecting" /\ direction = "incoming")
        /\ Goto(r, "idle") /\ UNCHANGED <<state, keepaliveStop>>
  /\ UNCHANGED <<direction, relayData, key, codec, srtp, relay, registered, read, seen, lateDial>>

OnRelayConnected(r) ==
  /\ pc[r] = "opened"
  /\ \/ state = "Connecting" /\ ActivateThen(r, "idle")
     \/ /\ state # "Connecting"
        /\ Goto(r, "idle") /\ UNCHANGED <<state, keepaliveStop>>
  /\ UNCHANGED <<direction, relayData, key, codec, srtp, relay, registered, read, seen, lateDial>>

\* (mutant) a relay being dialled counts as a connection
KeepaliveCountsDialling ==
  /\ pc["keepalive"] = "watch" /\ open = {} /\ dialing = {}
  /\ Goto("keepalive", "expired")
  /\ UNCHANGED <<state, direction, relayData, media, relay, registered, read, seen, lateDial>>

\* Twelve seconds of ticks without a relay: the keepalive goes to end the call.
KeepaliveExpires ==
  /\ pc["keepalive"] = "watch" /\ open = {}
  /\ Goto("keepalive", "expired")
  /\ UNCHANGED <<state, direction, relayData, media, relay, registered, read, seen, lateDial>>

KeepaliveStops ==
  /\ pc["keepalive"] = "watch" /\ ~keepaliveStop
  /\ Goto("keepalive", "idle")
  /\ UNCHANGED <<state, direction, relayData, media, relay, registered, read, seen, lateDial>>

-----------------------------------------------------------------------------
\* What a goroutine does next without waiting for anyone outside.
Step(t) ==
  \/ EmitState(t) \/ ListenersReturn(t) \/ Refused(t) \/ NotifyEnded(t)
  \/ CleanupMedia(t) \/ CloseRelays(t) \/ ConnectRelays(t)

OperatorStep(o) ==
  \/ StartCall(o) \/ BuildOfferFails(o) \/ OfferSent(o) \/ SpawnOfferQuery(o)
  \/ AcceptCall(o) \/ RejectCall(o)

EventStep ==
  \/ HandleCallOffer \/ AnnounceIncoming
  \/ HandleCallTerminate \/ HandleCallTransport
  \/ ReadAcceptedCall \/ HandleCallAccept \/ ActivateAccepted \/ AcceptAgain

AckStep == HandleAckError \/ HandleAckRelays \/ HandleAckNothing

RelayStep(r) == RelayOpens(r) \/ RelayLost(r) \/ OnRelayConnected(r)

Next ==
  \/ \E t \in Threads : Step(t) \/ EndCall(t) \/ Route(t)
  \/ \E o \in Operators : OperatorStep(o)
  \/ EventStep \/ AckStep
  \/ \E r \in Relays : RelayStep(r)
  \/ KeepaliveExpires \/ KeepaliveStops

\* The Go scheduler runs every goroutine that can go on; nothing is assumed of
\* the operators, of the peer, or of the relays.
Fairness ==
  /\ \A t \in Threads : WF_vars(Step(t) \/ EndCall(t))
  /\ WF_vars(AnnounceIncoming \/ HandleCallAccept \/ ActivateAccepted \/ AcceptAgain)
  /\ \A o \in Operators : WF_vars(BuildOfferFails(o) \/ OfferSent(o) \/ SpawnOfferQuery(o))
  /\ \A r \in Relays : WF_vars(OnRelayConnected(r))
  /\ WF_vars(KeepaliveExpires) /\ WF_vars(KeepaliveStops)

Spec == Init /\ [][Next]_vars /\ Fairness
-----------------------------------------------------------------------------
(* Properties. *)

AtRest == \A t \in Threads : pc[t] \in {"idle", "routed", "query", "watch"}

\* Some thread will still execute CleanupMedia.
CleanupDue ==
  \E t \in Threads : \/ pc[t] \in {"notify", "cleanup"}
                     \/ pc[t] \in {"emit", "told"} /\ after[t] \in {"notify", "cleanup"}

\* The keepalive is armed only while an established call holds its codec (a call
\* that just ended still has its cleanup before it), and an established call
\* with a codec is always watched: no order of accepts, relay callbacks and
\* ends leaves a ticker behind, or a call nobody would end when its relays die.
WatchdogArmedExactly ==
  /\ keepaliveStop => codec /\ (state = "Active" \/ (state = "Ended" /\ CleanupDue))
  /\ state = "Active" /\ codec => keepaliveStop /\ pc["keepalive"] \in {"watch", "expired"}

\* A call that waits for its media path with a relay already open has an
\* activation under way: the window between the accept, which looks for an open
\* relay, and the relay callback, which looks for an accepted call, loses none.
NoLostActivation ==
  state = "Connecting" /\ open # {} =>
    \/ \E r \in Relays : pc[r] = "opened"
    \/ pc["events"] = "activate"
    \/ pc["events"] \in {"emit", "told"} /\ after["events"] = "activate"

\* Once every goroutine has come to rest the listeners (the broker's, the AI
\* agent's) of one of them have read the state the call is in, and acted on it.
\* Not that these were the last to act: listeners that had read an earlier state
\* may overtake them, and leave that state in the broker's record.
StateReachesListeners ==
  AtRest /\ state \notin {"none", "Initiating"} => seen = state

\* An established call whose two sides have exchanged a key can carry audio: no
\* order of ack, accept and relay callbacks activates it without its SRTP session.
AudioReady == state = "Active" /\ codec /\ key => srtp

\* Whoever ends a call, nothing of it survives but what was dialled after the
\* end: codec and keepalive are gone, and so is the call from the registry.
EndedIsClean ==
  AtRest /\ state = "Ended" =>
    /\ ~codec /\ ~keepaliveStop /\ ~registered
    /\ dialing \union open # {} => lateDial

\* The engine implements the lifecycle it promises: phases in their order, the
\* codec acquired once and released for good, after every end.
ImplementsLifecycle == Lifecycle!Spec

\* A call whose relays are gone does not stay up: a relay comes back, or the
\* keepalive ends the call (callmanager_media.go, the twelve second limit).
DeadCallEnds ==
  (state = "Active" /\ codec /\ open = {}) ~>
    (open # {} \/ state = "Ended" \/ ~codec)

\* An accepted call with an open relay becomes active, or loses the relay.
OpenRelayActivates ==
  (state = "Connecting" /\ open # {}) ~> (state # "Connecting" \/ open = {})
==============================================================================
