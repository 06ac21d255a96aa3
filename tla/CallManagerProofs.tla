-------------------------- MODULE CallManagerProofs --------------------------
(***************************************************************************)
(* Proofs about CallManager, for every set of operators and relays: the    *)
(* type invariant, its five safety invariants, and that each step of the   *)
(* engine is a step of CallLifecycle or a stutter.                         *)
(*                                                                         *)
(* None of the invariants is inductive alone.  What makes them so is the   *)
(* knowledge of which thread may still do what in each phase of the call;  *)
(* it is stated in the parts below and IInv is their conjunction with the  *)
(* invariants.  There is one lemma per part, with one step per group of    *)
(* actions, or per action where the group is too much for one leaf.        *)
(***************************************************************************)
EXTENDS CallManager, TLAPS

USE ThreadsAssumption DEF Threads, Workers, media, relay

\* What t does next, once the listeners it calls have returned.
Due(t) == IF pc[t] \in {"emit", "told"} THEN after[t] ELSE pc[t]

\* Before the call is answered, or its offer is out, it has no relays, and no
\* thread is about to dial any or to activate it.
Early ==
  /\ state = "none" => ~registered /\ \A t \in Threads : pc[t] = "idle"
  /\ state = "Initiating" =>
       /\ Due("events") = "idle"
       /\ \A t \in Threads :
            Due(t) \in {"idle", "routed", "offer", "cleanup", "closeRelays"}
  /\ state = "IncomingRinging" =>
       \A t \in Threads : Due(t) \in {"idle", "routed", "incoming"}
  /\ state \in {"none", "Initiating", "IncomingRinging"} => dialing = {} /\ open = {}

\* One operator at most is placing the call, and its ack is not awaited yet.
Offering ==
  \A o \in Operators : Due(o) \in {"offer", "query"} =>
    /\ pc["ack"] = "idle"
    /\ \A p \in Operators : Due(p) \in {"offer", "query"} => p = o

\* No keepalive before the call is established: arming one overtakes no other.
Unwatched ==
  state \in {"none", "Initiating", "IncomingRinging", "Ringing", "Connecting"} =>
    pc["keepalive"] = "idle"

\* Only an outgoing call has an offer, an ack, and an accept from the peer.
Direction ==
  /\ state \in {"Initiating", "Ringing"} => direction = "outgoing"
  /\ state = "IncomingRinging" => direction = "incoming"
  /\ direction # "outgoing" =>
       /\ Due("events") \notin {"accepting", "activate", "reaccept", "reacceptDial"}
       /\ \A t \in Threads : Due(t) \notin {"offer", "query"}
       /\ \A t \in Threads \ Operators : Due(t) # "dial"
       /\ pc["ack"] = "idle"

\* Past its first section HandleCallAccept no longer finds the call ringing.
Answered ==
  Due("events") \in {"reaccept", "reacceptDial", "activate"} => state # "Ringing"

\* A state the listeners have not acted on is on its way to them: they are yet to
\* read it, or have read it and go on.
Told ==
  state \notin {"none", "Initiating"} /\ seen # state =>
    \E t \in Threads : \/ pc[t] \in {"emit", "incoming"}
                       \/ pc[t] = "told" /\ read[t] = state

\* A call with a key and no session cannot be activated: it is outgoing and not
\* accepted, or incoming with no relay that could open.
Keyed ==
  codec /\ key /\ ~srtp =>
    \/ direction = "outgoing" /\ state \notin {"Connecting", "Active"}
    \/ /\ direction # "outgoing" /\ relayData # "usable"
       /\ dialing = {} /\ open = {}
       /\ state # "Active" /\ \A r \in Relays : Due(r) # "opened"

\* What an ended call still holds is about to be taken from it.
Released ==
  state = "Ended" =>
    /\ codec => CleanupDue
    /\ dialing \union open # {} =>
         lateDial \/ CleanupDue \/ \E t \in Threads : Due(t) = "closeRelays"
    /\ registered => \/ \E t \in Threads : Due(t) = "notify"
                     \/ \E o \in Operators : Due(o) \in {"cleanup", "closeRelays"}

IInv == /\ TypeOK /\ Early /\ Offering /\ Unwatched /\ Direction /\ Answered
        /\ Told /\ Keyed /\ Released /\ WatchdogArmedExactly /\ NoLostActivation

-----------------------------------------------------------------------------
\* What ApplyTransition does to a phase, for the transitions the engine uses.
LEMMA Applied ==
  \A p : /\ Lifecycle!ApplyTransition(p, "OfferSent") = IF p = "Initiating" THEN "Ringing" ELSE p
         /\ Lifecycle!ApplyTransition(p, "RemoteAccepted") = IF p = "Ringing" THEN "Connecting" ELSE p
         /\ Lifecycle!ApplyTransition(p, "LocalAccepted") = IF p = "IncomingRinging" THEN "Connecting" ELSE p
         /\ Lifecycle!ApplyTransition(p, "LocalRejected") = IF p = "IncomingRinging" THEN "Ended" ELSE p
         /\ p \in Lifecycle!Phases => Lifecycle!ApplyTransition(p, "Terminated") = "Ended"
         /\ Lifecycle!ApplyTransition("none", "Terminated") = "none"
BY DEF Lifecycle!ApplyTransition, Lifecycle!Valid, Lifecycle!Edge, Lifecycle!Phases

\* Which program counters an activation by thread t moves.
LEMMA Activation ==
  ASSUME ControlOK, NEW t \in Threads, t # "keepalive", NEW label \in Labels, ActivateThen(t, label)
  PROVE  /\ state' = "Active" /\ keepaliveStop' = (keepaliveStop \/ codec)
         /\ pc'[t] = "emit" /\ after'[t] = label
         /\ pc'["keepalive"] = IF codec /\ ~keepaliveStop THEN "watch" ELSE pc["keepalive"]
         /\ after'["keepalive"] = after["keepalive"]
         /\ \A x \in Threads \ {t, "keepalive"} : pc'[x] = pc[x] /\ after'[x] = after[x]
BY DEF ControlOK, ActivateThen, Labels

\* Which program counters the start of the offer's goroutine moves.
LEMMA Spawning ==
  ASSUME ControlOK, NEW o \in Operators, SpawnOfferQuery(o)
  PROVE  /\ pc[o] = "query" /\ pc'[o] = "idle" /\ pc'["ack"] = "query"
         /\ after' = after /\ \A x \in Threads \ {o, "ack"} : pc'[x] = pc[x]
BY DEF ControlOK, SpawnOfferQuery, Labels

\* Every step keeps ControlOK.
LEMMA ControlNext ==
  ControlOK /\ [Next]_vars => ControlOK'
<1> SUFFICES ASSUME ControlOK, [Next]_vars PROVE ControlOK'
  OBVIOUS
<1> USE DEF ControlOK, Labels
<1>1. ASSUME NEW t \in Threads, Step(t) PROVE ControlOK'
  BY <1>1 DEF Step, EmitState, ListenersReturn, Refused, NotifyEnded, CleanupMedia,
       CloseRelays, ConnectRelays, Goto
<1>2. ASSUME NEW t \in Threads, EndCall(t) PROVE ControlOK'
  BY <1>2 DEF EndCall, Apply, EmitThen
<1>3. ASSUME NEW t \in Threads, Route(t) PROVE ControlOK'
  BY <1>3 DEF Route, Goto
<1>4. ASSUME NEW o \in Operators, OperatorStep(o) PROVE ControlOK'
  BY <1>4 DEF OperatorStep, StartCall, BuildOfferFails, OfferSent,
       SpawnOfferQuery, AcceptCall, RejectCall, Goto, Apply, EmitThen
<1>5. ASSUME EventStep PROVE ControlOK'
  BY <1>5 DEF EventStep, HandleCallOffer, AnnounceIncoming,
       HandleCallTerminate, HandleCallTransport, ReadAcceptedCall,
       HandleCallAccept, ActivateAccepted, AcceptAgain, Goto, EmitThen, Apply,
       InitSrtpKeys, AfterAccept, ActivateThen
<1>6. ASSUME AckStep PROVE ControlOK'
  BY <1>6 DEF AckStep, HandleAckError, HandleAckRelays,
       HandleAckNothing, Apply, Goto, EmitThen, InitSrtpKeys
<1>7. ASSUME NEW r \in Relays, RelayStep(r) PROVE ControlOK'
  <2>1. CASE RelayOpens(r)
    BY <2>1 DEF RelayOpens, Goto
  <2>2. CASE RelayLost(r)
    BY <2>2 DEF RelayLost
  <2>3. CASE OnRelayConnected(r)
    <3>1. CASE ActivateThen(r, "idle")
      BY <3>1 DEF ActivateThen
    <3>2. CASE Goto(r, "idle")
      BY <3>2 DEF Goto
    <3> QED BY <2>3, <3>1, <3>2 DEF OnRelayConnected
  <2> QED BY <1>7, <2>1, <2>2, <2>3 DEF RelayStep
<1>8. ASSUME KeepaliveExpires PROVE ControlOK'
  BY <1>8 DEF KeepaliveExpires, Goto
<1>9. ASSUME KeepaliveStops PROVE ControlOK'
  BY <1>9 DEF KeepaliveStops, Goto
<1>10. CASE UNCHANGED vars
  BY <1>10 DEF vars
<1> QED BY <1>1, <1>2, <1>3, <1>4, <1>5, <1>6, <1>7, <1>8, <1>9, <1>10 DEF Next

\* Every step keeps CallOK.
LEMMA CallNext ==
  CallOK /\ [Next]_vars => CallOK'
<1> SUFFICES ASSUME CallOK, [Next]_vars PROVE CallOK'
  OBVIOUS
<1> USE DEF CallOK, Lifecycle!Phases
<1>1. ASSUME NEW t \in Threads, Step(t) PROVE CallOK'
  <2>1. CASE EmitState(t)
    BY <2>1 DEF EmitState
  <2>2. CASE Refused(t)
    BY <2>2 DEF Refused, Goto
  <2>3. CASE NotifyEnded(t)
    BY <2>3 DEF NotifyEnded, Goto
  <2>4. CASE CleanupMedia(t)
    BY <2>4 DEF CleanupMedia, Goto
  <2>5. CASE CloseRelays(t)
    BY <2>5 DEF CloseRelays
  <2>6. CASE ConnectRelays(t)
    BY <2>6 DEF ConnectRelays, Goto
  <2>7. CASE ListenersReturn(t)
    BY <2>7 DEF ListenersReturn
  <2> QED BY <1>1, <2>1, <2>2, <2>3, <2>4, <2>5, <2>6, <2>7 DEF Step
<1>2. ASSUME NEW t \in Threads, EndCall(t) PROVE CallOK'
  BY <1>2, Applied DEF EndCall, Apply, EmitThen
<1>3. ASSUME NEW t \in Threads, Route(t) PROVE CallOK'
  BY <1>3 DEF Route, Goto
<1>4. ASSUME NEW o \in Operators, OperatorStep(o) PROVE CallOK'
  <2>1. CASE StartCall(o)
    BY <2>1 DEF StartCall, Goto
  <2>2. CASE BuildOfferFails(o)
    BY <2>2 DEF BuildOfferFails, Goto
  <2>3. CASE OfferSent(o)
    BY <2>3, Applied DEF OfferSent, Apply, EmitThen
  <2>4. CASE SpawnOfferQuery(o)
    BY <2>4 DEF SpawnOfferQuery
  <2>5. CASE AcceptCall(o)
    BY <2>5, Applied DEF AcceptCall, Apply, EmitThen
  <2>6. CASE RejectCall(o)
    BY <2>6, Applied DEF RejectCall, Apply, EmitThen
  <2> QED BY <1>4, <2>1, <2>2, <2>3, <2>4, <2>5, <2>6 DEF OperatorStep
<1>5. ASSUME EventStep PROVE CallOK'
  <2>1. CASE HandleCallOffer
    BY <2>1 DEF HandleCallOffer, Goto
  <2>2. CASE AnnounceIncoming
    BY <2>2 DEF AnnounceIncoming, EmitThen
  <2>3. CASE HandleCallTerminate
    BY <2>3, Applied DEF HandleCallTerminate, Apply, EmitThen
  <2>4. CASE HandleCallTransport
    BY <2>4 DEF HandleCallTransport, Goto
  <2>5. CASE ReadAcceptedCall
    BY <2>5 DEF ReadAcceptedCall, Goto
  <2>6. CASE HandleCallAccept
    BY <2>6, Applied DEF HandleCallAccept, Apply, EmitThen, InitSrtpKeys,
         AfterAccept
  <2>7. CASE ActivateAccepted
    BY <2>7 DEF ActivateAccepted, Goto, ActivateThen
  <2>8. CASE AcceptAgain
    BY <2>8, Applied DEF AcceptAgain, Apply, Goto, EmitThen
  <2> QED BY <1>5, <2>1, <2>2, <2>3, <2>4, <2>5, <2>6, <2>7, <2>8 DEF EventStep
<1>6. ASSUME AckStep PROVE CallOK'
  <2>1. CASE HandleAckError
    <3>1. state' \in Lifecycle!Phases \union {"none"}
      BY <2>1, Applied DEF HandleAckError, Apply
    <3> QED BY <2>1, <3>1 DEF HandleAckError
  <2>2. CASE HandleAckRelays
    BY <2>2 DEF HandleAckRelays, Goto, InitSrtpKeys
  <2>3. CASE HandleAckNothing
    BY <2>3 DEF HandleAckNothing, Goto
  <2> QED BY <1>6, <2>1, <2>2, <2>3 DEF AckStep
<1>7. ASSUME NEW r \in Relays, RelayStep(r) PROVE CallOK'
  BY <1>7 DEF RelayStep, RelayOpens, RelayLost, OnRelayConnected, Goto,
       ActivateThen
<1>8. ASSUME KeepaliveExpires PROVE CallOK'
  BY <1>8 DEF KeepaliveExpires, Goto
<1>9. ASSUME KeepaliveStops PROVE CallOK'
  BY <1>9 DEF KeepaliveStops, Goto
<1>10. CASE UNCHANGED vars
  BY <1>10 DEF vars
<1> QED BY <1>1, <1>2, <1>3, <1>4, <1>5, <1>6, <1>7, <1>8, <1>9, <1>10 DEF Next

\* Every step keeps FlagsOK.
LEMMA FlagsNext ==
  FlagsOK /\ [Next]_vars => FlagsOK'
<1> SUFFICES ASSUME FlagsOK, [Next]_vars PROVE FlagsOK'
  OBVIOUS
<1> USE DEF FlagsOK
<1>1. ASSUME NEW t \in Threads, Step(t) PROVE FlagsOK'
  BY <1>1 DEF Step, EmitState, ListenersReturn, Refused, NotifyEnded, CleanupMedia,
       CloseRelays, ConnectRelays, Goto
<1>2. ASSUME NEW t \in Threads, EndCall(t) PROVE FlagsOK'
  BY <1>2, Applied DEF EndCall, Apply, EmitThen
<1>3. ASSUME NEW t \in Threads, Route(t) PROVE FlagsOK'
  BY <1>3 DEF Route, Goto
<1>4. ASSUME NEW o \in Operators, OperatorStep(o) PROVE FlagsOK'
  <2>1. CASE StartCall(o)
    BY <2>1 DEF StartCall, Goto
  <2>2. CASE BuildOfferFails(o)
    BY <2>2 DEF BuildOfferFails, Goto
  <2>3. CASE OfferSent(o)
    BY <2>3, Applied DEF OfferSent, Apply, EmitThen
  <2>4. CASE SpawnOfferQuery(o)
    BY <2>4 DEF SpawnOfferQuery
  <2>5. CASE AcceptCall(o)
    BY <2>5, Applied DEF AcceptCall, Apply, EmitThen
  <2>6. CASE RejectCall(o)
    BY <2>6, Applied DEF RejectCall, Apply, EmitThen
  <2> QED BY <1>4, <2>1, <2>2, <2>3, <2>4, <2>5, <2>6 DEF OperatorStep
<1>5. ASSUME EventStep PROVE FlagsOK'
  <2>1. CASE HandleCallOffer
    BY <2>1 DEF HandleCallOffer, Goto
  <2>2. CASE AnnounceIncoming
    BY <2>2 DEF AnnounceIncoming, EmitThen
  <2>3. CASE HandleCallTerminate
    BY <2>3, Applied DEF HandleCallTerminate, Apply, EmitThen
  <2>4. CASE HandleCallTransport
    BY <2>4 DEF HandleCallTransport, Goto
  <2>5. CASE ReadAcceptedCall
    BY <2>5 DEF ReadAcceptedCall, Goto
  <2>6. CASE HandleCallAccept
    BY <2>6, Applied DEF HandleCallAccept, Apply, EmitThen, InitSrtpKeys,
         AfterAccept
  <2>7. CASE ActivateAccepted
    BY <2>7 DEF ActivateAccepted, Goto, ActivateThen
  <2>8. CASE AcceptAgain
    BY <2>8, Applied DEF AcceptAgain, Apply, Goto, EmitThen
  <2> QED BY <1>5, <2>1, <2>2, <2>3, <2>4, <2>5, <2>6, <2>7, <2>8 DEF EventStep
<1>6. ASSUME AckStep PROVE FlagsOK'
  BY <1>6, Applied DEF AckStep, HandleAckError, HandleAckRelays,
       HandleAckNothing, Apply, Goto, EmitThen, InitSrtpKeys
<1>7. ASSUME NEW r \in Relays, RelayStep(r) PROVE FlagsOK'
  BY <1>7 DEF RelayStep, RelayOpens, RelayLost, OnRelayConnected, Goto,
       ActivateThen
<1>8. ASSUME KeepaliveExpires PROVE FlagsOK'
  BY <1>8 DEF KeepaliveExpires, Goto
<1>9. ASSUME KeepaliveStops PROVE FlagsOK'
  BY <1>9 DEF KeepaliveStops, Goto
<1>10. CASE UNCHANGED vars
  BY <1>10 DEF vars
<1> QED BY <1>1, <1>2, <1>3, <1>4, <1>5, <1>6, <1>7, <1>8, <1>9, <1>10 DEF Next

\* Every step keeps Early.
LEMMA EarlyNext ==
  ControlOK /\ CallOK /\ Early /\ Direction /\ [Next]_vars => Early'
<1> SUFFICES ASSUME ControlOK, CallOK, Early, Direction, [Next]_vars PROVE Early'
  OBVIOUS
<1> USE DEF ControlOK, Labels, Due, CallOK, Lifecycle!Phases, Early, Direction
<1>1. ASSUME NEW t \in Threads, Step(t) PROVE Early'
  BY <1>1 DEF Step, EmitState, ListenersReturn, Refused, NotifyEnded, CleanupMedia,
       CloseRelays, ConnectRelays, Goto
<1>2. ASSUME NEW t \in Threads, EndCall(t) PROVE Early'
  BY <1>2, Applied DEF EndCall, Apply, EmitThen
<1>3. ASSUME NEW t \in Threads, Route(t) PROVE Early'
  BY <1>3 DEF Route, Goto
<1>4. ASSUME NEW o \in Operators, OperatorStep(o) PROVE Early'
  <2>1. CASE StartCall(o)
    BY <2>1 DEF StartCall, Goto
  <2>2. CASE BuildOfferFails(o)
    BY <2>2 DEF BuildOfferFails, Goto
  <2>3. CASE OfferSent(o)
    BY <2>3, Applied DEF OfferSent, Apply, EmitThen
  <2>4. CASE SpawnOfferQuery(o)
    BY <2>4 DEF SpawnOfferQuery
  <2>5. CASE AcceptCall(o)
    BY <2>5, Applied DEF AcceptCall, Apply, EmitThen
  <2>6. CASE RejectCall(o)
    BY <2>6, Applied DEF RejectCall, Apply, EmitThen
  <2> QED BY <1>4, <2>1, <2>2, <2>3, <2>4, <2>5, <2>6 DEF OperatorStep
<1>5. ASSUME EventStep PROVE Early'
  BY <1>5, Applied DEF EventStep, HandleCallOffer, AnnounceIncoming,
       HandleCallTerminate, HandleCallTransport, ReadAcceptedCall,
       HandleCallAccept, ActivateAccepted, AcceptAgain, Goto, EmitThen, Apply,
       InitSrtpKeys, AfterAccept, ActivateThen
<1>6. ASSUME AckStep PROVE Early'
  BY <1>6, Applied DEF AckStep, HandleAckError, HandleAckRelays,
       HandleAckNothing, Apply, Goto, EmitThen, InitSrtpKeys
<1>7. ASSUME NEW r \in Relays, RelayStep(r) PROVE Early'
  BY <1>7 DEF RelayStep, RelayOpens, RelayLost, OnRelayConnected, Goto,
       ActivateThen
<1>8. ASSUME KeepaliveExpires PROVE Early'
  BY <1>8 DEF KeepaliveExpires, Goto
<1>9. ASSUME KeepaliveStops PROVE Early'
  BY <1>9 DEF KeepaliveStops, Goto
<1>10. CASE UNCHANGED vars
  BY <1>10 DEF vars
<1> QED BY <1>1, <1>2, <1>3, <1>4, <1>5, <1>6, <1>7, <1>8, <1>9, <1>10 DEF Next

\* Every step keeps Offering.
LEMMA OfferingNext ==
  ControlOK /\ CallOK /\ Early /\ Offering /\ [Next]_vars => Offering'
<1> SUFFICES ASSUME ControlOK, CallOK, Early, Offering, [Next]_vars PROVE Offering'
  OBVIOUS
<1> USE DEF ControlOK, Labels, Due, CallOK, Lifecycle!Phases, Early, Offering
<1>1. ASSUME NEW t \in Threads, Step(t) PROVE Offering'
  <2>1. CASE EmitState(t)
    BY <2>1 DEF EmitState
  <2>2. CASE Refused(t)
    BY <2>2 DEF Refused, Goto
  <2>3. CASE NotifyEnded(t)
    BY <2>3 DEF NotifyEnded, Goto
  <2>4. CASE CleanupMedia(t)
    BY <2>4 DEF CleanupMedia, Goto
  <2>5. CASE CloseRelays(t)
    BY <2>5 DEF CloseRelays
  <2>6. CASE ConnectRelays(t)
    BY <2>6 DEF ConnectRelays, Goto
  <2>7. CASE ListenersReturn(t)
    BY <2>7 DEF ListenersReturn
  <2> QED BY <1>1, <2>1, <2>2, <2>3, <2>4, <2>5, <2>6, <2>7 DEF Step
<1>2. ASSUME NEW t \in Threads, EndCall(t) PROVE Offering'
  BY <1>2, Applied DEF EndCall, Apply, EmitThen
<1>3. ASSUME NEW t \in Threads, Route(t) PROVE Offering'
  BY <1>3 DEF Route, Goto
<1>4. ASSUME NEW o \in Operators, OperatorStep(o) PROVE Offering'
  <2>1. CASE StartCall(o)
    <3>1. \A t \in Threads : pc[t] = "idle"
      BY <2>1 DEF StartCall
    <3>2. pc' = [pc EXCEPT ![o] = "offer"] /\ after' = after
      BY <2>1 DEF StartCall, Goto
    <3>3. pc'["ack"] = "idle" /\ \A p \in Operators \ {o} : pc'[p] = "idle"
      BY <3>1, <3>2
    <3> QED BY <3>3
  <2>2. CASE BuildOfferFails(o)
    BY <2>2 DEF BuildOfferFails, Goto
  <2>3. CASE OfferSent(o)
    BY <2>3, Applied DEF OfferSent, Apply, EmitThen
  <2>4. CASE SpawnOfferQuery(o)
    <3>1. SUFFICES ASSUME NEW p \in Operators, Due(p)' \in {"offer", "query"} PROVE FALSE
      OBVIOUS
    <3>2. p # o /\ Due(p) = Due(p)' /\ Due(o) = "query"
      BY <2>4, <3>1, Spawning
    <3> QED BY <3>1, <3>2
  <2>5. CASE AcceptCall(o)
    BY <2>5, Applied DEF AcceptCall, Apply, EmitThen
  <2>6. CASE RejectCall(o)
    BY <2>6, Applied DEF RejectCall, Apply, EmitThen
  <2> QED BY <1>4, <2>1, <2>2, <2>3, <2>4, <2>5, <2>6 DEF OperatorStep
<1>5. ASSUME EventStep PROVE Offering'
  BY <1>5, Applied DEF EventStep, HandleCallOffer, AnnounceIncoming,
       HandleCallTerminate, HandleCallTransport, ReadAcceptedCall,
       HandleCallAccept, ActivateAccepted, AcceptAgain, Goto, EmitThen, Apply,
       InitSrtpKeys, AfterAccept, ActivateThen
<1>6. ASSUME AckStep PROVE Offering'
  <2>1. CASE HandleAckError
    BY <2>1, Applied DEF HandleAckError, Apply, Goto, EmitThen
  <2>2. CASE HandleAckRelays
    BY <2>2 DEF HandleAckRelays, Goto, InitSrtpKeys
  <2>3. CASE HandleAckNothing
    BY <2>3 DEF HandleAckNothing, Goto
  <2> QED BY <1>6, <2>1, <2>2, <2>3 DEF AckStep
<1>7. ASSUME NEW r \in Relays, RelayStep(r) PROVE Offering'
  <2>1. CASE RelayOpens(r)
    BY <2>1 DEF RelayOpens, Goto
  <2>2. CASE RelayLost(r)
    BY <2>2 DEF RelayLost
  <2>3. CASE OnRelayConnected(r)
    <3>1. CASE ActivateThen(r, "idle")
      <4>1. r # "keepalive" /\ r # "ack" /\ r \notin Operators
        OBVIOUS
      <4>2. \A x \in Operators \union {"ack"} : pc'[x] = pc[x] /\ after'[x] = after[x]
        <5>1. \A x \in Threads \ {r, "keepalive"} : pc'[x] = pc[x] /\ after'[x] = after[x]
          BY <3>1, <4>1, Activation
        <5> QED BY <4>1, <5>1
      <4> QED BY <4>2
    <3>2. CASE Goto(r, "idle")
      BY <3>2 DEF Goto
    <3> QED BY <2>3, <3>1, <3>2 DEF OnRelayConnected
  <2> QED BY <1>7, <2>1, <2>2, <2>3 DEF RelayStep
<1>8. ASSUME KeepaliveExpires PROVE Offering'
  BY <1>8 DEF KeepaliveExpires, Goto
<1>9. ASSUME KeepaliveStops PROVE Offering'
  BY <1>9 DEF KeepaliveStops, Goto
<1>10. CASE UNCHANGED vars
  BY <1>10 DEF vars
<1> QED BY <1>1, <1>2, <1>3, <1>4, <1>5, <1>6, <1>7, <1>8, <1>9, <1>10 DEF Next

\* Every step keeps Unwatched.
LEMMA UnwatchedNext ==
  ControlOK /\ CallOK /\ Early /\ Unwatched /\ [Next]_vars => Unwatched'
<1> SUFFICES ASSUME ControlOK, CallOK, Early, Unwatched, [Next]_vars PROVE Unwatched'
  OBVIOUS
<1> USE DEF ControlOK, Labels, Due, CallOK, Lifecycle!Phases, Early, Unwatched
<1>1. ASSUME NEW t \in Threads, Step(t) PROVE Unwatched'
  <2>1. CASE EmitState(t)
    BY <2>1 DEF EmitState
  <2>2. CASE Refused(t)
    BY <2>2 DEF Refused, Goto
  <2>3. CASE NotifyEnded(t)
    BY <2>3 DEF NotifyEnded, Goto
  <2>4. CASE CleanupMedia(t)
    BY <2>4 DEF CleanupMedia, Goto
  <2>5. CASE CloseRelays(t)
    BY <2>5 DEF CloseRelays
  <2>6. CASE ConnectRelays(t)
    BY <2>6 DEF ConnectRelays, Goto
  <2>7. CASE ListenersReturn(t)
    BY <2>7 DEF ListenersReturn
  <2> QED BY <1>1, <2>1, <2>2, <2>3, <2>4, <2>5, <2>6, <2>7 DEF Step
<1>2. ASSUME NEW t \in Threads, EndCall(t) PROVE Unwatched'
  BY <1>2, Applied DEF EndCall, Apply, EmitThen
<1>3. ASSUME NEW t \in Threads, Route(t) PROVE Unwatched'
  BY <1>3 DEF Route, Goto
<1>4. ASSUME NEW o \in Operators, OperatorStep(o) PROVE Unwatched'
  BY <1>4, Applied DEF OperatorStep, StartCall, BuildOfferFails, OfferSent,
       SpawnOfferQuery, AcceptCall, RejectCall, Goto, Apply, EmitThen
<1>5. ASSUME EventStep PROVE Unwatched'
  BY <1>5, Applied DEF EventStep, HandleCallOffer, AnnounceIncoming,
       HandleCallTerminate, HandleCallTransport, ReadAcceptedCall,
       HandleCallAccept, ActivateAccepted, AcceptAgain, Goto, EmitThen, Apply,
       InitSrtpKeys, AfterAccept, ActivateThen
<1>6. ASSUME AckStep PROVE Unwatched'
  BY <1>6, Applied DEF AckStep, HandleAckError, HandleAckRelays,
       HandleAckNothing, Apply, Goto, EmitThen, InitSrtpKeys
<1>7. ASSUME NEW r \in Relays, RelayStep(r) PROVE Unwatched'
  BY <1>7 DEF RelayStep, RelayOpens, RelayLost, OnRelayConnected, Goto,
       ActivateThen
<1>8. ASSUME KeepaliveExpires PROVE Unwatched'
  BY <1>8 DEF KeepaliveExpires, Goto
<1>9. ASSUME KeepaliveStops PROVE Unwatched'
  BY <1>9 DEF KeepaliveStops, Goto
<1>10. CASE UNCHANGED vars
  BY <1>10 DEF vars
<1> QED BY <1>1, <1>2, <1>3, <1>4, <1>5, <1>6, <1>7, <1>8, <1>9, <1>10 DEF Next

\* Every step keeps Direction.
LEMMA DirectionNext ==
  ControlOK /\ CallOK /\ Early /\ Direction /\ [Next]_vars => Direction'
<1> SUFFICES ASSUME ControlOK, CallOK, Early, Direction, [Next]_vars PROVE Direction'
  OBVIOUS
<1> USE DEF ControlOK, Labels, Due, CallOK, Lifecycle!Phases, Early, Direction
<1>1. ASSUME NEW t \in Threads, Step(t) PROVE Direction'
  <2>1. CASE EmitState(t)
    BY <2>1 DEF EmitState
  <2>2. CASE Refused(t)
    BY <2>2 DEF Refused, Goto
  <2>3. CASE NotifyEnded(t)
    BY <2>3 DEF NotifyEnded, Goto
  <2>4. CASE CleanupMedia(t)
    BY <2>4 DEF CleanupMedia, Goto
  <2>5. CASE CloseRelays(t)
    BY <2>5 DEF CloseRelays
  <2>6. CASE ConnectRelays(t)
    BY <2>6 DEF ConnectRelays, Goto
  <2>7. CASE ListenersReturn(t)
    BY <2>7 DEF ListenersReturn
  <2> QED BY <1>1, <2>1, <2>2, <2>3, <2>4, <2>5, <2>6, <2>7 DEF Step
<1>2. ASSUME NEW t \in Threads, EndCall(t) PROVE Direction'
  BY <1>2, Applied DEF EndCall, Apply, EmitThen
<1>3. ASSUME NEW t \in Threads, Route(t) PROVE Direction'
  BY <1>3 DEF Route, Goto
<1>4. ASSUME NEW o \in Operators, OperatorStep(o) PROVE Direction'
  <2>1. CASE StartCall(o)
    BY <2>1 DEF StartCall, Goto
  <2>2. CASE BuildOfferFails(o)
    BY <2>2 DEF BuildOfferFails, Goto
  <2>3. CASE OfferSent(o)
    BY <2>3, Applied DEF OfferSent, Apply, EmitThen
  <2>4. CASE SpawnOfferQuery(o)
    BY <2>4 DEF SpawnOfferQuery
  <2>5. CASE AcceptCall(o)
    BY <2>5, Applied DEF AcceptCall, Apply, EmitThen
  <2>6. CASE RejectCall(o)
    BY <2>6, Applied DEF RejectCall, Apply, EmitThen
  <2> QED BY <1>4, <2>1, <2>2, <2>3, <2>4, <2>5, <2>6 DEF OperatorStep
<1>5. ASSUME EventStep PROVE Direction'
  BY <1>5, Applied DEF EventStep, HandleCallOffer, AnnounceIncoming,
       HandleCallTerminate, HandleCallTransport, ReadAcceptedCall,
       HandleCallAccept, ActivateAccepted, AcceptAgain, Goto, EmitThen, Apply,
       InitSrtpKeys, AfterAccept, ActivateThen
<1>6. ASSUME AckStep PROVE Direction'
  BY <1>6, Applied DEF AckStep, HandleAckError, HandleAckRelays,
       HandleAckNothing, Apply, Goto, EmitThen, InitSrtpKeys
<1>7. ASSUME NEW r \in Relays, RelayStep(r) PROVE Direction'
  BY <1>7 DEF RelayStep, RelayOpens, RelayLost, OnRelayConnected, Goto,
       ActivateThen
<1>8. ASSUME KeepaliveExpires PROVE Direction'
  BY <1>8 DEF KeepaliveExpires, Goto
<1>9. ASSUME KeepaliveStops PROVE Direction'
  BY <1>9 DEF KeepaliveStops, Goto
<1>10. CASE UNCHANGED vars
  BY <1>10 DEF vars
<1> QED BY <1>1, <1>2, <1>3, <1>4, <1>5, <1>6, <1>7, <1>8, <1>9, <1>10 DEF Next

\* Every step keeps Answered.
LEMMA AnsweredNext ==
  ControlOK /\ CallOK /\ Early /\ Direction /\ Answered /\ [Next]_vars => Answered'
<1> SUFFICES ASSUME ControlOK, CallOK, Early, Direction, Answered, [Next]_vars PROVE
     Answered'
  OBVIOUS
<1> USE DEF ControlOK, Labels, Due, CallOK, Lifecycle!Phases, Early,
     Direction, Answered
<1>1. ASSUME NEW t \in Threads, Step(t) PROVE Answered'
  BY <1>1 DEF Step, EmitState, ListenersReturn, Refused, NotifyEnded, CleanupMedia,
       CloseRelays, ConnectRelays, Goto
<1>2. ASSUME NEW t \in Threads, EndCall(t) PROVE Answered'
  BY <1>2, Applied DEF EndCall, Apply, EmitThen
<1>3. ASSUME NEW t \in Threads, Route(t) PROVE Answered'
  BY <1>3 DEF Route, Goto
<1>4. ASSUME NEW o \in Operators, OperatorStep(o) PROVE Answered'
  BY <1>4, Applied DEF OperatorStep, StartCall, BuildOfferFails, OfferSent,
       SpawnOfferQuery, AcceptCall, RejectCall, Goto, Apply, EmitThen
<1>5. ASSUME EventStep PROVE Answered'
  BY <1>5, Applied DEF EventStep, HandleCallOffer, AnnounceIncoming,
       HandleCallTerminate, HandleCallTransport, ReadAcceptedCall,
       HandleCallAccept, ActivateAccepted, AcceptAgain, Goto, EmitThen, Apply,
       InitSrtpKeys, AfterAccept, ActivateThen
<1>6. ASSUME AckStep PROVE Answered'
  BY <1>6, Applied DEF AckStep, HandleAckError, HandleAckRelays,
       HandleAckNothing, Apply, Goto, EmitThen, InitSrtpKeys
<1>7. ASSUME NEW r \in Relays, RelayStep(r) PROVE Answered'
  BY <1>7 DEF RelayStep, RelayOpens, RelayLost, OnRelayConnected, Goto,
       ActivateThen
<1>8. ASSUME KeepaliveExpires PROVE Answered'
  BY <1>8 DEF KeepaliveExpires, Goto
<1>9. ASSUME KeepaliveStops PROVE Answered'
  BY <1>9 DEF KeepaliveStops, Goto
<1>10. CASE UNCHANGED vars
  BY <1>10 DEF vars
<1> QED BY <1>1, <1>2, <1>3, <1>4, <1>5, <1>6, <1>7, <1>8, <1>9, <1>10 DEF Next

\* Every step keeps Told.
LEMMA ToldNext ==
  ControlOK /\ CallOK /\ Early /\ Told /\ Offering /\ Unwatched /\ [Next]_vars => Told'
<1> SUFFICES ASSUME ControlOK, CallOK, Early, Told, Offering, Unwatched, [Next]_vars
     PROVE Told'
  OBVIOUS
<1> USE DEF ControlOK, Labels, Due, CallOK, Lifecycle!Phases, Early, Told,
     Offering, Unwatched
<1>1. ASSUME NEW t \in Threads, Step(t) PROVE Told'
  BY <1>1 DEF Step, EmitState, ListenersReturn, Refused, NotifyEnded, CleanupMedia,
       CloseRelays, ConnectRelays, Goto
<1>2. ASSUME NEW t \in Threads, EndCall(t) PROVE Told'
  BY <1>2, Applied DEF EndCall, Apply, EmitThen
<1>3. ASSUME NEW t \in Threads, Route(t) PROVE Told'
  BY <1>3 DEF Route, Goto
<1>4. ASSUME NEW o \in Operators, OperatorStep(o) PROVE Told'
  <2>1. CASE StartCall(o)
    BY <2>1 DEF StartCall, Goto
  <2>2. CASE BuildOfferFails(o)
    BY <2>2 DEF BuildOfferFails, Goto
  <2>3. CASE OfferSent(o)
    BY <2>3, Applied DEF OfferSent, Apply, EmitThen
  <2>4. CASE SpawnOfferQuery(o)
    BY <2>4 DEF SpawnOfferQuery
  <2>5. CASE AcceptCall(o)
    BY <2>5, Applied DEF AcceptCall, Apply, EmitThen
  <2>6. CASE RejectCall(o)
    BY <2>6, Applied DEF RejectCall, Apply, EmitThen
  <2> QED BY <1>4, <2>1, <2>2, <2>3, <2>4, <2>5, <2>6 DEF OperatorStep
<1>5. ASSUME EventStep PROVE Told'
  BY <1>5, Applied DEF EventStep, HandleCallOffer, AnnounceIncoming,
       HandleCallTerminate, HandleCallTransport, ReadAcceptedCall,
       HandleCallAccept, ActivateAccepted, AcceptAgain, Goto, EmitThen, Apply,
       InitSrtpKeys, AfterAccept, ActivateThen
<1>6. ASSUME AckStep PROVE Told'
  BY <1>6, Applied DEF AckStep, HandleAckError, HandleAckRelays,
       HandleAckNothing, Apply, Goto, EmitThen, InitSrtpKeys
<1>7. ASSUME NEW r \in Relays, RelayStep(r) PROVE Told'
  <2>1. CASE RelayOpens(r)
    BY <2>1 DEF RelayOpens, Goto
  <2>2. CASE RelayLost(r)
    BY <2>2 DEF RelayLost
  <2>3. CASE OnRelayConnected(r)
    <3>1. CASE state = "Connecting"
      <4>1. pc'[r] = "emit"
        BY <2>3, <3>1 DEF OnRelayConnected, ActivateThen
      <4> QED BY <4>1
    <3>2. CASE state # "Connecting"
      BY <2>3, <3>2 DEF OnRelayConnected, Goto
    <3> QED BY <3>1, <3>2
  <2> QED BY <1>7, <2>1, <2>2, <2>3 DEF RelayStep
<1>8. ASSUME KeepaliveExpires PROVE Told'
  BY <1>8 DEF KeepaliveExpires, Goto
<1>9. ASSUME KeepaliveStops PROVE Told'
  BY <1>9 DEF KeepaliveStops, Goto
<1>10. CASE UNCHANGED vars
  BY <1>10 DEF vars
<1> QED BY <1>1, <1>2, <1>3, <1>4, <1>5, <1>6, <1>7, <1>8, <1>9, <1>10 DEF Next

\* Every step keeps Keyed.
LEMMA KeyedNext ==
  ControlOK /\ CallOK /\ Early /\ Keyed /\ Direction /\ Answered /\ [Next]_vars => Keyed'
<1> SUFFICES ASSUME ControlOK, CallOK, Early, Keyed, Direction, Answered, [Next]_vars
     PROVE Keyed'
  OBVIOUS
<1> USE DEF ControlOK, Labels, Due, CallOK, Lifecycle!Phases, Early, Keyed,
     Direction, Answered
<1>1. ASSUME NEW t \in Threads, Step(t) PROVE Keyed'
  <2>1. CASE EmitState(t)
    BY <2>1 DEF EmitState
  <2>2. CASE Refused(t)
    BY <2>2 DEF Refused, Goto
  <2>3. CASE NotifyEnded(t)
    BY <2>3 DEF NotifyEnded, Goto
  <2>4. CASE CleanupMedia(t)
    BY <2>4 DEF CleanupMedia, Goto
  <2>5. CASE CloseRelays(t)
    BY <2>5 DEF CloseRelays
  <2>6. CASE ConnectRelays(t)
    BY <2>6 DEF ConnectRelays, Goto
  <2>7. CASE ListenersReturn(t)
    BY <2>7 DEF ListenersReturn
  <2> QED BY <1>1, <2>1, <2>2, <2>3, <2>4, <2>5, <2>6, <2>7 DEF Step
<1>2. ASSUME NEW t \in Threads, EndCall(t) PROVE Keyed'
  BY <1>2, Applied DEF EndCall, Apply, EmitThen
<1>3. ASSUME NEW t \in Threads, Route(t) PROVE Keyed'
  BY <1>3 DEF Route, Goto
<1>4. ASSUME NEW o \in Operators, OperatorStep(o) PROVE Keyed'
  <2>1. CASE StartCall(o)
    BY <2>1 DEF StartCall, Goto
  <2>2. CASE BuildOfferFails(o)
    BY <2>2 DEF BuildOfferFails, Goto
  <2>3. CASE OfferSent(o)
    BY <2>3, Applied DEF OfferSent, Apply, EmitThen
  <2>4. CASE SpawnOfferQuery(o)
    BY <2>4 DEF SpawnOfferQuery
  <2>5. CASE AcceptCall(o)
    BY <2>5, Applied DEF AcceptCall, Apply, EmitThen
  <2>6. CASE RejectCall(o)
    BY <2>6, Applied DEF RejectCall, Apply, EmitThen
  <2> QED BY <1>4, <2>1, <2>2, <2>3, <2>4, <2>5, <2>6 DEF OperatorStep
<1>5. ASSUME EventStep PROVE Keyed'
  <2>1. CASE HandleCallOffer
    BY <2>1 DEF HandleCallOffer, Goto
  <2>2. CASE AnnounceIncoming
    BY <2>2 DEF AnnounceIncoming, EmitThen
  <2>3. CASE HandleCallTerminate
    BY <2>3, Applied DEF HandleCallTerminate, Apply, EmitThen
  <2>4. CASE HandleCallTransport
    BY <2>4 DEF HandleCallTransport, Goto
  <2>5. CASE ReadAcceptedCall
    BY <2>5 DEF ReadAcceptedCall, Goto
  <2>6. CASE HandleCallAccept
    BY <2>6, Applied DEF HandleCallAccept, Apply, EmitThen, InitSrtpKeys,
         AfterAccept
  <2>7. CASE ActivateAccepted
    <3>1. Due("events") = "activate" /\ UNCHANGED <<codec, key, srtp>>
      BY <2>7 DEF ActivateAccepted
    <3>2. state # "Ringing" /\ direction = "outgoing"
      BY <3>1
    <3>3. CASE ActivateThen("events", "idle")
      BY <2>7, <3>1, <3>2, <3>3 DEF ActivateAccepted
    <3>4. CASE state \notin {"Ringing", "Connecting"}
      BY <2>7, <3>1, <3>2, <3>4 DEF ActivateAccepted, Goto, ActivateThen
    <3> QED BY <2>7, <3>3, <3>4 DEF ActivateAccepted
  <2>8. CASE AcceptAgain
    <3>1. Due("events") \in {"reaccept", "reacceptDial"}
      BY <2>8 DEF AcceptAgain
    <3>2. state' = state /\ direction = "outgoing"
      BY <2>8, <3>1, Applied DEF AcceptAgain, Apply
    <3> QED BY <2>8, <3>2 DEF AcceptAgain
  <2> QED BY <1>5, <2>1, <2>2, <2>3, <2>4, <2>5, <2>6, <2>7, <2>8 DEF EventStep
<1>6. ASSUME AckStep PROVE Keyed'
  BY <1>6, Applied DEF AckStep, HandleAckError, HandleAckRelays,
       HandleAckNothing, Apply, Goto, EmitThen, InitSrtpKeys
<1>7. ASSUME NEW r \in Relays, RelayStep(r) PROVE Keyed'
  BY <1>7 DEF RelayStep, RelayOpens, RelayLost, OnRelayConnected, Goto,
       ActivateThen
<1>8. ASSUME KeepaliveExpires PROVE Keyed'
  BY <1>8 DEF KeepaliveExpires, Goto
<1>9. ASSUME KeepaliveStops PROVE Keyed'
  BY <1>9 DEF KeepaliveStops, Goto
<1>10. CASE UNCHANGED vars
  BY <1>10 DEF vars
<1> QED BY <1>1, <1>2, <1>3, <1>4, <1>5, <1>6, <1>7, <1>8, <1>9, <1>10 DEF Next

\* Every step keeps Released.
LEMMA ReleasedNext ==
  ControlOK /\ CallOK /\ Early /\ Offering /\ Released /\ [Next]_vars => Released'
<1> SUFFICES ASSUME ControlOK, CallOK, Early, Offering, Released, [Next]_vars PROVE
     Released'
  OBVIOUS
<1> USE DEF ControlOK, Labels, Due, CallOK, Lifecycle!Phases, Early, Offering,
     Released, CleanupDue
<1>1. ASSUME NEW t \in Threads, Step(t) PROVE Released'
  <2>1. CASE EmitState(t)
    BY <2>1 DEF EmitState
  <2>2. CASE Refused(t)
    BY <2>2 DEF Refused, Goto
  <2>3. CASE NotifyEnded(t)
    BY <2>3 DEF NotifyEnded, Goto
  <2>4. CASE CleanupMedia(t)
    BY <2>4 DEF CleanupMedia, Goto
  <2>5. CASE CloseRelays(t)
    <3>1. \A x \in Threads \ {t} : Due(x) \in {"notify", "cleanup", "closeRelays"} =>
            pc'[x] = pc[x] /\ after'[x] = after[x]
      BY <2>5 DEF CloseRelays
    <3>2. /\ UNCHANGED <<state, codec, lateDial>> /\ dialing' = {} /\ open' = {}
          /\ registered' => registered /\ t \notin Operators
          /\ pc[t] = "closeRelays"
      BY <2>5 DEF CloseRelays
    <3>3. ASSUME NEW x \in Threads, Due(x) \in {"notify", "cleanup"} PROVE CleanupDue'
      BY <3>1, <3>2, <3>3
    <3>4. CleanupDue => CleanupDue'
      BY <3>3
    <3>5. ASSUME NEW x \in Threads \ {t},
                 Due(x) \in {"notify", "cleanup", "closeRelays"}
          PROVE  (Due(x))' = Due(x)
      BY <3>1, <3>5
    <3>6. ASSUME registered', state = "Ended"
          PROVE  \/ \E x \in Threads : (Due(x))' = "notify"
                 \/ \E o \in Operators : (Due(o))' \in {"cleanup", "closeRelays"}
      <4>1. \/ \E x \in Threads : Due(x) = "notify"
            \/ \E o \in Operators : Due(o) \in {"cleanup", "closeRelays"}
        BY <3>2, <3>6
      <4>2. CASE \E x \in Threads : Due(x) = "notify"
        BY <3>2, <3>5, <4>2
      <4>3. ASSUME NEW o \in Operators, Due(o) \in {"cleanup", "closeRelays"}
            PROVE  (Due(o))' = Due(o)
        <5>1. o \in Threads \ {t}
          BY <3>2, <3>6 DEF Threads
        <5> QED BY <3>5, <4>3, <5>1
      <4> QED BY <4>1, <4>2, <4>3
    <3> QED BY <3>2, <3>4, <3>6
  <2>6. CASE ConnectRelays(t)
    BY <2>6 DEF ConnectRelays, Goto
  <2>7. CASE ListenersReturn(t)
    BY <2>7 DEF ListenersReturn
  <2> QED BY <1>1, <2>1, <2>2, <2>3, <2>4, <2>5, <2>6, <2>7 DEF Step
<1>2. ASSUME NEW t \in Threads, EndCall(t) PROVE Released'
  BY <1>2, Applied DEF EndCall, Apply, EmitThen
<1>3. ASSUME NEW t \in Threads, Route(t) PROVE Released'
  BY <1>3 DEF Route, Goto
<1>4. ASSUME NEW o \in Operators, OperatorStep(o) PROVE Released'
  <2>1. CASE StartCall(o)
    BY <2>1 DEF StartCall, Goto
  <2>2. CASE BuildOfferFails(o)
    BY <2>2 DEF BuildOfferFails, Goto
  <2>3. CASE OfferSent(o)
    BY <2>3, Applied DEF OfferSent, Apply, EmitThen
  <2>4. CASE SpawnOfferQuery(o)
    <3>1. \A x \in Threads : Due(x) \in {"notify", "cleanup", "closeRelays"} =>
            pc'[x] = pc[x] /\ after'[x] = after[x]
      BY <2>4, Spawning
    <3>2. UNCHANGED <<state, codec, dialing, open, registered, lateDial>>
      BY <2>4 DEF SpawnOfferQuery
    <3>3. CleanupDue => CleanupDue'
      BY <3>1
    <3>4. \A x \in Threads : Due(x) \in {"notify", "cleanup", "closeRelays"} => Due(x)' = Due(x)
      BY <3>1
    <3> HIDE DEF Due, CleanupDue, ControlOK, Labels, Early, Offering
    <3> QED
      BY <3>2, <3>3, <3>4
  <2>5. CASE AcceptCall(o)
    BY <2>5, Applied DEF AcceptCall, Apply, EmitThen
  <2>6. CASE RejectCall(o)
    BY <2>6, Applied DEF RejectCall, Apply, EmitThen
  <2> QED BY <1>4, <2>1, <2>2, <2>3, <2>4, <2>5, <2>6 DEF OperatorStep
<1>5. ASSUME EventStep PROVE Released'
  BY <1>5, Applied DEF EventStep, HandleCallOffer, AnnounceIncoming,
       HandleCallTerminate, HandleCallTransport, ReadAcceptedCall,
       HandleCallAccept, ActivateAccepted, AcceptAgain, Goto, EmitThen, Apply,
       InitSrtpKeys, AfterAccept, ActivateThen
<1>6. ASSUME AckStep PROVE Released'
  <2>1. CASE HandleAckError
    <3>1. CASE state # "Ended"
      <4>1. pc'["ack"] = "emit" /\ after'["ack"] = "notify"
        BY <2>1, <3>1 DEF HandleAckError, EmitThen
      <4> QED BY <4>1
    <3>2. CASE state = "Ended"
      <4>1. pc["ack"] = "query" /\ pc' = [pc EXCEPT !["ack"] = "idle"] /\ after' = after
        BY <2>1, <3>2 DEF HandleAckError, Goto
      <4>2. UNCHANGED <<codec, dialing, open, registered, lateDial>>
        BY <2>1 DEF HandleAckError
      <4>3. \A x \in Threads : Due(x) \in {"notify", "cleanup", "closeRelays"} => Due(x)' = Due(x)
        BY <4>1
      <4>4. CleanupDue => CleanupDue'
        BY <4>1
      <4> HIDE DEF Due, CleanupDue, ControlOK, Labels, Early, Offering
      <4> QED BY <3>2, <4>2, <4>3, <4>4
    <3> QED BY <3>1, <3>2
  <2>2. CASE HandleAckRelays
    BY <2>2 DEF HandleAckRelays, Goto, InitSrtpKeys
  <2>3. CASE HandleAckNothing
    BY <2>3 DEF HandleAckNothing, Goto
  <2> QED BY <1>6, <2>1, <2>2, <2>3 DEF AckStep
<1>7. ASSUME NEW r \in Relays, RelayStep(r) PROVE Released'
  <2>1. CASE RelayOpens(r)
    BY <2>1 DEF RelayOpens, Goto
  <2>2. CASE RelayLost(r)
    BY <2>2 DEF RelayLost
  <2>3. CASE OnRelayConnected(r)
    <3>1. CASE state = "Connecting"
      BY <2>3, <3>1 DEF OnRelayConnected, ActivateThen
    <3>2. CASE state # "Connecting"
      <4>1. \A x \in Threads : Due(x) \in {"notify", "cleanup", "closeRelays"} =>
              pc'[x] = pc[x] /\ after'[x] = after[x]
        BY <2>3, <3>2 DEF OnRelayConnected, Goto
      <4>2. UNCHANGED <<state, codec, dialing, open, registered, lateDial>>
        BY <2>3, <3>2 DEF OnRelayConnected
      <4>3. CleanupDue => CleanupDue'
        BY <4>1
      <4>4. \A x \in Threads : Due(x) \in {"notify", "cleanup", "closeRelays"} => Due(x)' = Due(x)
        BY <4>1
      <4> HIDE DEF Due, CleanupDue, ControlOK, Labels, Early, Offering
      <4> QED
        BY <4>2, <4>3, <4>4
    <3> QED BY <3>1, <3>2
  <2> QED BY <1>7, <2>1, <2>2, <2>3 DEF RelayStep
<1>8. ASSUME KeepaliveExpires PROVE Released'
  BY <1>8 DEF KeepaliveExpires, Goto
<1>9. ASSUME KeepaliveStops PROVE Released'
  BY <1>9 DEF KeepaliveStops, Goto
<1>10. CASE UNCHANGED vars
  BY <1>10 DEF vars
<1> QED BY <1>1, <1>2, <1>3, <1>4, <1>5, <1>6, <1>7, <1>8, <1>9, <1>10 DEF Next

\* Every step keeps WatchdogArmedExactly.
LEMMA WatchdogNext ==
  ControlOK /\ CallOK /\ Early /\ Offering /\ Unwatched /\ WatchdogArmedExactly /\ [Next]_vars => WatchdogArmedExactly'
<1> SUFFICES ASSUME ControlOK, CallOK, Early, Offering, Unwatched, WatchdogArmedExactly,
     [Next]_vars PROVE WatchdogArmedExactly'
  OBVIOUS
<1> USE DEF ControlOK, Labels, Due, CallOK, Lifecycle!Phases, Early, Offering,
     Unwatched, CleanupDue, WatchdogArmedExactly
<1>1. ASSUME NEW t \in Threads, Step(t) PROVE WatchdogArmedExactly'
  BY <1>1 DEF Step, EmitState, ListenersReturn, Refused, NotifyEnded, CleanupMedia,
       CloseRelays, ConnectRelays, Goto
<1>2. ASSUME NEW t \in Threads, EndCall(t) PROVE WatchdogArmedExactly'
  BY <1>2, Applied DEF EndCall, Apply, EmitThen
<1>3. ASSUME NEW t \in Threads, Route(t) PROVE WatchdogArmedExactly'
  BY <1>3 DEF Route, Goto
<1>4. ASSUME NEW o \in Operators, OperatorStep(o) PROVE WatchdogArmedExactly'
  <2>1. CASE StartCall(o)
    BY <2>1 DEF StartCall, Goto
  <2>2. CASE BuildOfferFails(o)
    BY <2>2 DEF BuildOfferFails, Goto
  <2>3. CASE OfferSent(o)
    BY <2>3, Applied DEF OfferSent, Apply, EmitThen
  <2>4. CASE SpawnOfferQuery(o)
    BY <2>4 DEF SpawnOfferQuery
  <2>5. CASE AcceptCall(o)
    BY <2>5, Applied DEF AcceptCall, Apply, EmitThen
  <2>6. CASE RejectCall(o)
    BY <2>6, Applied DEF RejectCall, Apply, EmitThen
  <2> QED BY <1>4, <2>1, <2>2, <2>3, <2>4, <2>5, <2>6 DEF OperatorStep
<1>5. ASSUME EventStep PROVE WatchdogArmedExactly'
  <2>1. CASE HandleCallOffer
    BY <2>1 DEF HandleCallOffer, Goto
  <2>2. CASE AnnounceIncoming
    BY <2>2 DEF AnnounceIncoming, EmitThen
  <2>3. CASE HandleCallTerminate
    BY <2>3, Applied DEF HandleCallTerminate, Apply, EmitThen
  <2>4. CASE HandleCallTransport
    BY <2>4 DEF HandleCallTransport, Goto
  <2>5. CASE ReadAcceptedCall
    BY <2>5 DEF ReadAcceptedCall, Goto
  <2>6. CASE HandleCallAccept
    BY <2>6, Applied DEF HandleCallAccept, Apply, EmitThen, InitSrtpKeys,
         AfterAccept
  <2>7. CASE ActivateAccepted
    <3>1. CASE state \in {"Ringing", "Connecting"}
      <4>1. ~keepaliveStop /\ "events" # "keepalive" /\ UNCHANGED codec /\
           ActivateThen("events", "idle")
        BY <2>7, <3>1 DEF ActivateAccepted
      <4> QED BY <4>1, Activation
    <3>2. CASE ~(state \in {"Ringing", "Connecting"})
      BY <2>7, <3>2 DEF ActivateAccepted, Goto
    <3> QED BY <3>1, <3>2
  <2>8. CASE AcceptAgain
    BY <2>8, Applied DEF AcceptAgain, Apply, Goto, EmitThen
  <2> QED BY <1>5, <2>1, <2>2, <2>3, <2>4, <2>5, <2>6, <2>7, <2>8 DEF EventStep
<1>6. ASSUME AckStep PROVE WatchdogArmedExactly'
  BY <1>6, Applied DEF AckStep, HandleAckError, HandleAckRelays,
       HandleAckNothing, Apply, Goto, EmitThen, InitSrtpKeys
<1>7. ASSUME NEW r \in Relays, RelayStep(r) PROVE WatchdogArmedExactly'
  <2>1. CASE RelayOpens(r)
    BY <2>1 DEF RelayOpens, Goto
  <2>2. CASE RelayLost(r)
    BY <2>2 DEF RelayLost
  <2>3. CASE OnRelayConnected(r)
    <3>1. CASE state = "Connecting"
      <4>1. ~keepaliveStop /\ r # "keepalive" /\ UNCHANGED codec /\ ActivateThen(r, "idle")
        BY <2>3, <3>1 DEF OnRelayConnected
      <4> QED BY <4>1, Activation
    <3>2. CASE ~(state = "Connecting")
      BY <2>3, <3>2 DEF OnRelayConnected, Goto
    <3> QED BY <3>1, <3>2
  <2> QED BY <1>7, <2>1, <2>2, <2>3 DEF RelayStep
<1>8. ASSUME KeepaliveExpires PROVE WatchdogArmedExactly'
  BY <1>8 DEF KeepaliveExpires, Goto
<1>9. ASSUME KeepaliveStops PROVE WatchdogArmedExactly'
  BY <1>9 DEF KeepaliveStops, Goto
<1>10. CASE UNCHANGED vars
  BY <1>10 DEF vars
<1> QED BY <1>1, <1>2, <1>3, <1>4, <1>5, <1>6, <1>7, <1>8, <1>9, <1>10 DEF Next

\* Every step keeps NoLostActivation.
LEMMA ActivationNext ==
  ControlOK /\ CallOK /\ Early /\ Answered /\ NoLostActivation /\ [Next]_vars => NoLostActivation'
<1> SUFFICES ASSUME ControlOK, CallOK, Early, Answered, NoLostActivation, [Next]_vars
     PROVE NoLostActivation'
  OBVIOUS
<1> USE DEF ControlOK, Labels, Due, CallOK, Lifecycle!Phases, Early, Answered,
     NoLostActivation
<1>1. ASSUME NEW t \in Threads, Step(t) PROVE NoLostActivation'
  <2>1. CASE EmitState(t)
    BY <2>1 DEF EmitState
  <2>2. CASE ListenersReturn(t)
    BY <2>2 DEF ListenersReturn
  <2>3. CASE Refused(t)
    BY <2>3 DEF Refused, Goto
  <2>4. CASE NotifyEnded(t)
    BY <2>4 DEF NotifyEnded, Goto
  <2>5. CASE CleanupMedia(t)
    BY <2>5 DEF CleanupMedia, Goto
  <2>6. CASE CloseRelays(t)
    BY <2>6 DEF CloseRelays
  <2>7. CASE ConnectRelays(t)
    BY <2>7 DEF ConnectRelays, Goto
  <2> QED BY <1>1, <2>1, <2>2, <2>3, <2>4, <2>5, <2>6, <2>7 DEF Step
<1>2. ASSUME NEW t \in Threads, EndCall(t) PROVE NoLostActivation'
  BY <1>2, Applied DEF EndCall, Apply, EmitThen
<1>3. ASSUME NEW t \in Threads, Route(t) PROVE NoLostActivation'
  BY <1>3 DEF Route, Goto
<1>4. ASSUME NEW o \in Operators, OperatorStep(o) PROVE NoLostActivation'
  <2>1. CASE StartCall(o)
    BY <2>1 DEF StartCall, Goto
  <2>2. CASE BuildOfferFails(o)
    BY <2>2 DEF BuildOfferFails, Goto
  <2>3. CASE OfferSent(o)
    BY <2>3, Applied DEF OfferSent, Apply, EmitThen
  <2>4. CASE SpawnOfferQuery(o)
    BY <2>4 DEF SpawnOfferQuery
  <2>5. CASE AcceptCall(o)
    BY <2>5, Applied DEF AcceptCall, Apply, EmitThen
  <2>6. CASE RejectCall(o)
    BY <2>6, Applied DEF RejectCall, Apply, EmitThen
  <2> QED BY <1>4, <2>1, <2>2, <2>3, <2>4, <2>5, <2>6 DEF OperatorStep
<1>5. ASSUME EventStep PROVE NoLostActivation'
  BY <1>5, Applied DEF EventStep, HandleCallOffer, AnnounceIncoming,
       HandleCallTerminate, HandleCallTransport, ReadAcceptedCall,
       HandleCallAccept, ActivateAccepted, AcceptAgain, Goto, EmitThen, Apply,
       InitSrtpKeys, AfterAccept, ActivateThen
<1>6. ASSUME AckStep PROVE NoLostActivation'
  BY <1>6, Applied DEF AckStep, HandleAckError, HandleAckRelays,
       HandleAckNothing, Apply, Goto, EmitThen, InitSrtpKeys
<1>7. ASSUME NEW r \in Relays, RelayStep(r) PROVE NoLostActivation'
  BY <1>7 DEF RelayStep, RelayOpens, RelayLost, OnRelayConnected, Goto,
       ActivateThen
<1>8. ASSUME KeepaliveExpires PROVE NoLostActivation'
  BY <1>8 DEF KeepaliveExpires, Goto
<1>9. ASSUME KeepaliveStops PROVE NoLostActivation'
  BY <1>9 DEF KeepaliveStops, Goto
<1>10. CASE UNCHANGED vars
  BY <1>10 DEF vars
<1> QED BY <1>1, <1>2, <1>3, <1>4, <1>5, <1>6, <1>7, <1>8, <1>9, <1>10 DEF Next

-----------------------------------------------------------------------------
\* IInv is inductive.
LEMMA Inductive == Spec => []IInv
<1>1. Init => IInv
  BY DEF Init, IInv, TypeOK, ControlOK, CallOK, FlagsOK, Labels, Lifecycle!Phases,
       Early, Offering,
     Unwatched, Direction, Answered, Told, Keyed, Released, WatchdogArmedExactly,
     NoLostActivation, Due
<1>2. IInv /\ [Next]_vars => IInv'
  BY ControlNext, CallNext, FlagsNext, EarlyNext, OfferingNext, UnwatchedNext,
       DirectionNext,
     AnsweredNext, ToldNext, KeyedNext, ReleasedNext, WatchdogNext, ActivationNext
     DEF IInv, TypeOK
<1> QED BY <1>1, <1>2, PTL DEF Spec

\* Every variable of the engine keeps its type.
THEOREM TypeCorrect == Spec => []TypeOK
<1>1. IInv => TypeOK
  BY DEF IInv
<1> QED BY <1>1, Inductive, PTL

\* The keepalive of callmanager_media.go is armed exactly while an established
\* call holds its codec, whatever the number of operators and relays.
THEOREM WatchdogCorrect == Spec => []WatchdogArmedExactly
<1>1. IInv => WatchdogArmedExactly
  BY DEF IInv
<1> QED BY <1>1, Inductive, PTL

\* No call waits for its media path with a relay open and nobody about to
\* activate it (HandleCallAccept against onRelayConnected).
THEOREM ActivationCorrect == Spec => []NoLostActivation
<1>1. IInv => NoLostActivation
  BY DEF IInv
<1> QED BY <1>1, Inductive, PTL

\* No established call with codec and key lacks its SRTP session.
THEOREM AudioCorrect == Spec => []AudioReady
<1>1. IInv => AudioReady
  BY DEF IInv, TypeOK, FlagsOK, Keyed, AudioReady
<1> QED BY <1>1, Inductive, PTL

\* The state a call rests in has been read and acted on by the listeners of some
\* thread, however the goroutines that call emitState interleave.
THEOREM ListenersCorrect == Spec => []StateReachesListeners
<1>1. IInv => StateReachesListeners
  BY DEF IInv, TypeOK, ControlOK, Told, StateReachesListeners, AtRest
<1> QED BY <1>1, Inductive, PTL

\* Whatever ends a call, nothing of it is left when its goroutines have rested.
THEOREM EndCorrect == Spec => []EndedIsClean
<1>1. IInv => EndedIsClean
  BY DEF IInv, TypeOK, ControlOK, Released, EndedIsClean, AtRest, CleanupDue,
       WatchdogArmedExactly, Due
<1> QED BY <1>1, Inductive, PTL

\* Applying a transition of callstate.go is a step of the lifecycle, or none.
LEMMA AppliedImplements ==
  ASSUME NEW t \in Lifecycle!Transitions \ {"MediaConnected"}, Apply(t),
         UNCHANGED <<codec, keepaliveStop>>
  PROVE  [Lifecycle!Next]_(Lifecycle!vars)
<1>1. CASE Lifecycle!Valid(state, t)
  <2>1. Lifecycle!Proceed
    BY <1>1 DEF Apply, Lifecycle!ApplyTransition, Lifecycle!Proceed
  <2> QED BY <2>1 DEF Lifecycle!Next
<1>2. CASE ~Lifecycle!Valid(state, t)
  BY <1>2 DEF Apply, Lifecycle!ApplyTransition, Lifecycle!vars
<1> QED BY <1>1, <1>2

\* The transitions the engine applies through ApplyTransition.
LEMMA EngineTransitions ==
  {"OfferSent", "RemoteAccepted", "LocalAccepted", "LocalRejected", "Terminated"}
    \subseteq Lifecycle!Transitions \ {"MediaConnected"}
BY DEF Lifecycle!Transitions, Lifecycle!Edge

\* A thread that finds the call accepted establishes it.
LEMMA ActivationImplements ==
  ASSUME IInv, NEW t, NEW label, ActivateThen(t, label), state = "Connecting", UNCHANGED codec
  PROVE  [Lifecycle!Next]_(Lifecycle!vars)
<1>1. ~keepaliveStop /\ keepaliveStop \in BOOLEAN /\ codec \in BOOLEAN
  BY DEF IInv, TypeOK, FlagsOK, WatchdogArmedExactly
<1>2. Lifecycle!Valid(state, "MediaConnected") /\ Lifecycle!Edge["MediaConnected"].to =
     "Active"
  BY DEF Lifecycle!Valid, Lifecycle!Edge
<1>3. keepaliveStop' = codec
  BY <1>1 DEF ActivateThen
<1>4. Lifecycle!Establish
  BY <1>2, <1>3 DEF ActivateThen, Lifecycle!Establish
<1> QED BY <1>4 DEF Lifecycle!Next

\* The engine implements CallLifecycle step by step: its initial state is one of
\* the lifecycle's, and each of its steps is a step of the lifecycle or leaves
\* phase, codec and watchdog alone.
THEOREM StepImplements ==
  Spec => Lifecycle!Init /\ [][Lifecycle!Next]_(Lifecycle!vars)
<1>1. Init => Lifecycle!Init
  BY DEF Init, Lifecycle!Init
<1>2. ASSUME IInv, [Next]_vars PROVE [Lifecycle!Next]_(Lifecycle!vars)
  <2> USE <1>2
  <2>1. ASSUME NEW t \in Threads, Step(t) PROVE [Lifecycle!Next]_(Lifecycle!vars)
    <3>1. CASE CleanupMedia(t)
      <4>1. state # "none"
        BY <3>1 DEF CleanupMedia, IInv, Early
      <4> QED BY <3>1, <4>1 DEF CleanupMedia, Lifecycle!Next, Lifecycle!Release
    <3>2. CASE ~CleanupMedia(t)
      BY <2>1, <3>2 DEF Step, EmitState, ListenersReturn, Refused, NotifyEnded, CloseRelays, ConnectRelays,
         Lifecycle!vars
    <3> QED BY <3>1, <3>2
  <2>2. ASSUME NEW t \in Threads, EndCall(t) PROVE [Lifecycle!Next]_(Lifecycle!vars)
    BY <2>2, AppliedImplements, EngineTransitions DEF EndCall
  <2>3. ASSUME NEW t \in Threads, Route(t) PROVE [Lifecycle!Next]_(Lifecycle!vars)
    BY <2>3 DEF Route, Lifecycle!vars
  <2>4. ASSUME NEW o \in Operators, OperatorStep(o) PROVE [Lifecycle!Next]_(Lifecycle!vars)
    <3>1. CASE StartCall(o)
      BY <3>1 DEF StartCall, Lifecycle!Begin, Lifecycle!Next
    <3>2. CASE OfferSent(o) \/ AcceptCall(o) \/ RejectCall(o)
      BY <3>2, AppliedImplements, EngineTransitions DEF OfferSent, AcceptCall, RejectCall
    <3>3. CASE BuildOfferFails(o) \/ SpawnOfferQuery(o)
      BY <3>3 DEF BuildOfferFails, SpawnOfferQuery, Lifecycle!vars
    <3> QED BY <2>4, <3>1, <3>2, <3>3 DEF OperatorStep
  <2>5. ASSUME EventStep PROVE [Lifecycle!Next]_(Lifecycle!vars)
    <3>1. CASE HandleCallOffer
      BY <3>1 DEF HandleCallOffer, Lifecycle!Begin, Lifecycle!Next
    <3>2. CASE HandleCallTerminate \/ HandleCallAccept \/ AcceptAgain
      BY <3>2, AppliedImplements, EngineTransitions
         DEF HandleCallTerminate, HandleCallAccept, AcceptAgain
    <3>3. CASE AnnounceIncoming \/ HandleCallTransport \/ ReadAcceptedCall
      BY <3>3 DEF AnnounceIncoming, HandleCallTransport, ReadAcceptedCall, Lifecycle!vars
    <3>4. CASE ActivateAccepted
      <4>1. Due("events") = "activate"
        BY <3>4 DEF ActivateAccepted, Due
      <4>2. state # "Ringing"
        BY <4>1 DEF IInv, Answered
      <4>3. CASE state = "Connecting"
        BY <3>4, <4>3, ActivationImplements DEF ActivateAccepted
      <4>4. CASE state # "Connecting"
        BY <3>4, <4>2, <4>4 DEF ActivateAccepted, Lifecycle!vars
      <4> QED BY <4>3, <4>4
    <3> QED BY <2>5, <3>1, <3>2, <3>3, <3>4 DEF EventStep
  <2>6. ASSUME AckStep PROVE [Lifecycle!Next]_(Lifecycle!vars)
    <3>1. CASE HandleAckError
      BY <3>1, AppliedImplements, EngineTransitions DEF HandleAckError
    <3>2. CASE HandleAckRelays \/ HandleAckNothing
      BY <3>2 DEF HandleAckRelays, HandleAckNothing, Lifecycle!vars
    <3> QED BY <2>6, <3>1, <3>2 DEF AckStep
  <2>7. ASSUME NEW r \in Relays, RelayStep(r) PROVE [Lifecycle!Next]_(Lifecycle!vars)
    <3>1. CASE RelayOpens(r) \/ RelayLost(r)
      BY <3>1 DEF RelayOpens, RelayLost, Lifecycle!vars
    <3>2. CASE OnRelayConnected(r)
      BY <3>2, ActivationImplements DEF OnRelayConnected, Lifecycle!vars
    <3> QED BY <2>7, <3>1, <3>2 DEF RelayStep
  <2>8. ASSUME KeepaliveExpires \/ KeepaliveStops PROVE [Lifecycle!Next]_(Lifecycle!vars)
    BY <2>8 DEF KeepaliveExpires, KeepaliveStops, Lifecycle!vars
  <2>9. CASE UNCHANGED vars
    BY <2>9 DEF vars, Lifecycle!vars
  <2> QED BY <2>1, <2>2, <2>3, <2>4, <2>5, <2>6, <2>7, <2>8, <2>9 DEF Next
<1> QED BY <1>1, <1>2, Inductive, PTL DEF Spec
==============================================================================
