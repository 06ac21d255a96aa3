--------------------------- MODULE ClientCallsProofs ---------------------------
(***************************************************************************)
(* Proofs about ClientCalls, for every set of calls and every capacity of  *)
(* the channel: the microphones that are on are accounted for, and a call  *)
(* that has ended rings here only while the news is on its way, or lost.   *)
(***************************************************************************)
EXTENDS ClientCalls, FiniteSetTheorems, TLAPS

USE DEF broker, channel, store, autoAnswer

Kinds == {"incoming", "incoming-claimed", "connected", "call-ended"}

\* What a subscriber is told: the list of the live calls, or news of one call.
Events == {Event(type, c) : type \in Kinds, c \in Calls}
          \union {CallList(cs) : cs \in SUBSET Calls}

BrokerTypes ==
  /\ server \in [Calls -> {"none", "ringing", "connected", "ended"}]
  /\ owner \in [Calls -> {"none", "me", "server", "other"}]
  /\ accepted \subseteq Calls

\* Only an open stream carries events.
ChannelTypes ==
  /\ missed \subseteq Calls
  /\ stream \in {"ticket", "opening", "open", "waiting", "off"}
  /\ wire \in Seq(Events) /\ Len(wire) <= ChannelSize
  /\ stream # "open" => wire = <<>>

StoreTypes ==
  /\ listed \subseteq Calls /\ conns \subseteq Calls
  /\ incoming \in Calls \union {None}

PageTypes ==
  /\ mics \in [Calls -> Nat]
  /\ pc \in [Askers \X Calls -> Awaits]
  /\ rejecting \subseteq Calls /\ looking \subseteq Calls
  /\ handled \in Calls \union {None} /\ timer \in Calls \union {None}

Types == BrokerTypes /\ ChannelTypes /\ StoreTypes /\ PageTypes

Media == {"config", "mic", "sdp", "answer"}

\* The engine accepts a call once, so one asker at most works on its media, and
\* none once its connection is registered.
OneMedia ==
  /\ \A c \in accepted : server[c] # "none"
  /\ conns \subseteq accepted
  /\ \A c \in Calls : \A a \in Askers :
       pc[<<a, c>>] \in Media =>
         /\ c \in accepted \ conns
         /\ \A b \in Askers : pc[<<b, c>>] \in Media => b = a

\* A call has one microphone here, or none.
OneMic == \A c \in Calls : mics[c] = IF HasMic(c) THEN 1 ELSE 0

EndOf(c) == Event("call-ended", c)

\* The news of c's end never came, or is at i or after it on the wire.
News(c, i) == c \in missed \/ \E j \in i..Len(wire) : wire[j] = EndOf(c)

\* The end of a call is broadcast after its ring.
RingThenEnd ==
  \A i \in 1..Len(wire) : \A c \in Calls :
    wire[i] = Event("incoming", c) /\ server[c] = "ended" => News(c, i)

\* A dead call rings here only until the news of its end has come.
EndOnItsWay ==
  incoming # None /\ server[incoming] = "ended" => News(incoming, 1)

\* The ring of a call is on the wire once, before it rings here and never after.
Rung(c) == Event("incoming", c)

RingsOnce ==
  /\ \A i \in 1..Len(wire) : \A c \in Calls :
       wire[i] = Rung(c) =>
         /\ c \in Inbound /\ server[c] # "none" /\ incoming # c
         /\ \A j \in 1..Len(wire) : wire[j] = Rung(c) => i = j
  /\ incoming # None => incoming \in Inbound /\ server[incoming] # "none"

\* A call is claimed before it is accepted.
Claimed ==
  \A c \in Calls :
    c \in accepted \/ (\E a \in Askers : pc[<<a, c>>] = "accept") => owner[c] # "none"

IInv == Types /\ OneMedia /\ OneMic /\ RingThenEnd /\ EndOnItsWay /\ RingsOnce /\ Claimed

\* The broker takes c up.
Starts(c) == c \in Inbound /\ server[c] = "none" /\ server'[c] = "ringing"

\* Events that end no call, and of which the last may be the ring of a new one.
Quiet(events) ==
  /\ events \in Seq(Events) /\ Broadcast(events)
  /\ \A c \in Calls : server'[c] = "ended" => server[c] = "ended"
  /\ \A i \in 1..Len(events) : \A c \in Calls :
       events[i] = Event("incoming", c) => Starts(c) /\ i = Len(events)

\* No word to the browser, whose stream may still change from closed to closed.
Silent ==
  /\ UNCHANGED <<server, wire, missed>>
  /\ stream' \in {"ticket", "opening", "open", "waiting", "off"}
  /\ stream' # "open" => stream # "open"

-----------------------------------------------------------------------------
(* Events and the wire. *)

\* An event is a list of calls, or one of the four kinds of news of a call.
LEMMA EventCases ==
  ASSUME NEW ev \in Events
  PROVE \/ ev.type = "call-list" /\ ev.calls \subseteq Calls
        \/ ev.type \in Kinds /\ ev.call \in Calls /\ ev = Event(ev.type, ev.call)
BY DEF Events, Event, CallList, Kinds

\* What is broadcast are events.
LEMMA NewsIsEvent ==
  /\ \A c \in Calls : \A type \in Kinds : Event(type, c) \in Events
  /\ \A cs \in SUBSET Calls : CallList(cs) \in Events
BY DEF Events

\* The kinds of events differ, and so does the news of different calls.
LEMMA EventEqual ==
  ASSUME NEW c \in Calls, NEW d \in Calls, NEW type \in Kinds, NEW other \in Kinds
  PROVE /\ Event(type, c) = Event(other, d) => type = other /\ c = d
        /\ Event(type, c) # CallList(Live)
        /\ Event(type, c) # CallList(Live \union {d})
<1>1. Event(type, c).type = type /\ Event(type, c).call = c
  BY DEF Event
<1>2. Event(other, d).type = other /\ Event(other, d).call = d
  BY DEF Event
<1>3. CallList(Live).type = "call-list" /\ CallList(Live \union {d}).type = "call-list"
  BY DEF CallList
<1>4. type # "call-list"
  BY DEF Kinds
<1> HIDE DEF Kinds
<1> QED BY <1>1, <1>2, <1>3, <1>4

\* The calls that end in a sequence of events are calls.
LEMMA EndsType ==
  ASSUME NEW q \in Seq(Events)
  PROVE /\ Ends(q) \subseteq Calls
        /\ \A c \in Ends(q) : \E i \in DOMAIN q : q[i] = EndOf(c)
        /\ \A c \in Calls : \A i \in DOMAIN q : q[i] = EndOf(c) => c \in Ends(q)
<1>1. ASSUME NEW c \in Ends(q) PROVE c \in Calls /\ \E i \in DOMAIN q : q[i] = EndOf(c)
  <2>1. PICK i \in DOMAIN q : q[i].type = "call-ended" /\ c = q[i].call
    BY <1>1 DEF Ends, ToSet
  <2>2. q[i] \in Events
    BY <2>1
  <2>3. c \in Calls /\ q[i] = Event("call-ended", c)
    BY <2>1, <2>2, EventCases
  <2> QED BY <2>1, <2>3 DEF EndOf
<1>2. ASSUME NEW c \in Calls, NEW i \in DOMAIN q, q[i] = EndOf(c) PROVE c \in Ends(q)
  <2>1. q[i].type = "call-ended" /\ q[i].call = c
    BY <1>2 DEF EndOf, Event
  <2>2. q[i] \in ToSet(q)
    BY DEF ToSet
  <2> QED BY <2>1, <2>2 DEF Ends
<1> QED BY <1>1, <1>2

\* Broadcast appends what there is room for, and drops the rest of the events:
\* what is dropped of the ends of calls is missed.
LEMMA BroadcastShape ==
  ASSUME ChannelTypes, NEW events \in Seq(Events), Broadcast(events)
  PROVE /\ wire' \in Seq(Events) /\ Len(wire) <= Len(wire') /\ Len(wire') <= ChannelSize
        /\ \A i \in 1..Len(wire) : wire'[i] = wire[i]
        /\ \A i \in Len(wire) + 1..Len(wire') :
              i - Len(wire) \in 1..Len(events) /\ wire'[i] = events[i - Len(wire)]
        /\ missed \subseteq missed' /\ missed' \subseteq Calls
        /\ Len(wire') = Len(wire) + Len(events) \/ Ends(events) \subseteq missed'
        /\ stream' = stream /\ (stream # "open" => wire' = <<>>)
<1> USE ChannelAssumption DEF ChannelTypes
<1>1. Ends(events) \subseteq Calls
  BY EndsType
<1>2. CASE stream # "open"
  BY <1>1, <1>2 DEF Broadcast
<1>3. CASE stream = "open"
  <2> DEFINE all == wire \o events
             n == IF Len(all) < ChannelSize THEN Len(all) ELSE ChannelSize
             kept == SubSeq(all, 1, n)
  <2>1. /\ all \in Seq(Events) /\ Len(all) = Len(wire) + Len(events)
        /\ \A i \in 1..Len(wire) : all[i] = wire[i]
        /\ \A i \in Len(wire) + 1..Len(all) : all[i] = events[i - Len(wire)]
    OBVIOUS
  <2>2. /\ n \in Nat /\ n <= Len(all) /\ Len(wire) <= n /\ n <= ChannelSize
    BY <2>1
  <2>3. wire' = kept /\ stream' = stream
    BY <1>3 DEF Broadcast
  <2>4. missed' = IF kept = all THEN missed ELSE missed \union Ends(events)
    BY <1>3 DEF Broadcast
  <2> HIDE DEF n, all
  <2>5. kept \in Seq(Events) /\ Len(kept) = n /\ \A i \in 1..n : kept[i] = all[i]
    BY <2>1, <2>2
  <2>6. \A i \in 1..Len(wire) : wire'[i] = wire[i]
    BY <2>1, <2>2, <2>3, <2>5
  <2>7. \A i \in Len(wire) + 1..Len(wire') :
          i - Len(wire) \in 1..Len(events) /\ wire'[i] = events[i - Len(wire)]
    <3> SUFFICES ASSUME NEW i \in Len(wire) + 1..n
                 PROVE i - Len(wire) \in 1..Len(events) /\ kept[i] = events[i - Len(wire)]
      BY <2>3, <2>5
    <3> HIDE DEF kept
    <3>1. i \in 1..n /\ i \in Len(wire) + 1..Len(all)
      BY <2>1, <2>2
    <3>2. i - Len(wire) \in 1..Len(events)
      BY <2>1, <3>1
    <3> QED BY <2>1, <2>5, <3>1, <3>2
  <2> HIDE DEF kept
  <2>8. missed \subseteq missed' /\ missed' \subseteq Calls
    BY <1>1, <2>4
  <2>9. Len(wire') = Len(wire) + Len(events) \/ Ends(events) \subseteq missed'
    BY <2>1, <2>3, <2>4
  <2>10. Len(wire') = n /\ wire' \in Seq(Events)
    BY <2>3, <2>5
  <2> QED BY <1>3, <2>2, <2>3, <2>6, <2>7, <2>8, <2>9, <2>10
<1> QED BY <1>2, <1>3

\* One broadcast of an event that is not a ring ends no call.
LEMMA QuietEvent ==
  ASSUME NEW ev \in Events, Broadcast(<<ev>>),
         \A c \in Calls : ev # Event("incoming", c),
         \A c \in Calls : server'[c] = "ended" => server[c] = "ended"
  PROVE \E events \in Seq(Events) : Quiet(events)
<1>1. <<ev>> \in Seq(Events) /\ Len(<<ev>>) = 1 /\ <<ev>>[1] = ev
  OBVIOUS
<1>2. Quiet(<<ev>>)
  BY <1>1 DEF Quiet
<1> QED BY <1>1, <1>2

\* What a step may do to the wire, and to the calls the broker has ended.
LEMMA WireStep ==
  ASSUME Types, [Next]_vars
  PROVE \/ Silent
        \/ \E events \in Seq(Events) : Quiet(events)
        \/ \E c \in Calls : BrokerEnds(c)
        \/ Subscribed \/ StreamFails \/ Unauthorized \/ Deliver
<1> DEFINE Goal == \/ Silent
                   \/ \E events \in Seq(Events) : Quiet(events)
                   \/ \E c \in Calls : BrokerEnds(c)
                   \/ Subscribed \/ StreamFails \/ Unauthorized \/ Deliver
<1> USE DEF Types, BrokerTypes, ChannelTypes
<1>1. ASSUME NEW c \in Calls, Ring(c) PROVE Goal
  <2> DEFINE events == <<CallList(Live \union {c}), Event("incoming", c)>>
  <2>1. Live \union {c} \in SUBSET Calls /\ "incoming" \in Kinds
    BY DEF Live, Kinds
  <2>2. events \in Seq(Events) /\ Len(events) = 2
    BY <2>1, NewsIsEvent
  <2>3. Broadcast(events) /\ server' = [server EXCEPT ![c] = "ringing"]
    BY <1>1 DEF Ring
  <2>4. ASSUME NEW i \in 1..Len(events), NEW d \in Calls, events[i] = Event("incoming", d)
        PROVE Starts(d) /\ i = Len(events)
    <3>1. i = 1 \/ i = 2
      BY <2>2
    <3>2. Event("incoming", d) # CallList(Live \union {c})
      BY <2>1, EventEqual
    <3>3. Event("incoming", c) = Event("incoming", d) /\ i = 2
      BY <2>4, <3>1, <3>2
    <3>4. c = d
      BY <2>1, <3>3, EventEqual
    <3>5. server[c] = "none" /\ c \in Inbound
      BY <1>1 DEF Ring
    <3> QED BY <2>2, <2>3, <3>3, <3>4, <3>5 DEF Starts
  <2> HIDE DEF events
  <2>5. Quiet(events)
    BY <2>2, <2>3, <2>4 DEF Quiet
  <2> QED BY <2>2, <2>5
<1>2. ASSUME NEW c \in Calls, Activate(c) PROVE Goal
  <2>1. "connected" \in Kinds /\ "incoming" \in Kinds /\ "connected" # "incoming"
    BY DEF Kinds
  <2>2. /\ Event("connected", c) \in Events
        /\ \A d \in Calls : Event("connected", c) # Event("incoming", d)
    BY <2>1, NewsIsEvent, EventEqual
  <2>3. Broadcast(<<Event("connected", c)>>) /\ server' = [server EXCEPT ![c] = "connected"]
    BY <1>2 DEF Activate
  <2> QED BY <2>2, <2>3, QuietEvent
<1>3. ASSUME NEW c \in Calls, PeerEnds(c) \/ EndCall(c) PROVE Goal
  BY <1>3 DEF PeerEnds, EndCall
<1>4. ASSUME NEW c \in Calls, Broadcast(<<Event("incoming-claimed", c)>>), UNCHANGED server
      PROVE Goal
  <2>1. "incoming-claimed" \in Kinds /\ "incoming" \in Kinds /\ "incoming-claimed" # "incoming"
    BY DEF Kinds
  <2>2. /\ Event("incoming-claimed", c) \in Events
        /\ \A d \in Calls : Event("incoming-claimed", c) # Event("incoming", d)
    BY <2>1, NewsIsEvent, EventEqual
  <2> QED BY <1>4, <2>2, QuietEvent
<1>5. ASSUME NEW c \in Calls, StartScheduled(c) \/ Dial(c) PROVE Goal
  <2>1. Live \union {c} \in SUBSET Calls /\ "incoming" \in Kinds
    BY DEF Live, Kinds
  <2>2. /\ CallList(Live \union {c}) \in Events
        /\ \A d \in Calls : CallList(Live \union {c}) # Event("incoming", d)
    BY <2>1, NewsIsEvent, EventEqual
  <2>3. Broadcast(<<CallList(Live \union {c})>>) /\ server' = [server EXCEPT ![c] = "ringing"]
    BY <1>5 DEF StartScheduled, Dial
  <2> QED BY <2>2, <2>3, QuietEvent
<1>6. ASSUME NEW c \in Calls, RejectSettles(c) PROVE Goal
  BY <1>6 DEF RejectSettles, EndIfLive, Silent
<1>7. CASE Stream
  BY <1>7 DEF Stream, Connect, TicketArrives, TicketFails, Retry, Silent
<1>8. CASE Answerer
  BY <1>8 DEF Answerer, NoticeIncoming, TimerFires, CancelTimer, NotOurs, ArmTimer,
       AnswerAtOnce, Silent
<1>9. CASE ClickAccept \/ ClickReject
  BY <1>9 DEF ClickAccept, ClickReject, Silent
<1>10. ASSUME NEW p \in Askers \X Calls, Step(p) PROVE Goal
  <2>1. p[2] \in Calls
    OBVIOUS
  <2>2. CASE Claim(p)
    <3>1. \/ Broadcast(<<Event("incoming-claimed", p[2])>>) /\ UNCHANGED server
          \/ UNCHANGED <<broker, channel>>
      BY <2>2 DEF Claim, Conflict
    <3> QED BY <1>4, <2>1, <3>1 DEF Silent
  <2>3. CASE HangUp(p)
    BY <2>1, <2>3 DEF HangUp, EndIfLive, Silent
  <2>4. CASE CheckOwner(p)
    BY <2>4 DEF CheckOwner, Conflict, Silent
  <2>5. CASE ~Claim(p) /\ ~HangUp(p) /\ ~CheckOwner(p)
    BY <1>10, <2>5 DEF Step, RequestFails, AcceptCall, ServerTalks, OpenCall, MicDenied,
         MicGranted, MediaFails, Bridged, Register, Silent
  <2> QED BY <2>2, <2>3, <2>4, <2>5
<1>11. ASSUME NEW c \in Calls, OtherClaims(c) PROVE Goal
  BY <1>4, <1>11 DEF OtherClaims
<1>12. CASE UNCHANGED vars
  BY <1>12 DEF vars, Silent
<1> QED BY <1>1, <1>2, <1>3, <1>5, <1>6, <1>7, <1>8, <1>9, <1>10, <1>11, <1>12 DEF Next

\* Only events make the modal show another call.
LEMMA IncomingStep ==
  ASSUME [Next]_vars, ~Deliver
  PROVE incoming' \in {incoming, None}
<1>1. ASSUME NEW p \in Askers \X Calls, Step(p) PROVE incoming' \in {incoming, None}
  BY <1>1 DEF Step, RequestFails, CheckOwner, Claim, AcceptCall, ServerTalks, OpenCall, MicDenied,
       MicGranted, MediaFails, Bridged, Register, HangUp, Conflict
<1>2. ASSUME Stream \/ Answerer PROVE incoming' \in {incoming, None}
  BY <1>2 DEF Stream, Connect, TicketArrives, Subscribed, TicketFails, Unauthorized, StreamFails,
       Retry, Answerer, NoticeIncoming, TimerFires, CancelTimer, NotOurs, ArmTimer, AnswerAtOnce
<1> QED BY <1>1, <1>2 DEF Next, Ring, Activate, PeerEnds, OtherClaims, StartScheduled, Dial,
     EndCall, RejectSettles, ClickAccept, ClickReject, vars

\* Every step keeps ChannelTypes.
LEMMA ChannelTypesNext ==
  Types /\ [Next]_vars => ChannelTypes'
<1> SUFFICES ASSUME Types, [Next]_vars PROVE ChannelTypes'
  OBVIOUS
<1> USE DEF Types, ChannelTypes
<1>1. ASSUME NEW events \in Seq(Events), Broadcast(events) PROVE ChannelTypes'
  BY <1>1, BroadcastShape
<1>2. ASSUME NEW c \in Calls, BrokerEnds(c) PROVE ChannelTypes'
  <2>1. <<Event("call-ended", c)>> \in Seq(Events)
    BY NewsIsEvent DEF Kinds
  <2> QED BY <1>1, <1>2, <2>1 DEF BrokerEnds
<1>3. CASE Silent
  BY <1>3 DEF Silent
<1>4. CASE Subscribed
  <2>1. CallList(Live) \in Events
    BY NewsIsEvent DEF Live
  <2>2. <<CallList(Live)>> \in Seq(Events) /\ Len(<<CallList(Live)>>) = 1
    BY <2>1
  <2>3. 1 <= ChannelSize
    BY ChannelAssumption
  <2>4. wire' = <<CallList(Live)>> /\ stream' = "open" /\ missed' = missed
    BY <1>4 DEF Subscribed
  <2> QED BY <2>2, <2>3, <2>4
<1>5. CASE StreamFails
  <2>1. Ends(wire) \subseteq Calls
    BY EndsType
  <2> QED BY <1>5, <2>1, ChannelAssumption DEF StreamFails
<1>6. CASE Unauthorized
  BY <1>6, ChannelAssumption DEF Unauthorized
<1>7. CASE Deliver
  <2>1. wire # <<>> /\ wire' = Tail(wire) /\ stream' = stream /\ missed' = missed
    BY <1>7 DEF Deliver
  <2>2. Tail(wire) \in Seq(Events) /\ Len(Tail(wire)) = Len(wire) - 1
    BY <2>1
  <2>3. stream = "open"
    BY <2>1
  <2>4. Len(wire') <= ChannelSize
    BY <2>1, <2>2, ChannelAssumption
  <2> QED BY <2>1, <2>2, <2>3, <2>4
<1> QED BY <1>1, <1>2, <1>3, <1>4, <1>5, <1>6, <1>7, WireStep DEF Quiet

\* A broadcast takes no news away.
LEMMA NewsKept ==
  ASSUME ChannelTypes, NEW events \in Seq(Events), Broadcast(events),
         NEW c \in Calls, NEW i \in Nat \ {0}, News(c, i)
  PROVE News(c, i)'
<1>1. CASE c \in missed
  BY <1>1, BroadcastShape DEF News
<1>2. CASE \E j \in i..Len(wire) : wire[j] = EndOf(c)
  <2>1. PICK j \in i..Len(wire) : wire[j] = EndOf(c)
    BY <1>2
  <2>2. wire \in Seq(Events) /\ wire' \in Seq(Events)
    BY BroadcastShape DEF ChannelTypes
  <2>3. j \in 1..Len(wire) /\ j \in i..Len(wire')
    BY <2>2, BroadcastShape
  <2>4. wire'[j] = EndOf(c)
    BY <2>1, <2>3, BroadcastShape
  <2> QED BY <2>3, <2>4 DEF News, EndOf, Event
<1> QED BY <1>1, <1>2 DEF News

\* A broadcast that ends no call keeps the order of rings and ends.
LEMMA QuietKeeps ==
  ASSUME Types, RingThenEnd, EndOnItsWay, NEW events \in Seq(Events), Quiet(events),
         incoming' \in {incoming, None}
  PROVE RingThenEnd' /\ EndOnItsWay'
<1>1. ChannelTypes /\ Broadcast(events)
  BY DEF Types, Quiet
<1>2. wire \in Seq(Events) /\ wire' \in Seq(Events)
  BY <1>1, BroadcastShape DEF ChannelTypes
<1>3. RingThenEnd'
  <2> SUFFICES ASSUME NEW i \in 1..Len(wire'), NEW c \in Calls,
                      wire'[i] = Event("incoming", c), server'[c] = "ended"
               PROVE News(c, i)'
    BY DEF RingThenEnd, Event, News, EndOf
  <2>1. i \in 1..Len(wire)
    <3>1. CASE i \in Len(wire) + 1..Len(wire')
      <4>1. i - Len(wire) \in 1..Len(events) /\ events[i - Len(wire)] = Event("incoming", c)
        BY <1>1, <3>1, BroadcastShape
      <4> QED BY <4>1 DEF Quiet, Starts
    <3> QED BY <1>2, <3>1
  <2>2. wire[i] = Event("incoming", c) /\ server[c] = "ended"
    BY <1>1, <2>1, BroadcastShape DEF Quiet
  <2>3. News(c, i)
    BY <2>1, <2>2 DEF RingThenEnd
  <2> QED BY <1>1, <1>2, <2>1, <2>3, NewsKept
<1>4. EndOnItsWay'
  <2> SUFFICES ASSUME incoming' # None, server'[incoming'] = "ended" PROVE News(incoming, 1)'
    BY DEF EndOnItsWay
  <2>1. PICK c \in Calls : c = incoming /\ c = incoming'
    BY DEF Types, StoreTypes
  <2>2. server[c] = "ended"
    BY <2>1 DEF Quiet
  <2>3. News(c, 1)
    BY <2>1, <2>2 DEF EndOnItsWay
  <2>4. News(c, 1)'
    BY <1>1, <2>3, NewsKept
  <2> QED BY <2>1, <2>4 DEF News
<1> QED BY <1>3, <1>4

\* The end of a call is broadcast with it.
LEMMA EndKeeps ==
  ASSUME Types, RingThenEnd, EndOnItsWay, NEW c \in Calls, BrokerEnds(c),
         incoming' \in {incoming, None}
  PROVE RingThenEnd' /\ EndOnItsWay'
<1> DEFINE events == <<Event("call-ended", c)>>
<1>1. /\ events \in Seq(Events) /\ Len(events) = 1 /\ events[1] = EndOf(c)
      /\ "call-ended" \in Kinds /\ "incoming" \in Kinds /\ "call-ended" # "incoming"
  BY NewsIsEvent DEF Kinds, EndOf
<1>2. ChannelTypes /\ Broadcast(events) /\ server' = [server EXCEPT ![c] = "ended"]
  BY DEF Types, BrokerEnds
<1>3. wire \in Seq(Events) /\ wire' \in Seq(Events)
  BY <1>1, <1>2, BroadcastShape DEF ChannelTypes
<1> HIDE DEF events
<1>4. c \in Ends(events)
  BY <1>1, EndsType
<1>5. ASSUME NEW i \in 1..Len(wire) + 1 PROVE News(c, i)'
  <2>1. CASE Ends(events) \subseteq missed'
    BY <1>4, <2>1 DEF News
  <2>2. CASE Len(wire') = Len(wire) + 1
    <3>1. Len(wire) + 1 \in Len(wire) + 1..Len(wire') /\ Len(wire) + 1 \in i..Len(wire')
      BY <1>3, <2>2
    <3>2. wire'[Len(wire) + 1] = events[Len(wire) + 1 - Len(wire)]
      BY <1>1, <1>2, <3>1, BroadcastShape
    <3>3. wire'[Len(wire) + 1] = EndOf(c)
      BY <1>1, <1>3, <3>2
    <3> QED BY <3>1, <3>3 DEF News, EndOf, Event
  <2> QED BY <1>1, <1>2, <2>1, <2>2, BroadcastShape
<1>6. RingThenEnd'
  <2> SUFFICES ASSUME NEW i \in 1..Len(wire'), NEW d \in Calls,
                      wire'[i] = Event("incoming", d), server'[d] = "ended"
               PROVE News(d, i)'
    BY DEF RingThenEnd, Event, News, EndOf
  <2>1. i \in 1..Len(wire)
    <3>1. CASE i \in Len(wire) + 1..Len(wire')
      <4>1. i - Len(wire) \in 1..Len(events) /\ wire'[i] = events[i - Len(wire)]
        BY <1>1, <1>2, <3>1, BroadcastShape
      <4>2. wire'[i] = EndOf(c)
        BY <1>1, <1>3, <4>1
      <4> QED BY <1>1, <4>2, EventEqual DEF EndOf
    <3> QED BY <1>3, <3>1
  <2>2. CASE d = c
    BY <1>3, <1>5, <2>1, <2>2
  <2>3. CASE d # c
    <3>1. server[d] = "ended" /\ wire[i] = Event("incoming", d)
      BY <1>1, <1>2, <2>1, <2>3, BroadcastShape DEF Types, BrokerTypes
    <3>2. News(d, i)
      BY <2>1, <3>1 DEF RingThenEnd
    <3> QED BY <1>1, <1>2, <1>3, <2>1, <3>2, NewsKept
  <2> QED BY <2>2, <2>3
<1>7. EndOnItsWay'
  <2> SUFFICES ASSUME incoming' # None, server'[incoming'] = "ended" PROVE News(incoming, 1)'
    BY DEF EndOnItsWay
  <2>1. PICK d \in Calls : d = incoming /\ d = incoming'
    BY DEF Types, StoreTypes
  <2>2. CASE d = c
    BY <1>3, <1>5, <2>1, <2>2 DEF News
  <2>3. CASE d # c
    <3>1. server[d] = "ended"
      BY <1>2, <2>1, <2>3 DEF Types, BrokerTypes
    <3>2. News(d, 1)
      BY <2>1, <3>1 DEF EndOnItsWay
    <3>3. News(d, 1)'
      BY <1>1, <1>2, <3>2, NewsKept
    <3> QED BY <2>1, <3>3 DEF News
  <2> QED BY <2>2, <2>3
<1> QED BY <1>6, <1>7

\* An event is delivered in its turn: what comes after it stays in order.
LEMMA DeliverKeeps ==
  ASSUME Types, RingThenEnd, EndOnItsWay, Deliver
  PROVE RingThenEnd' /\ EndOnItsWay'
<1>1. /\ wire # <<>> /\ wire' = Tail(wire) /\ wire \in Seq(Events)
      /\ UNCHANGED <<server, missed>>
  BY DEF Deliver, Types, ChannelTypes
<1>2. /\ Len(wire) >= 1 /\ Len(wire') = Len(wire) - 1 /\ wire' \in Seq(Events)
      /\ \A j \in 1..Len(wire') : wire'[j] = wire[j + 1]
      /\ Head(wire) = wire[1] /\ wire[1] \in Events
  BY <1>1
<1>3. ASSUME NEW c \in Calls, NEW i \in 1..Len(wire), News(c, i), i > 1 \/ Head(wire) # EndOf(c),
             NEW k \in Nat \ {0}, k < i \/ k = 1
      PROVE News(c, k)'
  <2>1. CASE c \in missed
    BY <1>1, <2>1 DEF News
  <2>2. CASE \E j \in i..Len(wire) : wire[j] = EndOf(c)
    <3>1. PICK j \in i..Len(wire) : wire[j] = EndOf(c)
      BY <2>2
    <3>2. j > 1
      BY <1>2, <1>3, <3>1
    <3>3. j - 1 \in k..Len(wire') /\ j - 1 \in 1..Len(wire')
      BY <1>1, <1>2, <1>3, <3>1, <3>2
    <3>4. wire'[j - 1] = EndOf(c)
      BY <1>2, <3>1, <3>3
    <3> QED BY <3>3, <3>4 DEF News, EndOf, Event
  <2> QED BY <1>3, <2>1, <2>2 DEF News
<1>4. RingThenEnd'
  <2> SUFFICES ASSUME NEW i \in 1..Len(wire'), NEW c \in Calls,
                      wire'[i] = Event("incoming", c), server'[c] = "ended"
               PROVE News(c, i)'
    BY DEF RingThenEnd, Event, News, EndOf
  <2>1. i + 1 \in 1..Len(wire) /\ wire[i + 1] = Event("incoming", c) /\ server[c] = "ended"
    BY <1>1, <1>2
  <2>2. News(c, i + 1)
    BY <2>1 DEF RingThenEnd
  <2> QED BY <1>2, <1>3, <2>1, <2>2
<1>5. EndOnItsWay'
  <2> SUFFICES ASSUME incoming' # None, server'[incoming'] = "ended" PROVE News(incoming, 1)'
    BY DEF EndOnItsWay
  <2> DEFINE ev == Head(wire)
  <2>1. ev \in Events
    BY <1>2
  <2>2. "call-ended" \in Kinds /\ "incoming" \in Kinds /\ "call-ended" # "incoming"
    BY DEF Kinds
  <2>3. CASE OnIncoming(ev)
    <3>1. PICK c \in Calls : c = ev.call /\ ev = Event("incoming", c)
      <4>1. ev.type = "incoming"
        BY <2>3 DEF OnIncoming
      <4> QED BY <2>1, <4>1, EventCases
    <3>2. incoming' = c
      BY <2>3, <3>1 DEF OnIncoming
    <3>3. 1 \in 1..Len(wire) /\ wire[1] = Event("incoming", c) /\ server[c] = "ended"
      BY <1>1, <1>2, <3>1, <3>2
    <3>4. News(c, 1)
      BY <3>3 DEF RingThenEnd
    <3>5. Head(wire) # EndOf(c)
      BY <2>2, <3>1, EventEqual DEF EndOf
    <3>6. News(c, 1)'
      BY <1>3, <3>3, <3>4, <3>5
    <3> QED BY <3>2, <3>6 DEF News
  <2>4. CASE ~OnIncoming(ev)
    <3>1. incoming' \in {incoming, None} /\ (ev.type = "call-ended" => incoming' # ev.call)
      BY <2>4 DEF Deliver, OnCallList, OnConnected, OnCallEnded, OnClaimed
    <3>2. PICK c \in Calls : c = incoming /\ c = incoming'
      BY <3>1 DEF Types, StoreTypes
    <3>3. server[c] = "ended"
      BY <1>1, <3>2
    <3>4. News(c, 1)
      BY <3>2, <3>3 DEF EndOnItsWay
    <3>5. Head(wire) # EndOf(c)
      BY <3>1, <3>2 DEF EndOf, Event
    <3>6. 1 \in 1..Len(wire)
      BY <1>1, <1>2
    <3>7. News(c, 1)'
      BY <1>3, <3>4, <3>5, <3>6
    <3> QED BY <3>2, <3>7 DEF News
  <2> QED BY <2>3, <2>4
<1> QED BY <1>4, <1>5

\* A stream that is lost loses the news on it; a new one starts without any.
LEMMA StreamKeeps ==
  ASSUME Types, RingThenEnd, EndOnItsWay, Subscribed \/ StreamFails \/ Unauthorized
  PROVE RingThenEnd' /\ EndOnItsWay'
<1>1. CASE Subscribed
  <2>1. /\ wire = <<>> /\ wire' = <<CallList(Live)>> /\ Len(wire') = 1
        /\ UNCHANGED <<server, missed, incoming>>
    BY <1>1 DEF Subscribed, Types, ChannelTypes
  <2>2. \A c \in Calls : Event("incoming", c) # CallList(Live)
    BY EventEqual DEF Kinds
  <2>3. RingThenEnd'
    <3> SUFFICES ASSUME NEW i \in 1..Len(wire'), NEW c \in Calls,
                        wire'[i] = Event("incoming", c)
                 PROVE FALSE
      BY DEF RingThenEnd, Event
    <3>1. wire'[i] = CallList(Live)
      BY <2>1
    <3> QED BY <2>2, <3>1
  <2>4. incoming # None /\ server[incoming] = "ended" => incoming \in missed
    BY <2>1 DEF EndOnItsWay, News
  <2> QED BY <2>1, <2>3, <2>4 DEF EndOnItsWay, News
<1>2. CASE StreamFails
  <2>1. /\ wire' = <<>> /\ missed' = missed \union Ends(wire) /\ wire \in Seq(Events)
        /\ UNCHANGED <<server, incoming>>
    BY <1>2 DEF StreamFails, Types, ChannelTypes
  <2>2. RingThenEnd'
    BY <2>1 DEF RingThenEnd
  <2>3. ASSUME NEW c \in Calls, News(c, 1) PROVE c \in missed'
    <3>1. CASE c \in missed
      BY <2>1, <3>1
    <3>2. CASE \E j \in 1..Len(wire) : wire[j] = EndOf(c)
      BY <2>1, <3>2, EndsType
    <3> QED BY <2>3, <3>1, <3>2 DEF News
  <2>4. EndOnItsWay'
    BY <2>1, <2>3 DEF EndOnItsWay, News, Types, StoreTypes
  <2> QED BY <2>2, <2>4
<1>3. CASE Unauthorized
  <2>1. wire' = <<>> /\ incoming' = None
    BY <1>3 DEF Unauthorized
  <2> QED BY <2>1 DEF RingThenEnd, EndOnItsWay
<1> QED BY <1>1, <1>2, <1>3

\* Every step keeps the order of rings and ends.
LEMMA RingNext ==
  ASSUME Types, RingThenEnd, EndOnItsWay, [Next]_vars
  PROVE RingThenEnd' /\ EndOnItsWay'
<1>1. CASE Deliver
  BY <1>1, DeliverKeeps
<1>2. CASE Subscribed \/ StreamFails \/ Unauthorized
  BY <1>2, StreamKeeps
<1>3. CASE ~Deliver /\ Silent
  <2>1. incoming' \in {incoming, None}
    BY <1>3, IncomingStep
  <2>2. UNCHANGED <<server, wire, missed>>
    BY <1>3 DEF Silent
  <2>3. RingThenEnd'
    BY <2>2 DEF RingThenEnd, News, Event, EndOf
  <2>4. EndOnItsWay'
    BY <2>1, <2>2 DEF EndOnItsWay, News, Event, EndOf
  <2> QED BY <2>3, <2>4
<1>4. CASE ~Deliver /\ \E events \in Seq(Events) : Quiet(events)
  BY <1>4, QuietKeeps, IncomingStep
<1>5. CASE ~Deliver /\ \E c \in Calls : BrokerEnds(c)
  BY <1>5, EndKeeps, IncomingStep
<1> QED BY <1>1, <1>2, <1>3, <1>4, <1>5, WireStep

-----------------------------------------------------------------------------
\* Every step keeps BrokerTypes.
LEMMA BrokerTypesNext ==
  BrokerTypes /\ [Next]_vars => BrokerTypes'
<1> SUFFICES ASSUME BrokerTypes, [Next]_vars PROVE BrokerTypes'
  OBVIOUS
<1> USE DEF BrokerTypes
<1>1. ASSUME NEW c \in Calls, Ring(c) PROVE BrokerTypes'
  BY <1>1 DEF Ring, Broadcast
<1>2. ASSUME NEW c \in Calls, Activate(c) PROVE BrokerTypes'
  BY <1>2 DEF Activate, Broadcast
<1>3. ASSUME NEW c \in Calls, PeerEnds(c) PROVE BrokerTypes'
  BY <1>3 DEF PeerEnds, BrokerEnds, Broadcast
<1>4. ASSUME NEW c \in Calls, OtherClaims(c) PROVE BrokerTypes'
  BY <1>4 DEF OtherClaims, Broadcast
<1>5. ASSUME NEW c \in Calls, StartScheduled(c) PROVE BrokerTypes'
  BY <1>5 DEF StartScheduled, Broadcast, Goto
<1>6. ASSUME NEW c \in Calls, Dial(c) PROVE BrokerTypes'
  BY <1>6 DEF Dial, Broadcast
<1>7. ASSUME NEW c \in Calls, EndCall(c) PROVE BrokerTypes'
  BY <1>7 DEF EndCall, BrokerEnds, Broadcast
<1>8. ASSUME NEW c \in Calls, RejectSettles(c) PROVE BrokerTypes'
  BY <1>8 DEF RejectSettles, EndIfLive, BrokerEnds, Broadcast
<1>9. ASSUME Stream PROVE BrokerTypes'
  BY <1>9 DEF Stream, TicketArrives, Subscribed, TicketFails, Unauthorized, StreamFails,
       Retry, Connect
<1>10. ASSUME Deliver PROVE BrokerTypes'
  BY <1>10 DEF Deliver, OnCallList, OnConnected, OnCallEnded, OnIncoming, OnClaimed
<1>11. ASSUME Answerer PROVE BrokerTypes'
  BY <1>11 DEF Answerer, NoticeIncoming, TimerFires, CancelTimer, NotOurs, ArmTimer,
       AnswerAtOnce, Answer, Goto
<1>12. ASSUME ClickAccept PROVE BrokerTypes'
  BY <1>12 DEF ClickAccept, Goto
<1>13. ASSUME ClickReject PROVE BrokerTypes'
  BY <1>13 DEF ClickReject
<1>14. ASSUME NEW p \in Askers \X Calls, Step(p) PROVE BrokerTypes'
  <2> SUFFICES ASSUME NEW a \in Askers, NEW c \in Calls, Step(<<a, c>>) PROVE BrokerTypes'
    <3>1. PICK a \in Askers, c \in Calls : p = <<a, c>>
      OBVIOUS
    <3> QED BY <1>14, <3>1
  <2>1. CASE RequestFails(<<a, c>>)
    BY <2>1 DEF RequestFails, Goto
  <2>2. CASE CheckOwner(<<a, c>>)
    BY <2>2 DEF CheckOwner, Goto, Conflict
  <2>3. CASE Claim(<<a, c>>)
    BY <2>3 DEF Claim, Goto, Conflict, Broadcast
  <2>4. CASE AcceptCall(<<a, c>>)
    BY <2>4 DEF AcceptCall, Goto, Broadcast
  <2>5. CASE ServerTalks(<<a, c>>)
    BY <2>5 DEF ServerTalks, Goto, Broadcast
  <2>6. CASE OpenCall(<<a, c>>)
    BY <2>6 DEF OpenCall, Goto, Conflict
  <2>7. CASE MicDenied(<<a, c>>)
    BY <2>7 DEF MicDenied, Goto, AfterFailure
  <2>8. CASE MicGranted(<<a, c>>)
    BY <2>8 DEF MicGranted, Goto, MicOn
  <2>9. CASE MediaFails(<<a, c>>)
    BY <2>9 DEF MediaFails, Goto, AfterFailure, MicOff
  <2>10. CASE Bridged(<<a, c>>)
    BY <2>10 DEF Bridged, Goto, AfterFailure
  <2>11. CASE Register(<<a, c>>)
    BY <2>11 DEF Register, Goto, MicOff
  <2>12. CASE HangUp(<<a, c>>)
    BY <2>12 DEF HangUp, Goto, EndIfLive, BrokerEnds, Broadcast
  <2> QED BY <2>1, <2>2, <2>3, <2>4, <2>5, <2>6, <2>7, <2>8, <2>9, <2>10, <2>11, <2>12 DEF Step
<1>15. CASE UNCHANGED vars
  BY <1>15 DEF vars
<1> QED BY <1>1, <1>2, <1>3, <1>4, <1>5, <1>6, <1>7, <1>8, <1>9, <1>10, <1>11, <1>12, <1>13,
     <1>14, <1>15 DEF Next

\* Every step keeps StoreTypes.
LEMMA StoreTypesNext ==
  Types /\ [Next]_vars => StoreTypes'
<1> SUFFICES ASSUME Types, [Next]_vars PROVE StoreTypes'
  OBVIOUS
<1> USE DEF Types, StoreTypes
<1>1. ASSUME NEW c \in Calls, Ring(c) PROVE StoreTypes'
  BY <1>1 DEF Ring, Broadcast
<1>2. ASSUME NEW c \in Calls, Activate(c) PROVE StoreTypes'
  BY <1>2 DEF Activate, Broadcast
<1>3. ASSUME NEW c \in Calls, PeerEnds(c) PROVE StoreTypes'
  BY <1>3 DEF PeerEnds, BrokerEnds, Broadcast
<1>4. ASSUME NEW c \in Calls, OtherClaims(c) PROVE StoreTypes'
  BY <1>4 DEF OtherClaims, Broadcast
<1>5. ASSUME NEW c \in Calls, StartScheduled(c) PROVE StoreTypes'
  BY <1>5 DEF StartScheduled, Broadcast, Goto
<1>6. ASSUME NEW c \in Calls, Dial(c) PROVE StoreTypes'
  BY <1>6 DEF Dial, Broadcast
<1>7. ASSUME NEW c \in Calls, EndCall(c) PROVE StoreTypes'
  BY <1>7 DEF EndCall, BrokerEnds, Broadcast
<1>8. ASSUME NEW c \in Calls, RejectSettles(c) PROVE StoreTypes'
  BY <1>8 DEF RejectSettles, EndIfLive, BrokerEnds, Broadcast
<1>9. ASSUME Stream PROVE StoreTypes'
  BY <1>9 DEF Stream, TicketArrives, Subscribed, TicketFails, Unauthorized, StreamFails,
       Retry, Connect
<1>10. ASSUME Deliver PROVE StoreTypes'
  <2> DEFINE ev == Head(wire)
  <2>1. ev \in Events
    BY <1>10 DEF Deliver, Types, ChannelTypes
  <2> QED BY <1>10, <2>1, EventCases DEF Deliver, OnCallList, OnConnected, OnCallEnded, OnIncoming,
       OnClaimed, Kinds
<1>11. ASSUME Answerer PROVE StoreTypes'
  BY <1>11 DEF Answerer, NoticeIncoming, TimerFires, CancelTimer, NotOurs, ArmTimer,
       AnswerAtOnce, Answer, Goto
<1>12. ASSUME ClickAccept PROVE StoreTypes'
  BY <1>12 DEF ClickAccept, Goto
<1>13. ASSUME ClickReject PROVE StoreTypes'
  BY <1>13 DEF ClickReject
<1>14. ASSUME NEW p \in Askers \X Calls, Step(p) PROVE StoreTypes'
  <2> SUFFICES ASSUME NEW a \in Askers, NEW c \in Calls, Step(<<a, c>>) PROVE StoreTypes'
    <3>1. PICK a \in Askers, c \in Calls : p = <<a, c>>
      OBVIOUS
    <3> QED BY <1>14, <3>1
  <2> QED BY
<1>14 DEF Step, RequestFails, CheckOwner, Claim, AcceptCall, ServerTalks, OpenCall,
       MicDenied, MicGranted, MediaFails, Bridged, Register, HangUp, Goto, Conflict,
       Broadcast, AfterFailure, MicOn, MicOff, EndIfLive, BrokerEnds
<1>15. CASE UNCHANGED vars
  BY <1>15 DEF vars
<1> QED BY <1>1, <1>2, <1>3, <1>4, <1>5, <1>6, <1>7, <1>8, <1>9, <1>10, <1>11, <1>12, <1>13,
     <1>14, <1>15 DEF Next

\* Every step keeps PageTypes.
LEMMA PageTypesNext ==
  Types /\ OneMic /\ [Next]_vars => PageTypes'
<1> SUFFICES ASSUME Types, OneMic, [Next]_vars PROVE PageTypes'
  OBVIOUS
<1> USE DEF Types, StoreTypes, PageTypes, Awaits
<1>1. ASSUME NEW c \in Calls, Ring(c) PROVE PageTypes'
  BY <1>1 DEF Ring, Broadcast
<1>2. ASSUME NEW c \in Calls, Activate(c) PROVE PageTypes'
  BY <1>2 DEF Activate, Broadcast
<1>3. ASSUME NEW c \in Calls, PeerEnds(c) PROVE PageTypes'
  BY <1>3 DEF PeerEnds, BrokerEnds, Broadcast
<1>4. ASSUME NEW c \in Calls, OtherClaims(c) PROVE PageTypes'
  BY <1>4 DEF OtherClaims, Broadcast
<1>5. ASSUME NEW c \in Calls, StartScheduled(c) PROVE PageTypes'
  BY <1>5 DEF StartScheduled, Broadcast, Goto
<1>6. ASSUME NEW c \in Calls, Dial(c) PROVE PageTypes'
  BY <1>6 DEF Dial, Broadcast
<1>7. ASSUME NEW c \in Calls, EndCall(c) PROVE PageTypes'
  BY <1>7 DEF EndCall, BrokerEnds, Broadcast
<1>8. ASSUME NEW c \in Calls, RejectSettles(c) PROVE PageTypes'
  BY <1>8 DEF RejectSettles, EndIfLive, BrokerEnds, Broadcast
<1>9. ASSUME Stream PROVE PageTypes'
  <2>1. CASE TicketArrives
    BY <2>1 DEF TicketArrives, Connect
  <2>2. CASE Subscribed
    BY <2>2 DEF Subscribed, Connect
  <2>3. CASE TicketFails
    BY <2>3 DEF TicketFails
  <2>4. CASE Unauthorized
    BY <2>4 DEF Unauthorized
  <2>5. CASE StreamFails
    BY <2>5 DEF StreamFails
  <2>6. CASE Retry
    BY <2>6 DEF Retry
  <2> QED BY <1>9, <2>1, <2>2, <2>3, <2>4, <2>5, <2>6 DEF Stream, Connect
<1>10. ASSUME Deliver PROVE PageTypes'
  <2>1. PICK ev \in Events : ev = Head(wire)
    BY <1>10 DEF Deliver, ChannelTypes
  <2>2. CASE ev.type = "call-ended" /\ ev.call \in conns
    <3>1. ev.call \in Calls /\ mics[ev.call] = 1
      BY <2>2 DEF StoreTypes, OneMic, HasMic
    <3>2. mics' = [mics EXCEPT ![ev.call] = 0]
      BY <1>10, <2>1, <2>2, <3>1 DEF Deliver, OnCallList, OnConnected, OnCallEnded,
              OnIncoming, OnClaimed
    <3>3. mics' \in [Calls -> Nat]
      BY <3>1, <3>2
    <3> QED BY <1>10, <3>3 DEF Deliver
  <2>3. CASE ~(ev.type = "call-ended" /\ ev.call \in conns)
    BY <1>10, <2>1, <2>3 DEF Deliver, OnCallList, OnConnected, OnCallEnded, OnIncoming,
            OnClaimed
  <2> QED BY <2>2, <2>3
<1>11. ASSUME Answerer PROVE PageTypes'
  <2>1. CASE NoticeIncoming
    BY <2>1 DEF NoticeIncoming
  <2>2. CASE TimerFires
    BY <2>2 DEF TimerFires, Answer, Goto
  <2>3. CASE CancelTimer
    BY <2>3 DEF CancelTimer
  <2>4. CASE \E c \in Calls : NotOurs(c)
    BY <2>4 DEF NotOurs
  <2>5. CASE \E c \in Calls : ArmTimer(c)
    BY <2>5 DEF ArmTimer
  <2>6. CASE \E c \in Calls : AnswerAtOnce(c)
    BY <2>6 DEF AnswerAtOnce, Answer, Goto
  <2> QED BY <1>11, <2>1, <2>2, <2>3, <2>4, <2>5, <2>6 DEF Answerer
<1>12. ASSUME ClickAccept PROVE PageTypes'
  BY <1>12 DEF ClickAccept, Goto
<1>13. ASSUME ClickReject PROVE PageTypes'
  BY <1>13 DEF ClickReject
<1>14. ASSUME NEW p \in Askers \X Calls, Step(p) PROVE PageTypes'
  <2> SUFFICES ASSUME NEW a \in Askers, NEW c \in Calls, Step(<<a, c>>) PROVE PageTypes'
    <3>1. PICK a \in Askers, c \in Calls : p = <<a, c>>
      OBVIOUS
    <3> QED BY <1>14, <3>1
  <2>1. CASE RequestFails(<<a, c>>)
    BY <2>1 DEF RequestFails, Goto
  <2>2. CASE CheckOwner(<<a, c>>)
    BY <2>2 DEF CheckOwner, Goto, Conflict
  <2>3. CASE Claim(<<a, c>>)
    BY <2>3 DEF Claim, Goto, Conflict, Broadcast
  <2>4. CASE AcceptCall(<<a, c>>)
    BY <2>4 DEF AcceptCall, Goto
  <2>5. CASE ServerTalks(<<a, c>>)
    BY <2>5 DEF ServerTalks, Goto
  <2>6. CASE OpenCall(<<a, c>>)
    BY <2>6 DEF OpenCall, Goto
  <2>7. CASE MicDenied(<<a, c>>)
    BY <2>7 DEF MicDenied, Goto, AfterFailure
  <2>8. CASE MicGranted(<<a, c>>)
    BY <2>8 DEF MicGranted, Goto, MicOn
  <2>9. CASE MediaFails(<<a, c>>)
    <3>1. mics[c] = 1
      BY <2>9 DEF MediaFails, OneMic, HasMic
    <3>2. mics' \in [Calls -> Nat]
      BY <2>9, <3>1 DEF MediaFails, MicOff
    <3> QED BY <2>9, <3>2 DEF MediaFails, Goto, AfterFailure, Awaits
  <2>10. CASE Bridged(<<a, c>>)
    BY <2>10 DEF Bridged, Goto
  <2>11. CASE Register(<<a, c>>)
    BY <2>11 DEF Register, Goto
  <2>12. CASE HangUp(<<a, c>>)
    BY <2>12 DEF HangUp, Goto, EndIfLive, BrokerEnds, Broadcast
  <2> QED BY <2>1, <2>2, <2>3, <2>4, <2>5, <2>6, <2>7, <2>8, <2>9, <2>10, <2>11, <2>12
       DEF Step
<1>15. CASE UNCHANGED vars
  BY <1>15 DEF vars
<1> QED BY <1>1, <1>2, <1>3, <1>4, <1>5, <1>6, <1>7, <1>8, <1>9, <1>10, <1>11, <1>12, <1>13,
     <1>14, <1>15 DEF Next

\* Goto moves one mutation.
LEMMA GotoAt ==
  ASSUME PageTypes, NEW a \in Askers, NEW c \in Calls, NEW label, Goto(<<a, c>>, label)
  PROVE /\ pc'[<<a, c>>] = label
        /\ \A b \in Askers : \A d \in Calls :
             b # a \/ d # c => pc'[<<b, d>>] = pc[<<b, d>>]
BY DEF PageTypes, Goto

\* What a mutation's move says of the microphones.
LEMMA GotoMic ==
  ASSUME PageTypes, NEW a \in Askers, NEW c \in Calls, NEW label, Goto(<<a, c>>, label),
         conns' = conns
  PROVE /\ \A d \in Calls : d # c => HasMic(d)' = HasMic(d)
        /\ HasMic(c)' <=> \/ c \in conns \/ label \in {"sdp", "answer"}
                          \/ \E b \in Askers \ {a} : pc[<<b, c>>] \in {"sdp", "answer"}
<1>1. ASSUME NEW d \in Calls, d # c PROVE HasMic(d)' = HasMic(d)
  <2>1. \A b \in Askers : pc'[<<b, d>>] = pc[<<b, d>>]
    BY <1>1, GotoAt
  <2> QED BY <2>1 DEF HasMic
<1>2. /\ pc'[<<a, c>>] = label
      /\ \A b \in Askers \ {a} : pc'[<<b, c>>] = pc[<<b, c>>]
  BY GotoAt
<1>3. HasMic(c)' <=> \/ c \in conns \/ label \in {"sdp", "answer"}
                    \/ \E b \in Askers \ {a} : pc[<<b, c>>] \in {"sdp", "answer"}
  BY <1>2 DEF HasMic
<1> QED BY <1>1, <1>3

\* Every step keeps OneMedia.
LEMMA OneMediaNext ==
  Types /\ OneMedia /\ [Next]_vars => OneMedia'
<1> SUFFICES ASSUME Types, OneMedia, [Next]_vars PROVE OneMedia'
  OBVIOUS
<1> USE DEF Types, BrokerTypes, StoreTypes, PageTypes, OneMedia, Media
<1>1. ASSUME NEW c \in Calls, Ring(c) PROVE OneMedia'
  BY <1>1 DEF Ring, Broadcast
<1>2. ASSUME NEW c \in Calls, Activate(c) PROVE OneMedia'
  BY <1>2 DEF Activate, Broadcast
<1>3. ASSUME NEW c \in Calls, PeerEnds(c) PROVE OneMedia'
  BY <1>3 DEF PeerEnds, BrokerEnds, Broadcast
<1>4. ASSUME NEW c \in Calls, OtherClaims(c) PROVE OneMedia'
  BY <1>4 DEF OtherClaims, Broadcast
<1>5. ASSUME NEW c \in Calls, StartScheduled(c) PROVE OneMedia'
  BY <1>5 DEF StartScheduled, Broadcast, Goto
<1>6. ASSUME NEW c \in Calls, Dial(c) PROVE OneMedia'
  BY <1>6 DEF Dial, Broadcast
<1>7. ASSUME NEW c \in Calls, EndCall(c) PROVE OneMedia'
  BY <1>7 DEF EndCall, BrokerEnds, Broadcast
<1>8. ASSUME NEW c \in Calls, RejectSettles(c) PROVE OneMedia'
  BY <1>8 DEF RejectSettles, EndIfLive, BrokerEnds, Broadcast
<1>9. ASSUME Stream PROVE OneMedia'
  <2>1. CASE TicketArrives
    BY <2>1 DEF TicketArrives, Connect
  <2>2. CASE Subscribed
    BY <2>2 DEF Subscribed, Connect
  <2>3. CASE TicketFails
    BY <2>3 DEF TicketFails
  <2>4. CASE Unauthorized
    BY <2>4 DEF Unauthorized
  <2>5. CASE StreamFails
    BY <2>5 DEF StreamFails
  <2>6. CASE Retry
    BY <2>6 DEF Retry
  <2> QED BY <1>9, <2>1, <2>2, <2>3, <2>4, <2>5, <2>6 DEF Stream, Connect
<1>10. ASSUME Deliver PROVE OneMedia'
  BY <1>10 DEF Deliver, OnCallList, OnConnected, OnCallEnded, OnIncoming, OnClaimed
<1>11. ASSUME Answerer PROVE OneMedia'
  <2>1. CASE NoticeIncoming
    BY <2>1 DEF NoticeIncoming
  <2>2. CASE TimerFires
    <3>1. server' = server /\ accepted' = accepted /\ conns' = conns
      BY <2>2 DEF TimerFires
    <3>2. PICK c \in Calls : pc' = pc \/ Goto(<<"auto", c>>, "check")
      BY <2>2 DEF TimerFires, Answer
    <3>3. CASE pc' = pc
      BY <3>1, <3>3
    <3>4. CASE Goto(<<"auto", c>>, "check")
      BY <3>1, <3>4, GotoAt DEF Askers
    <3> QED BY <3>2, <3>3, <3>4
  <2>3. CASE CancelTimer
    BY <2>3 DEF CancelTimer
  <2>4. CASE \E c \in Calls : NotOurs(c)
    BY <2>4 DEF NotOurs
  <2>5. CASE \E c \in Calls : ArmTimer(c)
    BY <2>5 DEF ArmTimer
  <2>6. CASE \E c \in Calls : AnswerAtOnce(c)
    <3>1. server' = server /\ accepted' = accepted /\ conns' = conns
      BY <2>6 DEF AnswerAtOnce
    <3>2. PICK c \in Calls : pc' = pc \/ Goto(<<"auto", c>>, "check")
      BY <2>6 DEF AnswerAtOnce, Answer
    <3>3. CASE pc' = pc
      BY <3>1, <3>3
    <3>4. CASE Goto(<<"auto", c>>, "check")
      BY <3>1, <3>4, GotoAt DEF Askers
    <3> QED BY <3>2, <3>3, <3>4
  <2> QED BY <1>11, <2>1, <2>2, <2>3, <2>4, <2>5, <2>6 DEF Answerer
<1>12. ASSUME ClickAccept PROVE OneMedia'
  BY <1>12 DEF ClickAccept, Goto
<1>13. ASSUME ClickReject PROVE OneMedia'
  BY <1>13 DEF ClickReject
<1>14. ASSUME NEW p \in Askers \X Calls, Step(p) PROVE OneMedia'
  <2> SUFFICES ASSUME NEW a \in Askers, NEW c \in Calls, Step(<<a, c>>) PROVE OneMedia'
    <3>1. PICK a \in Askers, c \in Calls : p = <<a, c>>
      OBVIOUS
    <3> QED BY <1>14, <3>1
  <2>1. CASE RequestFails(<<a, c>>)
    BY <2>1 DEF RequestFails, Goto
  <2>2. CASE CheckOwner(<<a, c>>)
    BY <2>2 DEF CheckOwner, Goto, Conflict
  <2>3. CASE Claim(<<a, c>>)
    <3>1. server' = server /\ accepted' = accepted /\ conns' = conns
      BY <2>3 DEF Claim, Conflict
    <3>2. PICK label \in {"idle", "accept"} : Goto(<<a, c>>, label)
      BY <2>3 DEF Claim, Conflict
    <3>3. \A d \in Calls : \A b \in Askers : pc'[<<b, d>>] \in Media => pc[<<b, d>>] \in Media
      BY <3>2, GotoAt
    <3> QED BY <3>1, <3>3
  <2>4. CASE AcceptCall(<<a, c>>)
    BY <2>4 DEF AcceptCall, Goto
  <2>5. CASE ServerTalks(<<a, c>>)
    BY <2>5 DEF ServerTalks, Goto
  <2>6. CASE OpenCall(<<a, c>>)
    BY <2>6 DEF OpenCall, Goto
  <2>7. CASE MicDenied(<<a, c>>)
    BY <2>7 DEF MicDenied, Goto, AfterFailure
  <2>8. CASE MicGranted(<<a, c>>)
    BY <2>8 DEF MicGranted, Goto, MicOn
  <2>9. CASE MediaFails(<<a, c>>)
    BY <2>9 DEF MediaFails, Goto, MicOff, AfterFailure
  <2>10. CASE Bridged(<<a, c>>)
    BY <2>10 DEF Bridged, Goto
  <2>11. CASE Register(<<a, c>>)
    BY <2>11 DEF Register, Goto
  <2>12. CASE HangUp(<<a, c>>)
    BY <2>12 DEF HangUp, Goto, EndIfLive, BrokerEnds, Broadcast
  <2> QED BY <2>1, <2>2, <2>3, <2>4, <2>5, <2>6, <2>7, <2>8, <2>9, <2>10, <2>11, <2>12
       DEF Step
<1>15. CASE UNCHANGED vars
  BY <1>15 DEF vars
<1> QED BY <1>1, <1>2, <1>3, <1>4, <1>5, <1>6, <1>7, <1>8, <1>9, <1>10, <1>11, <1>12, <1>13,
     <1>14, <1>15 DEF Next

\* Every step keeps OneMic.
LEMMA OneMicNext ==
  Types /\ OneMedia /\ OneMic /\ [Next]_vars => OneMic'
<1> SUFFICES ASSUME Types, OneMedia, OneMic, [Next]_vars PROVE OneMic'
  OBVIOUS
<1> USE DEF Types, StoreTypes, PageTypes, OneMic, HasMic
<1>1. ASSUME NEW c \in Calls, Ring(c) PROVE OneMic'
  BY <1>1 DEF Ring, Broadcast
<1>2. ASSUME NEW c \in Calls, Activate(c) PROVE OneMic'
  BY <1>2 DEF Activate, Broadcast
<1>3. ASSUME NEW c \in Calls, PeerEnds(c) PROVE OneMic'
  BY <1>3 DEF PeerEnds, BrokerEnds, Broadcast
<1>4. ASSUME NEW c \in Calls, OtherClaims(c) PROVE OneMic'
  BY <1>4 DEF OtherClaims, Broadcast
<1>5. ASSUME NEW c \in Calls, StartScheduled(c) PROVE OneMic'
  <2>1. pc[<<"start", c>>] \notin Media
    BY <1>5 DEF StartScheduled, OneMedia, Askers
  <2>2. Goto(<<"start", c>>, "config") /\ mics' = mics /\ conns' = conns
    BY <1>5 DEF StartScheduled
  <2>3. ASSUME NEW d \in Calls PROVE HasMic(d)' = HasMic(d)
    BY <2>1, <2>2, GotoAt DEF Media, Askers
  <2> QED BY <2>2, <2>3
<1>6. ASSUME NEW c \in Calls, Dial(c) PROVE OneMic'
  BY <1>6 DEF Dial, Broadcast
<1>7. ASSUME NEW c \in Calls, EndCall(c) PROVE OneMic'
  BY <1>7 DEF EndCall, BrokerEnds, Broadcast
<1>8. ASSUME NEW c \in Calls, RejectSettles(c) PROVE OneMic'
  BY <1>8 DEF RejectSettles, EndIfLive, BrokerEnds, Broadcast
<1>9. ASSUME Stream PROVE OneMic'
  <2>1. CASE TicketArrives
    BY <2>1 DEF TicketArrives, Connect
  <2>2. CASE Subscribed
    BY <2>2 DEF Subscribed, Connect
  <2>3. CASE TicketFails
    BY <2>3 DEF TicketFails
  <2>4. CASE Unauthorized
    BY <2>4 DEF Unauthorized
  <2>5. CASE StreamFails
    BY <2>5 DEF StreamFails
  <2>6. CASE Retry
    BY <2>6 DEF Retry
  <2> QED BY <1>9, <2>1, <2>2, <2>3, <2>4, <2>5, <2>6 DEF Stream, Connect
<1>10. ASSUME Deliver PROVE OneMic'
  <2>1. PICK ev \in Events : ev = Head(wire)
    BY <1>10 DEF Deliver, ChannelTypes
  <2>2. CASE ev.type = "call-ended" /\ ev.call \in conns
    <3>1. PICK c \in Calls : c = ev.call
      BY <2>2
    <3>2. mics[c] = 1 /\ c \in conns
      BY <2>2, <3>1
    <3>3. \A a \in Askers : pc[<<a, c>>] \notin {"sdp", "answer"}
      BY <3>2 DEF OneMedia, Media
    <3>4. mics' = [mics EXCEPT ![c] = 0] /\ conns' = conns \ {c} /\ pc' = pc
      BY <1>10, <2>1, <2>2, <3>1, <3>2
         DEF Deliver, OnCallList, OnConnected, OnCallEnded, OnIncoming, OnClaimed
    <3> QED BY <3>2, <3>3, <3>4
  <2>3. CASE ~(ev.type = "call-ended" /\ ev.call \in conns)
    <3>1. mics' = mics /\ conns' = conns /\ pc' = pc
      BY <1>10, <2>1, <2>3 DEF Deliver, OnCallList, OnConnected, OnCallEnded,
              OnIncoming, OnClaimed
    <3> QED BY <3>1
  <2> QED BY <2>2, <2>3
<1>11. ASSUME Answerer PROVE OneMic'
  <2>1. CASE NoticeIncoming
    BY <2>1 DEF NoticeIncoming
  <2>2. CASE TimerFires
    BY <2>2 DEF TimerFires, Answer, Goto
  <2>3. CASE CancelTimer
    BY <2>3 DEF CancelTimer
  <2>4. CASE \E c \in Calls : NotOurs(c)
    BY <2>4 DEF NotOurs
  <2>5. CASE \E c \in Calls : ArmTimer(c)
    BY <2>5 DEF ArmTimer
  <2>6. CASE \E c \in Calls : AnswerAtOnce(c)
    BY <2>6 DEF AnswerAtOnce, Answer, Goto
  <2> QED BY <1>11, <2>1, <2>2, <2>3, <2>4, <2>5, <2>6 DEF Answerer
<1>12. ASSUME ClickAccept PROVE OneMic'
  <2>1. PICK c \in Calls : c = incoming /\ pc[<<"modal", c>>] = "idle"
    BY <1>12 DEF ClickAccept, ModalBusy
  <2>2. Goto(<<"modal", c>>, "check") /\ mics' = mics /\ conns' = conns
    BY <1>12, <2>1 DEF ClickAccept
  <2>3. ASSUME NEW d \in Calls PROVE HasMic(d)' = HasMic(d)
    BY <2>1, <2>2, GotoAt DEF Askers
  <2> QED BY <2>2, <2>3
<1>13. ASSUME ClickReject PROVE OneMic'
  BY <1>13 DEF ClickReject
<1>14. ASSUME NEW p \in Askers \X Calls, Step(p) PROVE OneMic'
  <2> SUFFICES ASSUME NEW a \in Askers, NEW c \in Calls, Step(<<a, c>>) PROVE OneMic'
    <3>1. PICK a \in Askers, c \in Calls : p = <<a, c>>
      OBVIOUS
    <3> QED BY <1>14, <3>1
  <2>1. CASE RequestFails(<<a, c>>)
    BY <2>1 DEF RequestFails, Goto
  <2>2. CASE CheckOwner(<<a, c>>)
    <3>1. pc[<<a, c>>] = "check" /\ conns' = conns /\ mics' = mics
      BY <2>2 DEF CheckOwner, Conflict
    <3>2. PICK label \in {"idle", "claim"} : Goto(<<a, c>>, label)
      BY <2>2 DEF CheckOwner, Conflict
    <3>3. \A d \in Calls : d # c => HasMic(d)' = HasMic(d)
      BY <3>1, <3>2, GotoMic
    <3>4. HasMic(c)' <=> HasMic(c)
      <4>1. HasMic(c)' <=> \/ c \in conns
                          \/ \E b \in Askers \ {a} : pc[<<b, c>>] \in {"sdp", "answer"}
        BY <3>1, <3>2, GotoMic
      <4> QED BY <3>1, <4>1 DEF HasMic
    <3> QED BY <3>1, <3>3, <3>4
  <2>3. CASE Claim(<<a, c>>)
    <3>1. pc[<<a, c>>] = "claim" /\ conns' = conns /\ mics' = mics
      BY <2>3 DEF Claim, Conflict
    <3>2. PICK label \in {"idle", "accept"} : Goto(<<a, c>>, label)
      BY <2>3 DEF Claim, Conflict
    <3>3. \A d \in Calls : d # c => HasMic(d)' = HasMic(d)
      BY <3>1, <3>2, GotoMic
    <3>4. HasMic(c)' <=> HasMic(c)
      <4>1. HasMic(c)' <=> \/ c \in conns
                          \/ \E b \in Askers \ {a} : pc[<<b, c>>] \in {"sdp", "answer"}
        BY <3>1, <3>2, GotoMic
      <4> QED BY <3>1, <4>1 DEF HasMic
    <3> QED BY <3>1, <3>3, <3>4
  <2>4. CASE AcceptCall(<<a, c>>)
    BY <2>4 DEF AcceptCall, Goto
  <2>5. CASE ServerTalks(<<a, c>>)
    BY <2>5 DEF ServerTalks, Goto
  <2>6. CASE OpenCall(<<a, c>>)
    BY <2>6 DEF OpenCall, Goto
  <2>7. CASE MicDenied(<<a, c>>)
    BY <2>7 DEF MicDenied, Goto, AfterFailure
  <2>8. CASE MicGranted(<<a, c>>)
    <3>1. pc[<<a, c>>] = "mic" /\ Goto(<<a, c>>, "sdp") /\ conns' = conns
      BY <2>8 DEF MicGranted
    <3>2. c \notin conns /\ \A b \in Askers : pc[<<b, c>>] \notin {"sdp", "answer"}
      BY <3>1 DEF OneMedia, Media
    <3>3. mics[c] = 0
      BY <3>2
    <3>4. mics' = [mics EXCEPT ![c] = 1]
      BY <2>8, <3>3 DEF MicGranted, MicOn
    <3>5. \A d \in Calls : d # c => HasMic(d)' = HasMic(d)
      BY <3>1, GotoMic
    <3>6. HasMic(c)'
      BY <3>1, GotoMic
    <3> QED BY <3>4, <3>5, <3>6
  <2>9. CASE MediaFails(<<a, c>>)
    <3>1. pc[<<a, c>>] \in {"sdp", "answer"} /\ conns' = conns
      BY <2>9 DEF MediaFails
    <3>2. PICK label \in {"idle", "hangup"} : Goto(<<a, c>>, label)
      BY <2>9 DEF MediaFails, AfterFailure
    <3>3. c \notin conns /\ \A b \in Askers \ {a} : pc[<<b, c>>] \notin {"sdp", "answer"}
      BY <3>1 DEF OneMedia, Media
    <3>4. mics' = [mics EXCEPT ![c] = 0]
      <4>1. mics[c] = 1
        BY <3>1
      <4> QED BY <2>9, <4>1 DEF MediaFails, MicOff
    <3>5. \A d \in Calls : d # c => HasMic(d)' = HasMic(d)
      BY <3>1, <3>2, GotoMic
    <3>6. ~HasMic(c)'
      BY <3>1, <3>2, <3>3, GotoMic
    <3> QED BY <3>4, <3>5, <3>6
  <2>10. CASE Bridged(<<a, c>>)
    BY <2>10 DEF Bridged, Goto
  <2>11. CASE Register(<<a, c>>)
    BY <2>11 DEF Register, Goto
  <2>12. CASE HangUp(<<a, c>>)
    BY <2>12 DEF HangUp, Goto, EndIfLive, BrokerEnds, Broadcast
  <2> QED BY <2>1, <2>2, <2>3, <2>4, <2>5, <2>6, <2>7, <2>8, <2>9, <2>10, <2>11, <2>12
       DEF Step
<1>15. CASE UNCHANGED vars
  BY <1>15 DEF vars
<1> QED BY <1>1, <1>2, <1>3, <1>4, <1>5, <1>6, <1>7, <1>8, <1>9, <1>10, <1>11, <1>12, <1>13,
     <1>14, <1>15 DEF Next

-----------------------------------------------------------------------------
(* Rings and claims. *)

\* What the broker has begun it does not forget.
LEMMA StatusKept ==
  ASSUME BrokerTypes, [Next]_vars, NEW c \in Calls, server[c] # "none"
  PROVE server'[c] # "none"
<1> USE DEF BrokerTypes
<1>1. ASSUME NEW p \in Askers \X Calls, Step(p) PROVE server'[c] # "none"
  BY <1>1 DEF Step, RequestFails, CheckOwner, Claim, AcceptCall, ServerTalks, OpenCall, MicDenied,
       MicGranted, MediaFails, Bridged, Register, HangUp, Conflict, EndIfLive, BrokerEnds
<1>2. ASSUME Stream \/ Answerer PROVE server'[c] # "none"
  BY <1>2 DEF Stream, Connect, TicketArrives, Subscribed, TicketFails, Unauthorized, StreamFails,
       Retry, Answerer, NoticeIncoming, TimerFires, CancelTimer, NotOurs, ArmTimer, AnswerAtOnce
<1> QED BY <1>1, <1>2 DEF Next, Ring, Activate, PeerEnds, OtherClaims, StartScheduled, Dial,
     EndCall, RejectSettles, EndIfLive, BrokerEnds, ClickAccept, ClickReject, Deliver, vars

\* A broadcast keeps RingsOnce, if the only ring in it is that of a new call.
LEMMA BroadcastRings ==
  ASSUME Types, RingsOnce, [Next]_vars, NEW events \in Seq(Events), Broadcast(events),
         incoming' \in {incoming, None},
         \A i \in 1..Len(events) : \A c \in Calls :
           events[i] = Rung(c) => Starts(c) /\ i = Len(events)
  PROVE RingsOnce'
<1>1. ChannelTypes /\ BrokerTypes /\ wire \in Seq(Events) /\ wire' \in Seq(Events)
  BY BroadcastShape DEF Types, ChannelTypes
<1>2. ASSUME NEW i \in 1..Len(wire'), i \notin 1..Len(wire), NEW c \in Calls, wire'[i] = Rung(c)
      PROVE Starts(c) /\ i - Len(wire) = Len(events)
  <2>1. i \in Len(wire) + 1..Len(wire')
    BY <1>1, <1>2
  <2> QED BY <1>1, <1>2, <2>1, BroadcastShape
<1>3. ASSUME NEW i \in 1..Len(wire), NEW c \in Calls, wire'[i] = Rung(c)
      PROVE wire[i] = Rung(c) /\ server[c] # "none" /\ server'[c] # "none" /\ incoming # c
  BY <1>1, <1>3, BroadcastShape, StatusKept DEF RingsOnce
<1>4. ASSUME NEW i \in 1..Len(wire'), NEW c \in Calls, wire'[i] = Rung(c)
      PROVE /\ c \in Inbound /\ server'[c] # "none" /\ incoming' # c
            /\ \A j \in 1..Len(wire') : wire'[j] = Rung(c) => i = j
  <2>1. CASE i \in 1..Len(wire)
    <3>1. c \in Inbound /\ server'[c] # "none" /\ incoming' # c
      BY <1>3, <1>4, <2>1, CallsAssumption DEF RingsOnce
    <3>2. ASSUME NEW j \in 1..Len(wire'), wire'[j] = Rung(c) PROVE i = j
      BY <1>2, <1>3, <1>4, <2>1, <3>2 DEF RingsOnce, Starts
    <3> QED BY <3>1, <3>2
  <2>2. CASE i \notin 1..Len(wire)
    <3>1. Starts(c) /\ i - Len(wire) = Len(events)
      BY <1>2, <1>4, <2>2
    <3>2. c \in Inbound /\ server'[c] # "none" /\ incoming' # c
      BY <3>1, CallsAssumption DEF RingsOnce, Starts
    <3>3. ASSUME NEW j \in 1..Len(wire'), wire'[j] = Rung(c) PROVE i = j
      <4>1. j \notin 1..Len(wire)
        BY <1>3, <3>1, <3>3 DEF Starts
      <4>2. j - Len(wire) = Len(events)
        BY <1>2, <3>3, <4>1
      <4> QED BY <1>1, <3>1, <4>2
    <3> QED BY <3>2, <3>3
  <2> QED BY <2>1, <2>2
<1>5. incoming' # None => incoming' \in Inbound /\ server'[incoming'] # "none"
  <2>1. CASE incoming' = incoming /\ incoming # None
    <3>1. PICK c \in Calls : c = incoming
      BY <2>1 DEF Types, StoreTypes
    <3> QED BY <1>1, <2>1, <3>1, StatusKept DEF RingsOnce
  <2> QED BY <2>1
<1> QED BY <1>4, <1>5 DEF RingsOnce, Rung, Event

\* An event that is delivered rings the call it names, which has no other ring.
LEMMA DeliverRings ==
  ASSUME Types, RingsOnce, Deliver
  PROVE RingsOnce'
<1>1. /\ wire # <<>> /\ wire' = Tail(wire) /\ wire \in Seq(Events) /\ server' = server
      /\ \A j \in 1..Len(wire') : wire'[j] = wire[j + 1] /\ j + 1 \in 1..Len(wire)
      /\ 1 \in 1..Len(wire) /\ Head(wire) = wire[1] /\ wire[1] \in Events
  BY DEF Deliver, Types, ChannelTypes
<1>2. ASSUME NEW i \in 1..Len(wire'), NEW c \in Calls, wire'[i] = Rung(c)
      PROVE /\ c \in Inbound /\ server'[c] # "none" /\ incoming # c /\ wire[1] # Rung(c)
            /\ \A j \in 1..Len(wire') : wire'[j] = Rung(c) => i = j
  <2>1. i + 1 \in 1..Len(wire) /\ wire[i + 1] = Rung(c) /\ i + 1 # 1
    BY <1>1, <1>2
  <2>2. c \in Inbound /\ server[c] # "none" /\ incoming # c /\ wire[1] # Rung(c)
    BY <1>1, <2>1 DEF RingsOnce
  <2>3. ASSUME NEW j \in 1..Len(wire'), wire'[j] = Rung(c) PROVE i = j
    <3>1. j + 1 \in 1..Len(wire) /\ wire[j + 1] = Rung(c)
      BY <1>1, <2>3
    <3>2. i + 1 = j + 1
      BY <2>1, <3>1 DEF RingsOnce
    <3> QED BY <3>2
  <2> QED BY <1>1, <2>2, <2>3
<1>3. CASE OnIncoming(Head(wire))
  <2>1. PICK c \in Calls : wire[1] = Rung(c) /\ incoming' = c
    <3>1. wire[1].type = "incoming" /\ incoming' = wire[1].call
      BY <1>1, <1>3 DEF OnIncoming
    <3> QED BY <1>1, <3>1, EventCases DEF Rung
  <2>2. c \in Inbound /\ server[c] # "none"
    BY <1>1, <2>1 DEF RingsOnce
  <2>3. ASSUME NEW i \in 1..Len(wire'), NEW d \in Calls, wire'[i] = Rung(d)
        PROVE incoming' # d
    BY <1>2, <2>1, <2>3
  <2> QED BY <1>1, <1>2, <2>1, <2>2, <2>3 DEF RingsOnce, Rung, Event
<1>4. CASE ~OnIncoming(Head(wire))
  <2>1. incoming' \in {incoming, None}
    BY <1>4 DEF Deliver, OnCallList, OnConnected, OnCallEnded, OnClaimed
  <2> QED BY <1>1, <1>2, <2>1, CallsAssumption DEF RingsOnce, Rung, Event
<1> QED BY <1>3, <1>4

\* Every step keeps RingsOnce.
LEMMA RingsOnceNext ==
  ASSUME Types, RingsOnce, [Next]_vars
  PROVE RingsOnce'
<1>1. CASE Deliver
  BY <1>1, DeliverRings
<1>2. CASE Subscribed
  <2>1. /\ wire' = <<CallList(Live)>> /\ Len(wire') = 1 /\ UNCHANGED <<server, incoming>>
    BY <1>2 DEF Subscribed
  <2>2. \A c \in Calls : Rung(c) # CallList(Live)
    BY EventEqual DEF Kinds, Rung
  <2>3. ASSUME NEW i \in 1..Len(wire'), NEW c \in Calls, wire'[i] = Rung(c) PROVE FALSE
    BY <2>1, <2>2, <2>3
  <2> QED BY <2>1, <2>3 DEF RingsOnce, Rung, Event
<1>3. CASE StreamFails \/ Unauthorized
  BY <1>3 DEF StreamFails, Unauthorized, RingsOnce
<1>4. CASE ~Deliver /\ Silent
  <2>1. incoming' \in {incoming, None} /\ server' = server /\ wire' = wire
    BY <1>4, IncomingStep DEF Silent
  <2> QED BY <2>1, CallsAssumption DEF RingsOnce, Rung, Event
<1>5. CASE ~Deliver /\ \E events \in Seq(Events) : Quiet(events)
  BY <1>5, IncomingStep, BroadcastRings DEF Quiet, Rung
<1>6. CASE ~Deliver /\ \E c \in Calls : BrokerEnds(c)
  <2>1. PICK c \in Calls : BrokerEnds(c)
    BY <1>6
  <2>2. "call-ended" \in Kinds /\ "incoming" \in Kinds /\ "call-ended" # "incoming"
    BY DEF Kinds
  <2>3. EndOf(c) \in Events /\ \A d \in Calls : EndOf(c) # Rung(d)
    BY <2>2, NewsIsEvent, EventEqual DEF EndOf, Rung
  <2> PICK events : events = <<EndOf(c)>>
    OBVIOUS
  <2>4. /\ Broadcast(events) /\ events \in Seq(Events) /\ Len(events) = 1
        /\ events[1] = EndOf(c)
    BY <2>1, <2>3 DEF BrokerEnds, EndOf
  <2>5. incoming' \in {incoming, None}
    BY <1>6, IncomingStep
  <2> QED BY <2>3, <2>4, <2>5, BroadcastRings
<1> QED BY <1>1, <1>2, <1>3, <1>4, <1>5, <1>6, WireStep

\* A mutation moves on: it may go on to accept only a call that is claimed.
LEMMA MoveClaimed ==
  ASSUME PageTypes, Claimed, NEW a \in Askers, NEW c \in Calls, NEW label, Goto(<<a, c>>, label),
         \A d \in Calls : owner[d] # "none" => owner'[d] # "none",
         accepted' = accepted \/ (accepted' = accepted \union {c} /\ owner'[c] # "none"),
         label = "accept" => owner'[c] # "none"
  PROVE Claimed'
<1>1. ASSUME NEW d \in Calls, d \in accepted' \/ (\E b \in Askers : pc'[<<b, d>>] = "accept")
      PROVE owner'[d] # "none"
  <2>1. CASE d \in accepted'
    BY <2>1 DEF Claimed
  <2>2. ASSUME NEW b \in Askers, pc'[<<b, d>>] = "accept" PROVE owner'[d] # "none"
    <3>1. CASE b = a /\ d = c
      <4>1. pc'[<<a, c>>] = label
        BY GotoAt
      <4> QED BY <2>2, <3>1, <4>1
    <3>2. CASE b # a \/ d # c
      <4>1. pc'[<<b, d>>] = pc[<<b, d>>]
        BY <3>2, GotoAt
      <4> QED BY <2>2, <4>1 DEF Claimed
    <3> QED BY <3>1, <3>2
  <2> QED BY <1>1, <2>1, <2>2
<1> QED BY <1>1 DEF Claimed

\* Every step keeps Claimed.
LEMMA ClaimedNext ==
  ASSUME Types, Claimed, [Next]_vars
  PROVE Claimed'
<1> USE DEF Types, BrokerTypes, PageTypes, Claimed
<1>1. ASSUME NEW c \in Calls,
             Ring(c) \/ Activate(c) \/ PeerEnds(c) \/ OtherClaims(c) \/ Dial(c) \/ EndCall(c)
      PROVE Claimed'
  BY <1>1 DEF Ring, Activate, PeerEnds, OtherClaims, Dial, EndCall, BrokerEnds
<1>2. ASSUME NEW c \in Calls, StartScheduled(c) PROVE Claimed'
  BY <1>2 DEF StartScheduled, Goto
<1>3. ASSUME NEW c \in Calls, RejectSettles(c) PROVE Claimed'
  BY <1>3 DEF RejectSettles, EndIfLive, BrokerEnds
<1>4. CASE Stream \/ Deliver \/ ClickReject
  BY <1>4 DEF Stream, Connect, TicketArrives, Subscribed, TicketFails, Unauthorized, StreamFails,
       Retry, Deliver, ClickReject
<1>5. CASE Answerer
  <2>1. owner' = owner /\ accepted' = accepted
    BY <1>5 DEF Answerer, NoticeIncoming, TimerFires, CancelTimer, NotOurs, ArmTimer, AnswerAtOnce
  <2>2. pc' = pc \/ \E c \in Calls : Goto(<<"auto", c>>, "check")
    BY <1>5 DEF Answerer, NoticeIncoming, TimerFires, CancelTimer, NotOurs, ArmTimer,
         AnswerAtOnce, Answer
  <2>3. CASE pc' = pc
    BY <2>1, <2>3
  <2>4. ASSUME NEW c \in Calls, Goto(<<"auto", c>>, "check") PROVE Claimed'
    BY <2>1, <2>4, MoveClaimed DEF Askers
  <2> QED BY <2>2, <2>3, <2>4
<1>6. CASE ClickAccept
  BY <1>6 DEF ClickAccept, Goto
<1>7. ASSUME NEW a \in Askers, NEW c \in Calls, Step(<<a, c>>) PROVE Claimed'
  <2>1. CASE Claim(<<a, c>>)
    <3>1. accepted' = accepted
      BY <2>1 DEF Claim, Conflict
    <3>2. CASE Conflict(<<a, c>>)
      BY <3>1, <3>2, MoveClaimed DEF Conflict
    <3>3. CASE ~Conflict(<<a, c>>)
      <4>1. PICK who \in {"me", "server"} : owner' = [owner EXCEPT ![c] = who]
        BY <2>1, <3>3 DEF Claim
      <4>2. Goto(<<a, c>>, "accept")
        BY <2>1, <3>3 DEF Claim
      <4>3. owner'[c] # "none" /\ \A d \in Calls : owner[d] # "none" => owner'[d] # "none"
        BY <4>1
      <4> QED BY <3>1, <4>2, <4>3, MoveClaimed
    <3> QED BY <3>2, <3>3
  <2>2. CASE AcceptCall(<<a, c>>)
    <3>1. /\ pc[<<a, c>>] = "accept" /\ accepted' = accepted \union {c} /\ owner' = owner
          /\ Goto(<<a, c>>, "config")
      BY <2>2 DEF AcceptCall
    <3>2. owner[c] # "none"
      BY <3>1
    <3> QED BY <3>1, <3>2, MoveClaimed
  <2>3. CASE ~Claim(<<a, c>>) /\ ~AcceptCall(<<a, c>>)
    <3>1. owner' = owner /\ accepted' = accepted
      BY <1>7, <2>3 DEF Step, RequestFails, CheckOwner, ServerTalks, OpenCall, MicDenied,
           MicGranted, MediaFails, Bridged, Register, HangUp, Conflict, EndIfLive, BrokerEnds
    <3>2. PICK label : Goto(<<a, c>>, label) /\ label # "accept"
      BY <1>7, <2>3 DEF Step, RequestFails, CheckOwner, ServerTalks, OpenCall, MicDenied,
           MicGranted, MediaFails, Bridged, Register, HangUp, Conflict, AfterFailure
    <3> QED BY <3>1, <3>2, MoveClaimed
  <2> QED BY <2>1, <2>2, <2>3
<1>8. CASE UNCHANGED vars
  BY <1>8 DEF vars
<1>9. ASSUME NEW p \in Askers \X Calls, Step(p) PROVE Claimed'
  <2>1. PICK a \in Askers, c \in Calls : p = <<a, c>>
    OBVIOUS
  <2> QED BY <1>7, <1>9, <2>1
<1> HIDE DEF Claimed, Types, PageTypes, BrokerTypes
<1> QED BY <1>1, <1>2, <1>3, <1>4, <1>5, <1>6, <1>8, <1>9 DEF Next

-----------------------------------------------------------------------------
\* The strengthened invariant holds of every behaviour.
LEMMA Inductive == Spec => []IInv
<1>1. Init => IInv
  <2> SUFFICES ASSUME Init PROVE IInv
    OBVIOUS
  <2> USE DEF Init
  <2>1. BrokerTypes /\ StoreTypes
    BY DEF BrokerTypes, StoreTypes
  <2>2. ChannelTypes
    BY ChannelAssumption DEF ChannelTypes
  <2>3. PageTypes
    BY DEF PageTypes, Awaits
  <2>4. OneMedia /\ OneMic
    BY DEF OneMedia, OneMic, Media, HasMic
  <2>5. RingThenEnd /\ EndOnItsWay /\ RingsOnce
    BY DEF RingThenEnd, EndOnItsWay, RingsOnce
  <2>6. Claimed
    BY DEF Claimed
  <2> QED BY <2>1, <2>2, <2>3, <2>4, <2>5, <2>6 DEF IInv, Types
<1>2. IInv /\ [Next]_vars => IInv'
  <2> SUFFICES ASSUME IInv, [Next]_vars PROVE IInv'
    OBVIOUS
  <2>1. Types'
    BY BrokerTypesNext, ChannelTypesNext, StoreTypesNext, PageTypesNext DEF IInv, Types
  <2>2. OneMedia' /\ OneMic'
    BY OneMediaNext, OneMicNext DEF IInv
  <2>3. RingThenEnd' /\ EndOnItsWay' /\ RingsOnce' /\ Claimed'
    BY RingNext, RingsOnceNext, ClaimedNext DEF IInv
  <2> QED BY <2>1, <2>2, <2>3 DEF IInv
<1> QED BY <1>1, <1>2, PTL DEF Spec

\* A call that nobody's openCall is under way for has none, and any other one.
LEMMA OpeningSize ==
  ASSUME Types, OneMedia, NEW c \in Calls
  PROVE /\ Cardinality(Opening(c)) = IF \E a \in Askers : pc[<<a, c>>] \in {"sdp", "answer"}
                                      THEN 1 ELSE 0
        /\ c \in conns => Opening(c) = {}
<1>1. CASE \E a \in Askers : pc[<<a, c>>] \in {"sdp", "answer"}
  <2>1. PICK a \in Askers : pc[<<a, c>>] \in {"sdp", "answer"}
    BY <1>1
  <2>2. Opening(c) = {a} /\ c \notin conns
    BY <2>1 DEF Opening, OneMedia, Media
  <2> QED BY <1>1, <2>2, FS_Singleton
<1>2. CASE ~\E a \in Askers : pc[<<a, c>>] \in {"sdp", "answer"}
  <2>1. Opening(c) = {}
    BY <1>2 DEF Opening
  <2> QED BY <1>2, <2>1, FS_EmptySet
<1> QED BY <1>1, <1>2

\* Every variable keeps its type: the channel is never over its capacity, and no
\* call has more microphones than it has askers.
THEOREM TypeCorrect == Spec => []TypeOK
<1>1. IInv => TypeOK
  <2> SUFFICES ASSUME IInv PROVE TypeOK
    OBVIOUS
  <2>1. 1 \in 0..Cardinality(Askers) /\ 0 \in 0..Cardinality(Askers)
    <3>1. IsFiniteSet(Askers) /\ Askers # {}
      <4>1. IsFiniteSet({"modal"}) /\ IsFiniteSet({"modal"} \union {"auto"})
        BY FS_Singleton, FS_AddElement
      <4>2. IsFiniteSet({"modal"} \union {"auto"} \union {"start"})
        BY <4>1, FS_AddElement
      <4>3. Askers = {"modal"} \union {"auto"} \union {"start"}
        BY DEF Askers
      <4> QED BY <4>2, <4>3
    <3>2. Cardinality(Askers) \in Nat /\ Cardinality(Askers) # 0
      BY <3>1, FS_CardinalityType, FS_EmptySet
    <3> QED BY <3>2
  <2>2. mics \in [Calls -> 0..Cardinality(Askers)]
    BY <2>1 DEF IInv, Types, PageTypes, OneMic, HasMic
  <2> QED BY <2>2 DEF IInv, Types, BrokerTypes, ChannelTypes, StoreTypes, PageTypes, TypeOK
<1> QED BY <1>1, Inductive, PTL

\* A microphone that is on belongs to an openCall under way or to the connection
\* registered for its call: nobody's failure or second answer leaves one on.
THEOREM MicsAccountedCorrect == Spec => []MicsAccounted
<1>1. IInv => MicsAccounted
  <2> SUFFICES ASSUME IInv, NEW c \in Calls
               PROVE mics[c] = Cardinality(Opening(c)) + (IF c \in conns THEN 1 ELSE 0)
    BY DEF MicsAccounted
  <2>1. Types /\ OneMedia /\ OneMic
    BY DEF IInv
  <2>2. c \in conns => Opening(c) = {}
    BY <2>1, OpeningSize
  <2>3. Cardinality(Opening(c)) = IF \E a \in Askers : pc[<<a, c>>] \in {"sdp", "answer"}
                                  THEN 1 ELSE 0
    BY <2>1, OpeningSize
  <2>4. c \in conns => ~\E a \in Askers : pc[<<a, c>>] \in {"sdp", "answer"}
    BY <2>2 DEF Opening
  <2> QED BY <2>1, <2>3, <2>4 DEF OneMic, HasMic
<1> QED BY <1>1, Inductive, PTL

\* The modal rings for a call that has ended only while the news of its end is on
\* the way, or if they never reached this browser.
THEOREM RingingIsLiveCorrect == Spec => []RingingIsLive
<1>1. IInv => RingingIsLive
  <2> SUFFICES ASSUME IInv, incoming # None, server[incoming] = "ended"
               PROVE incoming \in Ends(wire) \union missed
    BY DEF RingingIsLive
  <2>1. wire \in Seq(Events) /\ incoming \in Calls
    BY DEF IInv, Types, ChannelTypes, StoreTypes
  <2>2. News(incoming, 1)
    BY DEF IInv, EndOnItsWay
  <2> QED BY <2>1, <2>2, EndsType DEF News
<1> QED BY <1>1, Inductive, PTL

-----------------------------------------------------------------------------
(* The promise of OperatorCalls. *)

Bells == [c \in Calls |-> BellSeen(c)]
Medias == [c \in Calls |-> MediaSeen(c)]

\* The ring of c is on the wire.
Due(c) == Event("incoming", c) \in ToSet(wire)

\* A ring on the wire is at one place of it.
LEMMA DueAt ==
  ASSUME NEW q \in Seq(Events), NEW c
  PROVE Event("incoming", c) \in ToSet(q) <=> \E i \in 1..Len(q) : q[i] = Event("incoming", c)
BY DEF ToSet

\* What is to ring has begun and does not ring; what rings is not to ring again.
LEMMA DueIsNew ==
  ASSUME IInv, NEW c \in Calls
  PROVE /\ Due(c) => c \in Inbound /\ server[c] # "none" /\ incoming # c
        /\ incoming = c => c \in Inbound /\ server[c] # "none" /\ ~Due(c)
<1>1. wire \in Seq(Events) /\ RingsOnce
  BY DEF IInv, Types, ChannelTypes
<1>2. Due(c) <=> \E i \in 1..Len(wire) : wire[i] = Rung(c)
  BY <1>1, DueAt DEF Due, Rung
<1> QED BY <1>1, <1>2, CallsAssumption DEF RingsOnce

\* A broadcast without a ring leaves the rings on the wire as they are.
LEMMA SameDue ==
  ASSUME ChannelTypes, NEW ev \in Events, Broadcast(<<ev>>),
         \A c \in Calls : ev # Rung(c)
  PROVE \A c \in Calls : Due(c)' <=> Due(c)
<1> SUFFICES ASSUME NEW c \in Calls PROVE Due(c)' <=> Due(c)
  OBVIOUS
<1> PICK events : events = <<ev>>
  OBVIOUS
<1>1. events \in Seq(Events) /\ Len(events) = 1 /\ events[1] = ev /\ Broadcast(events)
  OBVIOUS
<1>2. wire \in Seq(Events) /\ wire' \in Seq(Events) /\ Len(wire) <= Len(wire')
  BY <1>1, BroadcastShape DEF ChannelTypes
<1>3. /\ \A i \in 1..Len(wire) : wire'[i] = wire[i]
      /\ \A i \in Len(wire) + 1..Len(wire') :
            i - Len(wire) \in 1..Len(events) /\ wire'[i] = events[i - Len(wire)]
  BY <1>1, BroadcastShape
<1>4. ASSUME NEW i \in 1..Len(wire') PROVE wire'[i] = Rung(c) => i \in 1..Len(wire)
  <2>1. CASE i \in Len(wire) + 1..Len(wire')
    <3>1. i - Len(wire) = 1 /\ wire'[i] = events[i - Len(wire)]
      BY <1>1, <1>2, <1>3, <2>1
    <3> QED BY <1>1, <3>1
  <2> QED BY <1>2, <2>1
<1>5. \A i \in 1..Len(wire) : wire'[i] = wire[i] /\ i \in 1..Len(wire')
  BY <1>2, <1>3
<1>6. Due(c)' <=> \E i \in 1..Len(wire') : wire'[i] = Rung(c)
  BY <1>2, DueAt DEF Due, Rung, Event
<1>7. Due(c) <=> \E i \in 1..Len(wire) : wire[i] = Rung(c)
  BY <1>2, DueAt DEF Due, Rung
<1> QED BY <1>4, <1>5, <1>6, <1>7

\* News of other kinds, and lists, are no rings.
LEMMA OtherNews ==
  /\ \A c \in Calls : \A type \in Kinds \ {"incoming"} :
       Event(type, c) \in Events /\ \A d \in Calls : Event(type, c) # Rung(d)
  /\ \A c \in Calls :
       /\ CallList(Live \union {c}) \in Events
       /\ \A d \in Calls : CallList(Live \union {c}) # Rung(d)
<1>1. "incoming" \in Kinds /\ \A c \in Calls : Live \union {c} \in SUBSET Calls
  BY DEF Kinds, Live
<1> QED BY <1>1, NewsIsEvent, EventEqual DEF Rung

\* Nothing new rings: some bells may stop, and the others are heard as before.
LEMMA BellsCease ==
  ASSUME IInv, [Next]_vars, incoming' \in {incoming, None},
         \A c \in Calls : Due(c)' => Due(c),
         \A c \in Calls : server'[c] = "none" <=> server[c] = "none"
  PROVE Promise!SomeCease
<1> DEFINE S == {c \in Calls : server[c] # "none" /\ BellSeen(c)' = "over"}
<1>1. ASSUME NEW c \in Calls PROVE BellSeen(c)' = IF c \in S THEN "over" ELSE BellSeen(c)
  <2>1. None # c
    BY CallsAssumption
  <2> QED BY <2>1, DueIsNew DEF BellSeen, Due, Event
<1>2. S \in SUBSET {c \in Calls : server[c] # "none"}
  OBVIOUS
<1>3. Bells' = [c \in Calls |-> IF c \in S THEN "over" ELSE Bells[c]]
  BY <1>1 DEF Bells
<1> HIDE DEF S
<1> QED BY <1>2, <1>3 DEF Promise!SomeCease, Promise!Cease, Bells

\* Nothing rings or stops.
LEMMA BellsSame ==
  ASSUME incoming' = incoming, \A c \in Calls : Due(c)' <=> Due(c),
         \A c \in Calls : server'[c] = "none" <=> server[c] = "none"
  PROVE Bells' = Bells
<1>1. \A c \in Calls : BellSeen(c)' = BellSeen(c)
  BY DEF BellSeen, Due, Event
<1> QED BY <1>1 DEF Bells

\* Only the media of the call whose mutation moves may change, and they do not if the
\* mutation was not, and is not now, at work on them.
LEMMA MoveMedia ==
  ASSUME PageTypes, NEW a \in Askers, NEW c \in Calls, NEW label, Goto(<<a, c>>, label),
         UNCHANGED <<accepted, conns>>
  PROVE /\ \A d \in Calls \ {c} : MediaSeen(d)' = MediaSeen(d)
        /\ pc[<<a, c>>] \notin Media /\ label \notin Media => Medias' = Medias
<1>1. /\ pc'[<<a, c>>] = label
      /\ \A b \in Askers : \A d \in Calls : b # a \/ d # c => pc'[<<b, d>>] = pc[<<b, d>>]
  BY GotoAt
<1>2. \A d \in Calls \ {c} : MediaSeen(d)' = MediaSeen(d)
  BY <1>1 DEF MediaSeen, HasMic
<1>3. ASSUME pc[<<a, c>>] \notin Media, label \notin Media PROVE MediaSeen(c)' = MediaSeen(c)
  BY <1>1, <1>3 DEF MediaSeen, HasMic, Media
<1> QED BY <1>2, <1>3 DEF Medias

\* The mutation at work on a call's media is alone, and the call is taken.
LEMMA AtWork ==
  ASSUME OneMedia, NEW a \in Askers, NEW c \in Calls, pc[<<a, c>>] \in Media
  PROVE /\ c \in accepted /\ c \notin conns
        /\ \A b \in Askers \ {a} : pc[<<b, c>>] \notin Media
        /\ MediaSeen(c) = IF pc[<<a, c>>] \in {"config", "mic"} THEN "asked" ELSE "on"
BY DEF OneMedia, MediaSeen, HasMic, Media

\* Media that another step has left alone.
LEMMA SameMedia ==
  ASSUME UNCHANGED <<accepted, conns, pc>>
  PROVE Medias' = Medias
BY DEF Medias, MediaSeen, HasMic


\* A call ends, and the broker says so.
LEMMA EndImplements ==
  ASSUME IInv, [Next]_vars, NEW c \in Calls, c \in Live, BrokerEnds(c),
         incoming' \in {incoming, None}, mics' = mics, Medias' = Medias
  PROVE Promise!End(c)
<1>1. /\ server[c] \in {"ringing", "connected"} /\ server' = [server EXCEPT ![c] = "ended"]
      /\ Broadcast(<<Event("call-ended", c)>>)
      /\ server \in [Calls -> {"none", "ringing", "connected", "ended"}]
  BY DEF Live, BrokerEnds, IInv, Types, BrokerTypes
<1>2. \A d \in Calls : Due(d)' <=> Due(d)
  <2>1. "call-ended" \in Kinds \ {"incoming"}
    BY DEF Kinds
  <2> QED BY <1>1, <2>1, OtherNews, SameDue DEF IInv, Types
<1>3. Promise!SomeCease
  BY <1>1, <1>2, BellsCease
<1> QED BY <1>1, <1>3 DEF Promise!End, Medias

\* What rings may stop, and no more.
LEMMA HushImplements ==
  ASSUME IInv, [Next]_vars, UNCHANGED <<server, mics>>, Medias' = Medias,
         incoming' \in {incoming, None}, \A c \in Calls : Due(c)' => Due(c)
  PROVE Promise!Hush
<1>1. Promise!SomeCease
  BY BellsCease
<1> QED BY <1>1 DEF Promise!Hush, Medias

\* Nothing that is promised changes.
LEMMA StutterImplements ==
  ASSUME UNCHANGED <<server, mics, incoming>>, Medias' = Medias,
         \A c \in Calls : Due(c)' <=> Due(c)
  PROVE UNCHANGED Promise!vars
<1>1. Bells' = Bells
  BY BellsSame
<1> QED BY <1>1 DEF Promise!vars, Bells, Medias

\* The same wire has the same rings.
LEMMA SameWire == ASSUME wire' = wire PROVE \A c : Due(c)' <=> Due(c)
BY DEF Due, Event

\* The steps of the broker: the peer calls, the media come up, somebody else answers.
LEMMA BrokerImplements ==
  ASSUME IInv, [Next]_vars, NEW c \in Calls, Ring(c) \/ Activate(c) \/ OtherClaims(c)
  PROVE Promise!Ring(c) \/ Promise!Connect(c) \/ Promise!Take(c)
<1>0. ChannelTypes /\ BrokerTypes /\ wire \in Seq(Events)
  BY DEF IInv, Types, ChannelTypes
<1>1. CASE Ring(c)
  <2>1. /\ c \in Inbound /\ server[c] = "none" /\ server' = [server EXCEPT ![c] = "ringing"]
        /\ UNCHANGED <<accepted, conns, pc, mics, incoming>>
    BY <1>1 DEF Ring
  <2>2. Medias' = Medias
    BY <2>1, SameMedia
  <2>3. ASSUME NEW d \in Calls \ {c} PROVE Due(d)' <=> Due(d)
    <3> PICK events : events = <<CallList(Live \union {c}), Event("incoming", c)>>
      OBVIOUS
    <3>1. /\ events \in Seq(Events) /\ Len(events) = 2 /\ Broadcast(events)
          /\ events[1] = CallList(Live \union {c}) /\ events[2] = Rung(c)
      <4>1. CallList(Live \union {c}) \in Events /\ Event("incoming", c) \in Events
        BY OtherNews, NewsIsEvent DEF Kinds
      <4> QED BY <1>1, <4>1 DEF Ring, Rung
    <3>2. Rung(c) # Rung(d) /\ CallList(Live \union {c}) # Rung(d)
      BY OtherNews, EventEqual DEF Rung, Kinds
    <3>3. wire' \in Seq(Events) /\ Len(wire) <= Len(wire')
      BY <1>0, <3>1, BroadcastShape
    <3>4. /\ \A i \in 1..Len(wire) : wire'[i] = wire[i]
          /\ \A i \in Len(wire) + 1..Len(wire') :
                i - Len(wire) \in 1..Len(events) /\ wire'[i] = events[i - Len(wire)]
      BY <1>0, <3>1, BroadcastShape
    <3>5. ASSUME NEW i \in 1..Len(wire'), wire'[i] = Rung(d) PROVE i \in 1..Len(wire)
      <4>1. CASE i \in Len(wire) + 1..Len(wire')
        <5>1. i - Len(wire) \in 1..Len(events) /\ wire'[i] = events[i - Len(wire)]
          BY <3>4, <4>1
        <5>2. i - Len(wire) = 1 \/ i - Len(wire) = 2
          BY <1>0, <3>1, <3>3, <5>1
        <5> QED BY <3>1, <3>2, <3>5, <5>1, <5>2
      <4> QED BY <1>0, <3>3, <4>1
    <3>6. \A i \in 1..Len(wire) : wire'[i] = wire[i] /\ i \in 1..Len(wire')
      BY <1>0, <3>3, <3>4
    <3>7. Due(d)' <=> \E i \in 1..Len(wire') : wire'[i] = Rung(d)
      BY <3>3, DueAt DEF Due, Rung, Event
    <3>8. Due(d) <=> \E i \in 1..Len(wire) : wire[i] = Rung(d)
      BY <1>0, DueAt DEF Due, Rung
    <3> QED BY <3>5, <3>6, <3>7, <3>8
  <2>4. ASSUME NEW d \in Calls \ {c} PROVE BellSeen(d)' = BellSeen(d)
    <3>1. server'[d] = server[d]
      BY <1>0, <2>1 DEF BrokerTypes
    <3> QED BY <2>1, <2>3, <3>1 DEF BellSeen, Due, Event
  <2>5. BellSeen(c) = "silent" /\ BellSeen(c)' \in {"silent", "over"}
    <3>1. incoming # c
      BY <2>1, DueIsNew
    <3> QED BY <2>1, <3>1 DEF BellSeen
  <2>6. \/ Bells' = [d \in Calls |-> IF d \in {} THEN "over" ELSE Bells[d]]
        \/ Bells' = [d \in Calls |-> IF d \in {c} THEN "over" ELSE Bells[d]]
    BY <2>4, <2>5 DEF Bells
  <2> QED BY <2>1, <2>2, <2>6 DEF Promise!Ring, Promise!Cease, Bells, Medias
<1>2. CASE Activate(c)
  <2>1. /\ server[c] = "ringing" /\ c \in accepted /\ Broadcast(<<Event("connected", c)>>)
        /\ server' = [server EXCEPT ![c] = "connected"]
        /\ UNCHANGED <<accepted, conns, pc, mics, incoming>>
    BY <1>2 DEF Activate
  <2>2. Medias' = Medias /\ Medias[c] # "none"
    BY <2>1, SameMedia DEF Medias, MediaSeen
  <2>3. \A d \in Calls : Due(d)' <=> Due(d)
    BY <1>0, <2>1, OtherNews, SameDue DEF Kinds
  <2>4. Bells' = Bells
    BY <1>0, <2>1, <2>3, BellsSame DEF BrokerTypes
  <2> QED BY <2>1, <2>2, <2>4 DEF Promise!Connect, Bells, Medias
<1>3. CASE OtherClaims(c)
  <2>1. /\ server[c] = "ringing" /\ owner[c] = "none" /\ accepted' = accepted \union {c}
        /\ Broadcast(<<Event("incoming-claimed", c)>>)
        /\ UNCHANGED <<server, conns, pc, mics, incoming>>
    BY <1>3 DEF OtherClaims
  <2>2. c \notin accepted
    BY <2>1 DEF IInv, Claimed
  <2>3. MediaSeen(c) = "none" /\ MediaSeen(c)' = "over"
    BY <2>1, <2>2 DEF MediaSeen, HasMic, IInv, OneMedia, Media
  <2>4. \A d \in Calls \ {c} : MediaSeen(d)' = MediaSeen(d)
    BY <2>1 DEF MediaSeen, HasMic
  <2>5. Medias[c] = "none" /\ Medias' = [Medias EXCEPT ![c] = "over"]
    BY <2>3, <2>4 DEF Medias
  <2>6. \A d \in Calls : Due(d)' <=> Due(d)
    BY <1>0, <2>1, OtherNews, SameDue DEF Kinds
  <2>7. Bells' = Bells
    BY <2>1, <2>6, BellsSame
  <2> QED BY <2>1, <2>5, <2>7 DEF Promise!Take, Bells, Medias
<1> QED BY <1>1, <1>2, <1>3

\* A call is placed, by the scheduler or by the dialer.
LEMMA PlaceImplements ==
  ASSUME IInv, [Next]_vars, NEW c \in Calls, StartScheduled(c) \/ Dial(c)
  PROVE Promise!Place(c)
<1>1. /\ c \in Calls \ Inbound /\ server[c] = "none" /\ accepted' = accepted \union {c}
      /\ server' = [server EXCEPT ![c] = "ringing"]
      /\ Broadcast(<<CallList(Live \union {c})>>)
      /\ UNCHANGED <<conns, mics, incoming>>
      /\ pc' = pc \/ Goto(<<"start", c>>, "config")
  BY DEF StartScheduled, Dial
<1>2. ChannelTypes /\ BrokerTypes /\ PageTypes /\ OneMedia
  BY DEF IInv, Types
<1>3. c \notin accepted /\ c \notin conns /\ \A a \in Askers : pc[<<a, c>>] \notin Media
  BY <1>1, <1>2 DEF OneMedia
<1>4. MediaSeen(c)' \in {"asked", "over"} /\ \A d \in Calls \ {c} : MediaSeen(d)' = MediaSeen(d)
  <2>1. CASE pc' = pc
    BY <1>1, <1>3, <2>1 DEF MediaSeen, HasMic, Media
  <2>2. CASE Goto(<<"start", c>>, "config")
    <3>1. /\ pc'[<<"start", c>>] = "config"
          /\ \A b \in Askers : \A d \in Calls :
               b # "start" \/ d # c => pc'[<<b, d>>] = pc[<<b, d>>]
      BY <1>2, <2>2, GotoAt DEF Askers
    <3> QED BY <1>1, <1>3, <3>1 DEF MediaSeen, HasMic, Media
  <2> QED BY <1>1, <2>1, <2>2
<1>5. \E step \in {"asked", "over"} : Medias' = [Medias EXCEPT ![c] = step]
  BY <1>4 DEF Medias
<1>6. \A d \in Calls : Due(d)' <=> Due(d)
  BY <1>1, <1>2, OtherNews, SameDue
<1>7. Bells' = [d \in Calls |-> IF d \in {c} THEN "over" ELSE Bells[d]]
  <2>1. ~Due(c) /\ incoming # c /\ c # None
    BY <1>1, DueIsNew, CallsAssumption
  <2>2. BellSeen(c)' = "over"
    BY <1>1, <1>2, <1>6, <2>1 DEF BellSeen, BrokerTypes, Due, Event
  <2>3. ASSUME NEW d \in Calls \ {c} PROVE BellSeen(d)' = BellSeen(d)
    BY <1>1, <1>2, <1>6, <2>3 DEF BellSeen, BrokerTypes, Due, Event
  <2> QED BY <2>2, <2>3 DEF Bells
<1> QED BY <1>1, <1>5, <1>7 DEF Promise!Place, Promise!Cease, Bells, Medias

\* An event is delivered: a call rings here, its media are closed, or what rang stops.
LEMMA DeliverImplements ==
  ASSUME IInv, [Next]_vars, Deliver
  PROVE (\E c \in Calls : Promise!RingHere(c) \/ Promise!Close(c)) \/ Promise!Hush
<1>1. /\ Types /\ wire # <<>> /\ wire' = Tail(wire) /\ wire \in Seq(Events)
      /\ UNCHANGED <<server, accepted, pc>>
  BY DEF Deliver, IInv, Types, ChannelTypes
<1>2. /\ \A j \in 1..Len(wire') : wire'[j] = wire[j + 1] /\ j + 1 \in 1..Len(wire)
      /\ \A j \in 2..Len(wire) : wire'[j - 1] = wire[j] /\ j - 1 \in 1..Len(wire')
      /\ 1 \in 1..Len(wire) /\ Head(wire) = wire[1] /\ wire' \in Seq(Events)
  BY <1>1
<1>3. PICK ev \in Events : ev = Head(wire) /\ ev = wire[1]
  BY <1>1, <1>2
<1>4. /\ \A c \in Calls : Due(c) <=> \E i \in 1..Len(wire) : wire[i] = Rung(c)
      /\ \A c \in Calls : Due(c)' <=> \E i \in 1..Len(wire') : wire'[i] = Rung(c)
  BY <1>1, <1>2, DueAt DEF Due, Rung, Event
<1>5. \A c \in Calls : Due(c)' => Due(c)
  BY <1>2, <1>4
<1>6. ASSUME NEW c \in Calls, Due(c), ev # Rung(c) PROVE Due(c)'
  <2>1. PICK i \in 1..Len(wire) : wire[i] = Rung(c)
    BY <1>4, <1>6
  <2>2. i \in 2..Len(wire)
    BY <1>1, <1>3, <1>6, <2>1
  <2> QED BY <1>2, <1>4, <2>1, <2>2
<1>7. CASE OnIncoming(ev)
  <2>1. PICK c \in Calls : ev = Rung(c) /\ incoming' = c
    <3>1. ev.type = "incoming" /\ incoming' = ev.call
      BY <1>7 DEF OnIncoming
    <3> QED BY <1>3, <3>1, EventCases DEF Rung
  <2>2. Due(c) /\ c \in Inbound /\ server[c] # "none" /\ incoming # c
    BY <1>2, <1>3, <1>4, <2>1, DueIsNew
  <2>3. ~Due(c)'
    <3>1. \A i \in 1..Len(wire) : wire[i] = Rung(c) => i = 1
      BY <1>2, <1>3, <2>1 DEF IInv, RingsOnce
    <3>2. ASSUME NEW i \in 1..Len(wire'), wire'[i] = Rung(c) PROVE FALSE
      <4>1. i + 1 \in 1..Len(wire) /\ wire[i + 1] = Rung(c) /\ i + 1 # 1
        BY <1>2, <3>2
      <4> QED BY <3>1, <4>1
    <3> QED BY <1>4, <3>2
  <2>4. \A d \in Calls \ {c} : Due(d)' <=> Due(d)
    <3>1. \A d \in Calls \ {c} : Rung(c) # Rung(d)
      BY EventEqual DEF Rung, Kinds
    <3> QED BY <1>5, <1>6, <2>1, <3>1
  <2>5. BellSeen(c) = "silent" /\ BellSeen(c)' = "ringing"
    BY <2>1, <2>2 DEF BellSeen, Due
  <2>6. ASSUME NEW d \in Calls \ {c}
        PROVE BellSeen(d)' = IF BellSeen(d) = "ringing" THEN "over" ELSE BellSeen(d)
    <3>1. incoming = d => server[d] # "none" /\ ~Due(d)
      BY DueIsNew
    <3> QED BY <1>1, <2>1, <2>4, <3>1 DEF BellSeen, Due, Event
  <2>7. Bells' = [d \in Calls |-> IF d = c THEN "ringing"
                                  ELSE IF Bells[d] = "ringing" THEN "over" ELSE Bells[d]]
    BY <2>5, <2>6 DEF Bells
  <2>8. UNCHANGED <<conns, mics>>
    BY <1>7 DEF OnIncoming
  <2>9. Medias' = Medias
    BY <1>1, <2>8, SameMedia
  <2>10. Promise!RingHere(c)
    BY <1>1, <2>2, <2>5, <2>7, <2>8, <2>9 DEF Promise!RingHere, Bells, Medias
  <2> QED BY <2>10
<1>8. CASE ~OnIncoming(ev) /\ ev.type = "call-ended" /\ ev.call \in conns
  <2>1. PICK c \in Calls : c = ev.call /\ c \in conns
    BY <1>1, <1>8 DEF Types, StoreTypes
  <2>2. /\ incoming' \in {incoming, None}
        /\ conns' = conns \ {c} /\ mics' = [mics EXCEPT ![c] = @ - 1]
    BY <1>3, <1>8, <2>1
       DEF Deliver, OnCallList, OnConnected, OnCallEnded, OnIncoming, OnClaimed
  <2>3. c \in accepted /\ \A a \in Askers : pc[<<a, c>>] \notin Media
    BY <2>1 DEF IInv, OneMedia
  <2>4. mics[c] = 1
    BY <2>1 DEF IInv, OneMic, HasMic
  <2>5. mics' = [mics EXCEPT ![c] = 0]
    BY <2>2, <2>4
  <2>6. MediaSeen(c) = "on" /\ MediaSeen(c)' = "over"
    BY <1>1, <2>1, <2>2, <2>3 DEF MediaSeen, HasMic, Media
  <2>7. \A d \in Calls \ {c} : MediaSeen(d)' = MediaSeen(d)
    BY <1>1, <2>2 DEF MediaSeen, HasMic
  <2>8. Medias[c] = "on" /\ Medias' = [Medias EXCEPT ![c] = "over"]
    BY <2>6, <2>7 DEF Medias
  <2>9. Promise!SomeCease
    BY <1>1, <1>5, <2>2, BellsCease
  <2>10. Promise!Close(c)
    BY <1>1, <2>5, <2>8, <2>9 DEF Promise!Close, Medias
  <2> QED BY <2>10
<1>9. CASE ~OnIncoming(ev) /\ ~(ev.type = "call-ended" /\ ev.call \in conns)
  <2>1. incoming' \in {incoming, None} /\ mics' = mics /\ conns' = conns
    BY <1>3, <1>9 DEF Deliver, OnCallList, OnConnected, OnCallEnded, OnIncoming, OnClaimed
  <2>2. Promise!Hush
    BY <1>1, <1>5, <2>1, SameMedia, HushImplements
  <2> QED BY <2>2
<1> QED BY <1>7, <1>8, <1>9

\* The stream comes and goes: what rings is lost with it, and the login with the page.
LEMMA StreamImplements ==
  ASSUME IInv, [Next]_vars, Stream
  PROVE Promise!Hush \/ Promise!Leave \/ UNCHANGED Promise!vars
<1>1. CASE TicketArrives \/ TicketFails \/ Retry
  <2>1. UNCHANGED <<server, accepted, conns, pc, mics, incoming, wire>>
    BY <1>1 DEF TicketArrives, TicketFails, Retry
  <2> QED BY <2>1, SameMedia, SameWire, StutterImplements
<1>2. CASE Subscribed
  <2>1. /\ UNCHANGED <<server, accepted, conns, pc, mics, incoming>>
        /\ wire = <<>> /\ wire' = <<CallList(Live)>>
    BY <1>2 DEF Subscribed, IInv, Types, ChannelTypes
  <2>2. \A c \in Calls : ~Due(c)
    BY <2>1 DEF Due, ToSet
  <2>3. \A c \in Calls : ~Due(c)'
    <3>1. \A c \in Calls : Event("incoming", c) # CallList(Live)
      BY EventEqual DEF Kinds
    <3>2. ToSet(<<CallList(Live)>>) = {CallList(Live)}
      BY DEF ToSet
    <3> QED BY <2>1, <3>1, <3>2 DEF Due, Event
  <2> QED BY <2>1, <2>2, <2>3, SameMedia, StutterImplements
<1>3. ASSUME wire' = <<>> PROVE \A c \in Calls : ~Due(c)'
  BY <1>3 DEF Due, ToSet
<1>4. CASE StreamFails
  <2>1. UNCHANGED <<server, accepted, conns, pc, mics, incoming>> /\ wire' = <<>>
    BY <1>4 DEF StreamFails
  <2> QED BY <1>3, <2>1, SameMedia, HushImplements
<1>5. CASE Unauthorized
  <2>1. /\ wire' = <<>> /\ conns' = {} /\ incoming' = None /\ UNCHANGED <<server, accepted>>
        /\ mics' = [c \in Calls |-> 0] /\ pc' = [p \in Askers \X Calls |-> "idle"]
    BY <1>5 DEF Unauthorized
  <2>2. ASSUME NEW c \in Calls
        PROVE MediaSeen(c)' = IF MediaSeen(c) \in {"asked", "on"} THEN "over" ELSE MediaSeen(c)
    BY <2>1 DEF MediaSeen, HasMic
  <2>3. Medias' = [c \in Calls |-> IF Medias[c] \in {"asked", "on"} THEN "over" ELSE Medias[c]]
    BY <2>2 DEF Medias
  <2>4. Promise!SomeCease
    BY <1>3, <2>1, BellsCease
  <2> QED BY <2>1, <2>3, <2>4 DEF Promise!Leave, Medias
<1> QED BY <1>1, <1>2, <1>4, <1>5 DEF Stream, Connect

\* Noticing, looking, waiting and clicking promise nothing.
LEMMA AnswererImplements ==
  ASSUME IInv, [Next]_vars, Answerer \/ ClickAccept \/ ClickReject
  PROVE UNCHANGED Promise!vars
<1>1. UNCHANGED <<server, accepted, conns, mics, incoming, wire>>
  BY DEF Answerer, NoticeIncoming, TimerFires, CancelTimer, NotOurs, ArmTimer, AnswerAtOnce,
     ClickAccept, ClickReject
<1>2. Medias' = Medias
  <2>1. \/ pc' = pc
        \/ \E a \in Askers, c \in Calls : Goto(<<a, c>>, "check") /\ pc[<<a, c>>] = "idle"
    <3>1. CASE Answerer
      BY <3>1 DEF Answerer, NoticeIncoming, TimerFires, CancelTimer, NotOurs, ArmTimer,
           AnswerAtOnce, Answer, IInv, Types, PageTypes, Askers
    <3>2. CASE ClickAccept
      <4>1. incoming \in Calls /\ "modal" \in Askers /\ pc[<<"modal", incoming>>] = "idle"
        BY <3>2 DEF ClickAccept, ModalBusy, IInv, Types, StoreTypes, Askers
      <4> QED BY <3>2, <4>1 DEF ClickAccept
    <3> QED BY <3>1, <3>2 DEF ClickReject
  <2>2. CASE pc' = pc
    BY <1>1, <2>2, SameMedia
  <2>3. ASSUME NEW a \in Askers, NEW c \in Calls, Goto(<<a, c>>, "check"), pc[<<a, c>>] = "idle"
        PROVE Medias' = Medias
    BY <1>1, <2>3, MoveMedia DEF IInv, Types, Media
  <2> QED BY <2>1, <2>2, <2>3
<1> QED BY <1>1, <1>2, SameWire, StutterImplements

\* A request to end a call ends it, if it is live and the request gets through.
LEMMA RejectImplements ==
  ASSUME IInv, [Next]_vars, NEW c \in Calls, RejectSettles(c)
  PROVE Promise!End(c) \/ Promise!Hush
<1>1. UNCHANGED <<conns, pc, mics>> /\ incoming' = None
  BY DEF RejectSettles
<1>2. CASE c \in Live /\ BrokerEnds(c)
  <2>1. accepted' = accepted
    BY <1>2 DEF BrokerEnds
  <2> QED BY <1>1, <1>2, <2>1, SameMedia, EndImplements
<1>3. CASE ~(c \in Live /\ BrokerEnds(c))
  <2>1. UNCHANGED <<server, accepted, wire>>
    BY <1>3 DEF RejectSettles, EndIfLive
  <2> QED BY <1>1, <2>1, SameMedia, SameWire, HushImplements
<1> QED BY <1>2, <1>3

\* The peer or the operator hangs up.
LEMMA HangUpImplements ==
  ASSUME IInv, [Next]_vars, NEW c \in Calls, PeerEnds(c) \/ EndCall(c)
  PROVE Promise!End(c)
<1>1. /\ c \in Live /\ BrokerEnds(c)
      /\ UNCHANGED <<accepted, conns, pc, mics, incoming>>
  BY DEF PeerEnds, EndCall, BrokerEnds
<1> QED BY <1>1, SameMedia, EndImplements

\* A mutation gives its call's media up, or closes them.
LEMMA CloseImplements ==
  ASSUME IInv, [Next]_vars, NEW a \in Askers, NEW c \in Calls, NEW label,
         Goto(<<a, c>>, label), pc[<<a, c>>] \in Media, label \notin Media,
         UNCHANGED <<server, accepted, conns, wire>>, incoming' \in {incoming, None},
         mics' = [mics EXCEPT ![c] = 0]
  PROVE Promise!Close(c)
<1>1. PageTypes /\ OneMedia
  BY DEF IInv, Types
<1>2. /\ c \in accepted /\ c \notin conns
      /\ \A b \in Askers \ {a} : pc[<<b, c>>] \notin Media
      /\ MediaSeen(c) \in {"asked", "on"}
  BY <1>1, AtWork
<1>3. MediaSeen(c)' = "over"
  <2>1. \A b \in Askers : pc'[<<b, c>>] \notin Media
    BY <1>1, <1>2, GotoAt
  <2> QED BY <1>2, <2>1 DEF MediaSeen, HasMic, Media
<1>4. \A d \in Calls \ {c} : MediaSeen(d)' = MediaSeen(d)
  BY <1>1, MoveMedia
<1>5. Medias[c] \in {"asked", "on"} /\ Medias' = [Medias EXCEPT ![c] = "over"]
  BY <1>2, <1>3, <1>4 DEF Medias
<1>6. Promise!SomeCease
  BY SameWire, BellsCease
<1> QED BY <1>5, <1>6 DEF Promise!Close, Medias

\* A mutation moves on, and the media of its call are as far as they were.
LEMMA MoveImplements ==
  ASSUME IInv, [Next]_vars, NEW a \in Askers, NEW c \in Calls, NEW label,
         Goto(<<a, c>>, label), UNCHANGED <<server, accepted, mics>>,
         MediaSeen(c)' = MediaSeen(c), \A d \in Calls \ {c} : MediaSeen(d)' = MediaSeen(d),
         incoming' \in {incoming, None}, \A d \in Calls : Due(d)' <=> Due(d)
  PROVE Promise!Hush
<1>1. Medias' = Medias
  BY DEF Medias
<1> QED BY <1>1, HushImplements

\* Before the microphone is granted, there is none.
LEMMA NoMicYet ==
  ASSUME IInv, NEW a \in Askers, NEW c \in Calls, pc[<<a, c>>] \in {"config", "mic"}
  PROVE MediaSeen(c) = "asked" /\ mics[c] = 0 /\ mics = [mics EXCEPT ![c] = 0]
<1>1. PageTypes /\ OneMedia /\ OneMic
  BY DEF IInv, Types
<1>2. /\ c \notin conns /\ MediaSeen(c) = "asked"
      /\ \A b \in Askers \ {a} : pc[<<b, c>>] \notin Media
  BY <1>1, AtWork DEF Media
<1>3. ~HasMic(c)
  BY <1>2 DEF HasMic, Media
<1> QED BY <1>1, <1>2, <1>3 DEF OneMic, PageTypes

\* doAccept, until the engine has the call: it is taken here, or nothing is promised.
LEMMA AcceptImplements ==
  ASSUME IInv, [Next]_vars, NEW a \in Askers, NEW c \in Calls,
         \/ RequestFails(<<a, c>>) \/ CheckOwner(<<a, c>>)
         \/ Claim(<<a, c>>) \/ AcceptCall(<<a, c>>)
  PROVE Promise!Take(c) \/ Promise!Close(c) \/ Promise!Hush
<1>1. PageTypes /\ ChannelTypes /\ OneMedia
  BY DEF IInv, Types
<1>2. CASE RequestFails(<<a, c>>)
  <2>1. /\ Goto(<<a, c>>, "idle") /\ UNCHANGED <<server, accepted, conns, incoming, mics, wire>>
        /\ pc[<<a, c>>] = "config" \/ pc[<<a, c>>] \notin Media
    BY <1>2 DEF RequestFails, Media
  <2>2. CASE pc[<<a, c>>] = "config"
    <3>1. mics' = [mics EXCEPT ![c] = 0]
      BY <2>1, <2>2, NoMicYet
    <3> QED BY <2>1, <2>2, <3>1, CloseImplements DEF Media
  <2>3. CASE pc[<<a, c>>] \notin Media
    BY <1>1, <2>1, <2>3, MoveMedia, SameWire, HushImplements DEF Media
  <2> QED BY <2>1, <2>2, <2>3
<1>3. CASE CheckOwner(<<a, c>>)
  <2>1. PICK label \in {"idle", "claim"} : Goto(<<a, c>>, label)
    BY <1>3 DEF CheckOwner, Conflict
  <2>2. /\ UNCHANGED <<server, accepted, conns, mics, wire>> /\ incoming' \in {incoming, None}
        /\ pc[<<a, c>>] \notin Media
    BY <1>3 DEF CheckOwner, Conflict, Media
  <2> QED BY <1>1, <2>1, <2>2, MoveMedia, SameWire, HushImplements DEF Media
<1>4. CASE Claim(<<a, c>>)
  <2>1. PICK label \in {"idle", "accept"} : Goto(<<a, c>>, label)
    BY <1>4 DEF Claim, Conflict
  <2>2. /\ UNCHANGED <<server, accepted, conns, mics>> /\ incoming' \in {incoming, None}
        /\ pc[<<a, c>>] \notin Media
        /\ wire' = wire \/ Broadcast(<<Event("incoming-claimed", c)>>)
    BY <1>4 DEF Claim, Conflict, Media
  <2>3. \A d \in Calls : Due(d)' <=> Due(d)
    BY <1>1, <2>2, SameWire, OtherNews, SameDue DEF Kinds
  <2> QED BY <1>1, <2>1, <2>2, <2>3, MoveMedia, HushImplements DEF Media
<1>5. CASE AcceptCall(<<a, c>>)
  <2>1. /\ server[c] = "ringing" /\ c \notin accepted /\ accepted' = accepted \union {c}
        /\ Goto(<<a, c>>, "config") /\ UNCHANGED <<server, conns, mics, incoming, wire>>
    BY <1>5 DEF AcceptCall
  <2>2. c \notin conns /\ \A b \in Askers : pc[<<b, c>>] \notin Media
    BY <1>1, <2>1 DEF OneMedia
  <2>3. /\ pc'[<<a, c>>] = "config"
        /\ \A b \in Askers : \A d \in Calls : b # a \/ d # c => pc'[<<b, d>>] = pc[<<b, d>>]
    BY <1>1, <2>1, GotoAt
  <2>4. MediaSeen(c) = "none" /\ MediaSeen(c)' = "asked"
    BY <2>1, <2>2, <2>3 DEF MediaSeen, HasMic, Media
  <2>5. \A d \in Calls \ {c} : MediaSeen(d)' = MediaSeen(d)
    BY <2>1, <2>3 DEF MediaSeen, HasMic
  <2>6. Medias[c] = "none" /\ Medias' = [Medias EXCEPT ![c] = "asked"]
    BY <2>4, <2>5 DEF Medias
  <2>7. Bells' = Bells
    BY <2>1, SameWire, BellsSame
  <2> QED BY <2>1, <2>6, <2>7 DEF Promise!Take, Bells, Medias
<1> QED BY <1>2, <1>3, <1>4, <1>5

\* openCall: the one microphone of the call is opened and closed, once.
LEMMA OpenImplements ==
  ASSUME IInv, [Next]_vars, NEW a \in Askers, NEW c \in Calls,
         \/ ServerTalks(<<a, c>>) \/ OpenCall(<<a, c>>) \/ MicDenied(<<a, c>>)
         \/ MicGranted(<<a, c>>) \/ MediaFails(<<a, c>>) \/ Bridged(<<a, c>>)
         \/ Register(<<a, c>>)
  PROVE Promise!Open(c) \/ Promise!Close(c) \/ Promise!Hush
<1>1. PageTypes /\ OneMedia /\ OneMic
  BY DEF IInv, Types
<1>2. CASE ServerTalks(<<a, c>>) \/ MicDenied(<<a, c>>)
  <2>1. PICK label \in {"idle", "hangup"} : Goto(<<a, c>>, label)
    BY <1>2 DEF ServerTalks, MicDenied, AfterFailure
  <2>2. /\ UNCHANGED <<server, accepted, conns, mics, wire>> /\ incoming' \in {incoming, None}
        /\ pc[<<a, c>>] \in {"config", "mic"}
    BY <1>2 DEF ServerTalks, MicDenied
  <2>3. mics' = [mics EXCEPT ![c] = 0]
    BY <2>2, NoMicYet
  <2> QED BY <2>1, <2>2, <2>3, CloseImplements DEF Media
<1>3. CASE MediaFails(<<a, c>>)
  <2>1. PICK label \in {"idle", "hangup"} : Goto(<<a, c>>, label)
    BY <1>3 DEF MediaFails, AfterFailure
  <2>2. /\ UNCHANGED <<server, accepted, conns, incoming, wire>>
        /\ pc[<<a, c>>] \in {"sdp", "answer"} /\ mics' = [mics EXCEPT ![c] = @ - 1]
    BY <1>3 DEF MediaFails, MicOff
  <2>3. mics[c] = 1
    BY <1>1, <2>2 DEF OneMic, HasMic
  <2>4. mics' = [mics EXCEPT ![c] = 0]
    BY <2>2, <2>3
  <2> QED BY <2>1, <2>2, <2>4, CloseImplements DEF Media
<1>4. CASE MicGranted(<<a, c>>)
  <2>1. /\ pc[<<a, c>>] = "mic" /\ Goto(<<a, c>>, "sdp")
        /\ mics' = [mics EXCEPT ![c] = @ + 1]
        /\ UNCHANGED <<server, accepted, conns, incoming, wire>>
    BY <1>4 DEF MicGranted, MicOn
  <2>2. MediaSeen(c) = "asked" /\ mics' = [mics EXCEPT ![c] = 1]
    <3>1. MediaSeen(c) = "asked" /\ mics[c] = 0
      BY <2>1, NoMicYet
    <3> QED BY <2>1, <3>1
  <2>3. MediaSeen(c)' = "on"
    <3>1. c \in accepted /\ pc'[<<a, c>>] = "sdp"
      BY <1>1, <2>1, AtWork, GotoAt DEF Media
    <3> QED BY <2>1, <3>1 DEF MediaSeen, HasMic
  <2>4. \A d \in Calls \ {c} : MediaSeen(d)' = MediaSeen(d)
    BY <1>1, <2>1, MoveMedia
  <2>5. Medias[c] = "asked" /\ Medias' = [Medias EXCEPT ![c] = "on"]
    BY <2>2, <2>3, <2>4 DEF Medias
  <2>6. Bells' = Bells
    BY <2>1, SameWire, BellsSame
  <2> QED BY <2>1, <2>2, <2>5, <2>6 DEF Promise!Open, Bells, Medias
<1>5. CASE OpenCall(<<a, c>>) \/ Bridged(<<a, c>>)
  <2>1. /\ \/ pc[<<a, c>>] = "config" /\ Goto(<<a, c>>, "mic")
           \/ pc[<<a, c>>] = "sdp" /\ Goto(<<a, c>>, "answer")
        /\ UNCHANGED <<server, accepted, conns, mics, incoming, wire>>
    BY <1>5 DEF OpenCall, Bridged
  <2>2. PICK label : Goto(<<a, c>>, label)
    BY <2>1
  <2>3. /\ c \in accepted /\ c \notin conns
        /\ \A b \in Askers \ {a} : pc[<<b, c>>] \notin Media /\ pc'[<<b, c>>] \notin Media
        /\ \/ pc[<<a, c>>] = "config" /\ pc'[<<a, c>>] = "mic"
           \/ pc[<<a, c>>] = "sdp" /\ pc'[<<a, c>>] = "answer"
    BY <1>1, <2>1, AtWork, GotoAt DEF Media
  <2>4. MediaSeen(c)' = MediaSeen(c)
    BY <2>1, <2>3 DEF MediaSeen, HasMic, Media
  <2>5. \A d \in Calls \ {c} : MediaSeen(d)' = MediaSeen(d)
    BY <1>1, <2>1, <2>2, MoveMedia
  <2> QED BY <2>1, <2>2, <2>4, <2>5, SameWire, MoveImplements
<1>6. CASE Register(<<a, c>>)
  <2>1. /\ pc[<<a, c>>] = "answer" /\ Goto(<<a, c>>, "idle") /\ conns' = conns \union {c}
        /\ incoming' \in {incoming, None} /\ UNCHANGED <<server, accepted, mics, wire>>
    BY <1>6 DEF Register
  <2>2. MediaSeen(c)' = MediaSeen(c)
    BY <1>1, <2>1, AtWork DEF MediaSeen, HasMic, Media
  <2>3. \A d \in Calls \ {c} : MediaSeen(d)' = MediaSeen(d)
    <3>1. \A b \in Askers : \A d \in Calls : b # a \/ d # c => pc'[<<b, d>>] = pc[<<b, d>>]
      BY <1>1, <2>1, GotoAt
    <3> QED BY <2>1, <3>1 DEF MediaSeen, HasMic
  <2> QED BY <2>1, <2>2, <2>3, SameWire, MoveImplements
<1> QED BY <1>2, <1>3, <1>4, <1>5, <1>6

\* A failed accept hangs up.
LEMMA GiveUpImplements ==
  ASSUME IInv, [Next]_vars, NEW a \in Askers, NEW c \in Calls, HangUp(<<a, c>>)
  PROVE Promise!End(c) \/ Promise!Hush
<1>1. /\ Goto(<<a, c>>, "idle") /\ pc[<<a, c>>] = "hangup"
      /\ UNCHANGED <<conns, mics, incoming, accepted>>
  BY DEF HangUp, EndIfLive, BrokerEnds
<1>2. Medias' = Medias
  BY <1>1, MoveMedia DEF IInv, Types, Media
<1>3. CASE c \in Live /\ BrokerEnds(c)
  BY <1>1, <1>2, <1>3, EndImplements
<1>4. CASE ~(c \in Live /\ BrokerEnds(c))
  <2>1. UNCHANGED <<server, wire>>
    BY <1>4 DEF HangUp, EndIfLive
  <2> QED BY <1>1, <1>2, <2>1, SameWire, HushImplements
<1> QED BY <1>3, <1>4

\* Every step of a mutation keeps the promise.
LEMMA StepImplements ==
  ASSUME IInv, [Next]_vars, NEW p \in Askers \X Calls, Step(p)
  PROVE Promise!Next
<1>1. PICK a \in Askers, c \in Calls : p = <<a, c>>
  OBVIOUS
<1>2. CASE RequestFails(p) \/ CheckOwner(p) \/ Claim(p) \/ AcceptCall(p)
  BY <1>1, <1>2, AcceptImplements DEF Promise!Next
<1>3. CASE HangUp(p)
  BY <1>1, <1>3, GiveUpImplements DEF Promise!Next
<1>4. CASE \/ ServerTalks(p) \/ OpenCall(p) \/ MicDenied(p) \/ MicGranted(p)
           \/ MediaFails(p) \/ Bridged(p) \/ Register(p)
  BY <1>1, <1>4, OpenImplements DEF Promise!Next
<1> QED BY <1>2, <1>3, <1>4 DEF Step

\* The phone keeps the promise of OperatorCalls, step by step, whichever asker answers,
\* whatever fails and whatever the stream loses: a call rings here once, is taken once,
\* and has one microphone here at most, once.
THEOREM ImplementsOperatorCallsCorrect == Spec => ImplementsOperatorCalls
<1>1. Init => Promise!Init
  BY CallsAssumption DEF Init, Promise!Init, BellSeen, MediaSeen
<1>2. ASSUME IInv, [Next]_vars PROVE [Promise!Next]_(Promise!vars)
  <2>1. ASSUME NEW c \in Calls, Ring(c) \/ Activate(c) \/ OtherClaims(c)
        PROVE [Promise!Next]_(Promise!vars)
    BY <1>2, <2>1, BrokerImplements DEF Promise!Next
  <2>2. ASSUME NEW c \in Calls, StartScheduled(c) \/ Dial(c) PROVE [Promise!Next]_(Promise!vars)
    BY <1>2, <2>2, PlaceImplements DEF Promise!Next
  <2>3. ASSUME NEW c \in Calls, PeerEnds(c) \/ EndCall(c) PROVE [Promise!Next]_(Promise!vars)
    BY <1>2, <2>3, HangUpImplements DEF Promise!Next
  <2>4. ASSUME NEW c \in Calls, RejectSettles(c) PROVE [Promise!Next]_(Promise!vars)
    BY <1>2, <2>4, RejectImplements DEF Promise!Next
  <2>5. CASE Stream
    BY <1>2, <2>5, StreamImplements DEF Promise!Next
  <2>6. CASE Deliver
    BY <1>2, <2>6, DeliverImplements DEF Promise!Next
  <2>7. CASE Answerer \/ ClickAccept \/ ClickReject
    BY <1>2, <2>7, AnswererImplements
  <2>8. ASSUME NEW p \in Askers \X Calls, Step(p) PROVE [Promise!Next]_(Promise!vars)
    BY <1>2, <2>8, StepImplements
  <2>9. CASE UNCHANGED vars
    BY <2>9, SameMedia, SameWire, StutterImplements DEF vars
  <2> QED BY <1>2, <2>1, <2>2, <2>3, <2>4, <2>5, <2>6, <2>7, <2>8, <2>9 DEF Next
<1> QED BY <1>1, <1>2, Inductive, PTL DEF Spec, ImplementsOperatorCalls, Promise!Spec

=============================================================================
