-------------------------------- MODULE Widget --------------------------------
(***************************************************************************)
(* client/public/widget.js, the telephone that the console puts into       *)
(* Chatwoot: one panel, one variable for the current call and one for a    *)
(* call that rings, set and cleared by the agent's clicks, by              *)
(* continuations of fetch and getUserMedia, and by events of the server.   *)
(* (Which contact a button of Chatwoot is bound to is left out.)           *)
(*                                                                         *)
(* Events come over EventSources that fail and are opened again, and more  *)
(* than one may be open: an event of something that has happened may come  *)
(* late, twice or never, whatever came before it.                          *)
(***************************************************************************)
EXTENDS Naturals, FiniteSets

CONSTANTS Inbound, Outbound, \* calls to the agent and calls the agent may place
          None,
          MaxOpening,        \* bound: tickets asked for at once
          MaxOrphans         \* bound: EventSources other than globalES

Calls == Inbound \union Outbound

ASSUME WidgetAssumption ==
  /\ Inbound \intersect Outbound = {}
  /\ None \notin Calls \union {"me", "other", "server"}
  /\ {MaxOpening, MaxOrphans} \subseteq Nat

VARIABLES
  owner,     \* (server) who answered each call, or None
  rang,      \* (server) calls that have begun
  over,      \* (server) calls that have ended
  call,      \* call: its id, server-side AI, answered, and pc and mic attached
  incoming,  \* incoming
  ring,      \* playRing's timer runs
  panel,     \* #kallia-panel: what it shows
  step,      \* startCall or acceptIncoming of each call, up to its next await
  ai,        \* calls being set up for the server's AI
  mics,      \* calls whose microphone has been opened and not stopped
  lookups,   \* contacts of ringing calls asked for
  global,    \* globalES is set
  orphans,   \* open EventSources that are not globalES
  opening,   \* tickets asked for
  esTimer,   \* a connection is due
  asked,     \* (history) calls whose DELETE or /reject has been sent
  replaced   \* (history) calls that another call took the place of

server == <<owner, rang, over>>
phone == <<call, incoming, ring, panel, step, ai, mics, lookups>>
stream == <<global, orphans, opening, esTimer>>
history == <<asked, replaced>>
vars == <<server, phone, stream, history>>

NoCall == [id |-> None, ai |-> FALSE, answered |-> FALSE, media |-> FALSE]

TypeOK ==
  /\ owner \in [Calls -> {"me", "other", "server", None}]
  /\ {rang, over, ai, mics, lookups, asked, replaced} \subseteq SUBSET Calls
  /\ call \in [id : Calls \union {None}, ai : BOOLEAN, answered : BOOLEAN, media : BOOLEAN]
  /\ call.ai => ~call.media
  /\ incoming \in Inbound \union {None}
  /\ panel \in {"closed", "dial", "incoming", "call"}
  /\ step \in [Calls -> {"no", "mic", "post", "accept", "webrtc", "over"}]
  /\ {ring, global, esTimer} \subseteq BOOLEAN
  /\ orphans \in 0 .. MaxOrphans /\ opening \in 0 .. MaxOpening

Init ==
  /\ owner = [c \in Calls |-> None] /\ rang = {} /\ over = {}
  /\ call = NoCall /\ incoming = None /\ ring = FALSE /\ panel = "closed"
  /\ step = [c \in Calls |-> "no"] /\ ai = {} /\ mics = {} /\ lookups = {}
  /\ global = FALSE /\ orphans = 0 /\ opening = 0
  /\ esTimer = TRUE \* connectEvents() of the script's last line
  /\ asked = {} /\ replaced = {}

-----------------------------------------------------------------------------
(* The stream of events. *)

ConnectEvents == esTimer' = (esTimer \/ ~global)

\* refreshBinding, after changes of the page and every second.
RefreshBinding ==
  /\ ConnectEvents
  /\ UNCHANGED <<server, phone, global, orphans, opening, history>>

\* openEvents asks for a ticket; until it comes neither guard of connectEvents holds.
OpenEvents ==
  /\ esTimer /\ opening < MaxOpening
  /\ esTimer' = FALSE
  /\ opening' = opening + 1
  /\ UNCHANGED <<server, phone, global, orphans, history>>

\* The ticket comes: a second EventSource takes the name of the first.
Opened ==
  /\ opening > 0
  /\ opening' = opening - 1
  /\ IF global THEN orphans < MaxOrphans /\ orphans' = orphans + 1
               ELSE UNCHANGED orphans
  /\ global' = TRUE
  /\ UNCHANGED <<server, phone, esTimer, history>>

\* (mutant) a ticket that is refused is not asked for again
TicketFailsForGood ==
  /\ opening > 0
  /\ opening' = opening - 1
  /\ UNCHANGED <<server, phone, global, orphans, esTimer, history>>

TicketFails ==
  /\ opening > 0
  /\ opening' = opening - 1
  /\ esTimer' = TRUE
  /\ UNCHANGED <<server, phone, global, orphans, history>>

\* onerror of globalES, or of an EventSource whose name is lost.
StreamFails ==
  /\ \/ global /\ global' = FALSE /\ UNCHANGED orphans
     \/ orphans > 0 /\ orphans' = orphans - 1 /\ UNCHANGED global
  /\ esTimer' = (esTimer \/ ~global')
  /\ UNCHANGED <<server, phone, opening, history>>

-----------------------------------------------------------------------------
(* Rejecting, hanging up, closing. *)

\* closePanel with no call: the call that rings is rejected.
Dismiss ==
  /\ incoming' = None /\ ring' = FALSE /\ panel' = "closed"

\* (mutant) only a call that was answered is ended on the server
HangupAnswered ==
  /\ asked' = asked \union (IF call.answered THEN {call.id} ELSE {})
                    \union ({incoming} \ {None})
  /\ mics' = IF call.media THEN mics \ {call.id} ELSE mics
  /\ call' = NoCall
  /\ Dismiss

\* hangup, which closes the panel, which rejects the call that rings.
Hangup ==
  /\ asked' = asked \union {call.id} \union ({incoming} \ {None})
  /\ mics' = IF call.media THEN mics \ {call.id} ELSE mics
  /\ call' = NoCall
  /\ Dismiss

Reject ==
  /\ asked' = asked \union ({incoming} \ {None})
  /\ Dismiss
  /\ UNCHANGED <<call, mics>>

\* The cross of the panel; Esc, unless the call is known to be answered; the button
\* that hangs up.  (The reject button is the second half of it.)
ClosePanel ==
  /\ panel # "closed"
  /\ IF call # NoCall THEN Hangup ELSE Reject
  /\ UNCHANGED <<server, step, ai, lookups, stream, replaced>>

RejectIncoming ==
  /\ panel = "incoming"
  /\ Reject
  /\ UNCHANGED <<server, step, ai, lookups, stream, replaced>>

-----------------------------------------------------------------------------
(* handleEvent *)

Hears == global \/ orphans > 0

MarkAnswered ==
  /\ call' = [call EXCEPT !.answered = TRUE]
  /\ ring' = IF call.answered THEN ring ELSE FALSE

\* A call that begins to ring, unless there is a call; it takes the place of another
\* that rings.
OnIncoming(c) ==
  /\ Hears /\ c \in rang /\ c \in Inbound
  /\ call = NoCall /\ incoming # c
  /\ incoming' = c /\ ring' = TRUE
  /\ panel' = "incoming"
  /\ lookups' = lookups \union {c}
  /\ UNCHANGED <<server, call, step, ai, mics, stream, history>>

\* Its contact and its configuration, or neither: the panel is drawn again, whatever
\* it shows by now.
LookupReturns(c) ==
  /\ c \in lookups
  /\ lookups' = lookups \ {c}
  /\ panel' = "incoming"
  /\ UNCHANGED <<server, call, incoming, ring, step, ai, mics, stream, history>>

\* incoming-claimed, or call-status "connected".
OnConnected(c) ==
  /\ Hears /\ owner[c] # None
  /\ \/ /\ call.id = c
        /\ MarkAnswered
        /\ UNCHANGED <<incoming, panel>>
     \/ /\ call.id # c /\ incoming = c
        /\ incoming' = None /\ ring' = FALSE
        /\ IF owner[c] = "server"
           THEN /\ panel' = "call"
                /\ call' = [id |-> c, ai |-> TRUE, answered |-> TRUE, media |-> FALSE]
           ELSE /\ panel' = "closed"
                /\ UNCHANGED call
  /\ replaced' = IF call' # call /\ call.id \notin {None, c}
                 THEN replaced \union {call.id} ELSE replaced
  /\ UNCHANGED <<server, step, ai, mics, lookups, stream, asked>>

OnEnded(c) ==
  /\ Hears /\ c \in over
  /\ \/ /\ call.id = c
        /\ Hangup
     \/ /\ call.id # c /\ incoming = c
        /\ Dismiss
        /\ UNCHANGED <<call, mics, asked>>
  /\ UNCHANGED <<server, step, ai, lookups, stream, replaced>>

-----------------------------------------------------------------------------
(* acceptIncoming *)

\* (mutant) the call that rings is forgotten and its ring is not
AcceptIncomingRinging(byAI) ==
  /\ panel = "incoming" /\ incoming # None
  /\ LET c == incoming
     IN /\ step[c] \in {"no", "over"}
        /\ call' = [id |-> c, ai |-> byAI, answered |-> FALSE, media |-> FALSE]
        /\ replaced' = replaced \union ({call.id} \ {None})
        /\ step' = [step EXCEPT ![c] = "accept"]
        /\ ai' = IF byAI THEN ai \union {c} ELSE ai \ {c}
        /\ panel' = "call"
  /\ incoming' = None
  /\ UNCHANGED <<server, ring, mics, lookups, stream, asked>>

\* "Atender" and "Atender com IA"; the call is the current one before it is accepted.
AcceptIncoming(byAI) ==
  /\ panel = "incoming" /\ incoming # None
  /\ LET c == incoming
     IN /\ step[c] \in {"no", "over"}
        /\ call' = [id |-> c, ai |-> byAI, answered |-> FALSE, media |-> FALSE]
        /\ replaced' = replaced \union ({call.id} \ {None})
        /\ step' = [step EXCEPT ![c] = "accept"]
        /\ ai' = IF byAI THEN ai \union {c} ELSE ai \ {c}
        /\ panel' = "call"
  /\ incoming' = None /\ ring' = FALSE
  /\ UNCHANGED <<server, mics, lookups, stream, asked>>

\* The server has it connected; the microphone is next, or nothing for the AI.
Accepted(c) ==
  /\ step[c] = "accept" /\ c \notin over
  /\ owner[c] = None
  /\ owner' = [owner EXCEPT ![c] = "me"]
  /\ step' = [step EXCEPT ![c] = IF c \in ai THEN "over" ELSE "mic"]
  /\ IF call.id = c /\ c \in ai THEN MarkAnswered ELSE UNCHANGED <<call, ring>>
  /\ UNCHANGED <<rang, over, incoming, panel, ai, mics, lookups, stream,
                 history>>

\* /webrtc answers: the media are the call's, if it is still the current one.
AcceptDone(c) ==
  /\ step[c] = "webrtc" /\ c \in Inbound
  /\ step' = [step EXCEPT ![c] = "over"]
  /\ IF call.id = c
     THEN /\ call' = [call EXCEPT !.media = TRUE, !.answered = TRUE]
          /\ ring' = IF call.answered THEN ring ELSE FALSE
     ELSE UNCHANGED <<call, ring>>
  /\ UNCHANGED <<server, incoming, panel, ai, mics, lookups, stream, history>>

\* The catch: the call is ended, and stays the current one.
AcceptFails(c) ==
  /\ c \in Inbound /\ step[c] \in {"accept", "mic", "webrtc"}
  /\ step' = [step EXCEPT ![c] = "over"]
  /\ mics' = mics \ {c}
  /\ asked' = asked \union {c}
  /\ UNCHANGED <<server, call, incoming, ring, panel, ai, lookups, stream,
                 replaced>>

-----------------------------------------------------------------------------
(* startCall *)

\* onCall: the panel is drawn over whatever it shows.
OnCall ==
  /\ ConnectEvents
  /\ panel' = "dial"
  /\ UNCHANGED <<server, call, incoming, ring, step, ai, mics, lookups,
                 global, orphans, opening, history>>

\* "Ligar" and "Ligar com IA"
StartCall(c, byAI) ==
  /\ panel = "dial"
  /\ c \in Outbound /\ step[c] = "no"
  /\ step' = [step EXCEPT ![c] = IF byAI THEN "post" ELSE "mic"]
  /\ ai' = IF byAI THEN ai \union {c} ELSE ai
  /\ panel' = "call"
  /\ UNCHANGED <<server, call, incoming, ring, mics, lookups, stream, history>>

\* getUserMedia, of both.
MicOpens(c) ==
  /\ step[c] = "mic"
  /\ mics' = mics \union {c}
  /\ step' = [step EXCEPT ![c] = IF c \in Outbound THEN "post" ELSE "webrtc"]
  /\ UNCHANGED <<server, call, incoming, ring, panel, ai, lookups, stream,
                 history>>

Posted(c) ==
  /\ step[c] = "post"
  /\ rang' = rang \union {c}
  /\ step' = [step EXCEPT ![c] = "webrtc"]
  /\ UNCHANGED <<owner, over, call, incoming, ring, panel, ai, mics, lookups,
                 stream, history>>

\* (mutant) the AI's call is given media as the agent's own
StartDoneMedia(c) ==
  /\ c \in Outbound /\ step[c] = "webrtc"
  /\ step' = [step EXCEPT ![c] = "over"]
  /\ call' = [id |-> c, ai |-> c \in ai, answered |-> FALSE, media |-> TRUE]
  /\ replaced' = replaced \union ({call.id} \ {None})
  /\ ConnectEvents
  /\ UNCHANGED <<server, incoming, ring, panel, ai, mics, lookups,
                 global, orphans, opening, asked>>

\* The call is the current one, whichever is by now and whatever the panel shows.
StartDone(c) ==
  /\ c \in Outbound /\ step[c] = "webrtc"
  /\ step' = [step EXCEPT ![c] = "over"]
  /\ call' = [id |-> c, ai |-> c \in ai, answered |-> FALSE, media |-> c \notin ai]
  /\ replaced' = replaced \union ({call.id} \ {None})
  /\ ConnectEvents
  /\ UNCHANGED <<server, incoming, ring, panel, ai, mics, lookups,
                 global, orphans, opening, asked>>

\* (mutant) the catch leaves the microphone to the peer connection
StartFailsOpen(c) ==
  /\ c \in Outbound /\ step[c] \in {"mic", "post", "webrtc"}
  /\ step' = [step EXCEPT ![c] = "over"]
  /\ UNCHANGED <<server, call, incoming, ring, panel, ai, mics, lookups, stream,
                 history>>

\* The catch: nothing is said to the server of a call that has been placed.
StartFails(c) ==
  /\ c \in Outbound /\ step[c] \in {"mic", "post", "webrtc"}
  /\ step' = [step EXCEPT ![c] = "over"]
  /\ mics' = mics \ {c}
  /\ UNCHANGED <<server, call, incoming, ring, panel, ai, lookups, stream,
                 history>>

-----------------------------------------------------------------------------
(* The server, as the widget meets it. *)

Rings(c) ==
  /\ c \in Inbound \ rang
  /\ rang' = rang \union {c}
  /\ UNCHANGED <<owner, over, phone, stream, history>>

\* The peer answers a call that was placed; another operator or the server's AI
\* answers one that rings.
Answered(c) ==
  /\ c \in rang \ over /\ owner[c] = None
  /\ \E w \in IF c \in Inbound THEN {"other", "server"} ELSE {"me"} :
       owner' = [owner EXCEPT ![c] = w]
  /\ UNCHANGED <<rang, over, phone, stream, history>>

\* The peer, another operator or a request of the widget ends it.
Ends(c) ==
  /\ c \in rang \ over
  /\ over' = over \union {c}
  /\ UNCHANGED <<owner, rang, phone, stream, history>>

-----------------------------------------------------------------------------
Agent ==
  \/ ClosePanel \/ RejectIncoming \/ OnCall
  \/ \E byAI \in BOOLEAN : \/ AcceptIncoming(byAI)
                           \/ \E c \in Outbound : StartCall(c, byAI)

Continuations(c) ==
  \/ Accepted(c) \/ AcceptDone(c) \/ AcceptFails(c)
  \/ MicOpens(c) \/ Posted(c) \/ StartDone(c) \/ StartFails(c) \/ LookupReturns(c)

Heard(c) == OnIncoming(c) \/ OnConnected(c) \/ OnEnded(c)

Next ==
  \/ Agent
  \/ \E c \in Calls : Continuations(c) \/ Heard(c) \/ Rings(c) \/ Answered(c) \/ Ends(c)
  \/ RefreshBinding \/ OpenEvents \/ Opened \/ TicketFails \/ StreamFails

Spec == Init /\ [][Next]_vars

-----------------------------------------------------------------------------
(* Properties. *)

\* The telephone rings only while there is a call to answer, in whatever order the
\* events of two streams, the clicks and the rejection that comes with closing the
\* panel are handled.
RingsForSomebody == ring => incoming # None

\* The widget is never deaf for good: an EventSource is open, a ticket is on its way,
\* or a connection is due.
StreamDue == global \/ opening > 0 \/ esTimer

\* A microphone that is open is the current call's, or belongs to a call being set up;
\* the others are calls dropped before they had it, or with another put in their place.
MicsAccounted ==
  \A c \in mics : \/ call.id = c /\ call.media
                  \/ step[c] \in {"mic", "post", "webrtc"}
                  \/ c \in asked \union replaced

\* A call that the agent has taken is never dropped in silence: it is the current
\* call, or its end has been asked for, or another call took its place.
NothingLeftBehind ==
  \A c \in Inbound : step[c] # "no" => call.id = c \/ c \in asked \union replaced
=============================================================================
