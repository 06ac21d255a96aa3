----------------------------- MODULE WidgetProofs -----------------------------
(***************************************************************************)
(* Proofs about Widget, for any calls and any bounds: the telephone rings  *)
(* only for a call, is never deaf for good, and leaves neither a           *)
(* microphone nor a call that was taken behind.                            *)
(***************************************************************************)
EXTENDS Widget, TLAPS

USE DEF server, phone, stream, history

CallRecords ==
  [id : Calls \union {None}, ai : BOOLEAN, answered : BOOLEAN, media : BOOLEAN]

\* The variables of the server, the panel, the calls being set up and the streams.
ServerTypes ==
  /\ owner \in [Calls -> {"me", "other", "server", None}]
  /\ rang \subseteq Calls /\ over \subseteq Calls
  /\ asked \subseteq Calls /\ replaced \subseteq Calls
PanelTypes ==
  /\ call \in CallRecords
  /\ call.id = None => call = NoCall
  /\ incoming \in Inbound \union {None} /\ ring \in BOOLEAN
  /\ panel \in {"closed", "dial", "incoming", "call"}
SetupTypes ==
  /\ step \in [Calls -> {"no", "mic", "post", "accept", "webrtc", "over"}]
  /\ ai \subseteq Calls /\ mics \subseteq Calls /\ lookups \subseteq Calls
StreamTypes ==
  /\ global \in BOOLEAN /\ esTimer \in BOOLEAN
  /\ orphans \in 0 .. MaxOrphans /\ opening \in 0 .. MaxOpening

Types == ServerTypes /\ PanelTypes /\ SetupTypes /\ StreamTypes

\* A call that nobody has begun to set up has no microphone, and no AI; a call that
\* is placed for the AI never has one; a call that rings is not placed.
Untouched ==
  /\ \A c \in Calls : step[c] = "no" => c \notin mics /\ c \notin ai
  /\ \A c \in Outbound \intersect ai : step[c] # "mic" /\ c \notin mics
  /\ \A c \in Inbound : step[c] # "post"

\* The current call is the AI's while its own accept for the AI is under way; a call
\* whose accept goes on to a microphone is the agent's, here and on the server.
Taken ==
  \A c \in Inbound :
    /\ step[c] = "accept" /\ owner[c] = None /\ call.id = c => call.ai = (c \in ai)
    /\ step[c] \in {"mic", "webrtc"} => owner[c] = "me" /\ (call.id = c => ~call.ai)

\* A call is the server's AI's or has media here, never both.
Separate == call.ai => ~call.media

IInv ==
  /\ Types /\ Untouched /\ Taken /\ Separate
  /\ RingsForSomebody /\ StreamDue /\ MicsAccounted /\ NothingLeftBehind

-----------------------------------------------------------------------------
(* What the steps do to the current call. *)

\* No call is the one without an id.
LEMMA NoCallIs ==
  /\ NoCall.id = None /\ ~NoCall.ai /\ ~NoCall.media /\ ~NoCall.answered
  /\ NoCall \in CallRecords
BY DEF CallRecords, NoCall

\* An answer leaves the call its id and its media.
LEMMA MarkAnsweredCall ==
  ASSUME PanelTypes, MarkAnswered
  PROVE /\ call' \in CallRecords /\ call'.id = call.id
        /\ call'.ai = call.ai /\ call'.media = call.media
        /\ ring' \in BOOLEAN
<1>1. call' \in CallRecords /\ call'.id = call.id
  BY DEF PanelTypes, MarkAnswered, CallRecords
<1>2. call'.ai = call.ai /\ call'.media = call.media
  BY DEF PanelTypes, MarkAnswered, CallRecords
<1>3. ring' \in BOOLEAN
  BY DEF PanelTypes, MarkAnswered
<1> QED BY <1>1, <1>2, <1>3

\* The call that is accepted is the current one.
LEMMA AcceptIncomingCall ==
  ASSUME Types, NEW byAI \in BOOLEAN, AcceptIncoming(byAI)
  PROVE /\ incoming \in Inbound /\ step[incoming] \in {"no", "over"}
        /\ call' \in CallRecords /\ call'.id = incoming
        /\ call'.ai = byAI /\ ~call'.media
        /\ replaced' = replaced \union ({call.id} \ {None})
        /\ step' = [step EXCEPT ![incoming] = "accept"]
        /\ ai' = IF byAI THEN ai \union {incoming} ELSE ai \ {incoming}
<1>1. /\ incoming \in Inbound /\ step[incoming] \in {"no", "over"}
      /\ call' = [id |-> incoming, ai |-> byAI, answered |-> FALSE, media |-> FALSE]
  BY DEF Types, PanelTypes, AcceptIncoming
<1>2. call' \in CallRecords /\ call'.id = incoming /\ call'.ai = byAI /\ ~call'.media
  BY <1>1 DEF CallRecords, Calls
<1>3. /\ replaced' = replaced \union ({call.id} \ {None})
      /\ step' = [step EXCEPT ![incoming] = "accept"]
      /\ ai' = IF byAI THEN ai \union {incoming} ELSE ai \ {incoming}
  BY DEF AcceptIncoming
<1> QED BY <1>1, <1>2, <1>3

\* The media become the call's, if it is still the current one.
LEMMA AcceptDoneCall ==
  ASSUME PanelTypes, NEW c \in Calls, AcceptDone(c)
  PROVE /\ call' \in CallRecords /\ call'.id = call.id /\ call'.ai = call.ai
        /\ IF call.id = c THEN call'.media ELSE call' = call
        /\ ring' \in BOOLEAN
<1>1. call' = IF call.id = c THEN [call EXCEPT !.media = TRUE, !.answered = TRUE] ELSE call
  BY DEF AcceptDone
<1>2. call' \in CallRecords /\ call'.id = call.id
  BY <1>1 DEF PanelTypes, CallRecords
<1>3. call'.ai = call.ai
  BY <1>1 DEF PanelTypes, CallRecords
<1>4. IF call.id = c THEN call'.media ELSE call' = call
  BY <1>1 DEF PanelTypes, CallRecords
<1>5. ring' \in BOOLEAN
  BY DEF PanelTypes, AcceptDone
<1> QED BY <1>2, <1>3, <1>4, <1>5

\* The call that was placed is the current one.
LEMMA StartDoneCall ==
  ASSUME NEW c \in Calls, StartDone(c)
  PROVE /\ call' \in CallRecords /\ call'.id = c
        /\ call'.ai <=> c \in ai
        /\ call'.media <=> c \notin ai
        /\ replaced' = replaced \union ({call.id} \ {None})
        /\ step' = [step EXCEPT ![c] = "over"] /\ c \in Outbound
<1>1. call' = [id |-> c, ai |-> c \in ai, answered |-> FALSE, media |-> c \notin ai]
  BY DEF StartDone
<1>2. call' \in CallRecords
  BY <1>1 DEF CallRecords
<1>3. call'.id = c /\ (call'.ai <=> c \in ai) /\ (call'.media <=> c \notin ai)
  BY <1>1
<1>4. /\ replaced' = replaced \union ({call.id} \ {None})
      /\ step' = [step EXCEPT ![c] = "over"] /\ c \in Outbound
  BY DEF StartDone
<1> QED BY <1>2, <1>3, <1>4

\* An answer is of the current call, or of the one that rings: that call becomes the
\* current one if it is the server's, and the one it replaces is remembered.
LEMMA OnConnectedCall ==
  ASSUME Types, NEW c \in Calls, OnConnected(c)
  PROVE /\ call' \in CallRecords /\ ring' \in BOOLEAN /\ replaced \subseteq replaced'
        /\ call' = call \/ call'.id = c
        /\ \/ call'.id = call.id /\ call'.ai = call.ai /\ call'.media = call.media
           \/ /\ c \in Inbound /\ owner[c] = "server"
              /\ call'.id = c /\ call'.ai /\ ~call'.media
              /\ call.id = None \/ call.id \in replaced'
<1> USE DEF Types
<1>1. replaced' = IF call' # call /\ call.id \notin {None, c}
                  THEN replaced \union {call.id} ELSE replaced
  BY DEF OnConnected
<1>2. CASE call.id = c /\ MarkAnswered
  BY <1>1, <1>2, MarkAnsweredCall
<1>3. CASE call.id # c /\ incoming = c /\ owner[c] = "server" /\ ring' = FALSE
           /\ call' = [id |-> c, ai |-> TRUE, answered |-> TRUE, media |-> FALSE]
  <2>1. call' \in CallRecords /\ call'.id = c /\ call'.ai /\ ~call'.media
    BY <1>3 DEF CallRecords
  <2>2. c \in Inbound
    BY <1>3, WidgetAssumption DEF PanelTypes, Calls
  <2>3. call' # call
    BY <1>3, <2>1
  <2> QED BY <1>1, <1>3, <2>1, <2>2, <2>3
<1>4. CASE call' = call /\ ring' = FALSE
  BY <1>1, <1>4 DEF PanelTypes
<1> QED BY <1>2, <1>3, <1>4 DEF OnConnected

\* No call is left when it is hung up, and its end has been asked for.
LEMMA ClosePanelCall ==
  ASSUME Types, ClosePanel
  PROVE /\ call' = NoCall /\ asked \subseteq asked' /\ asked' \subseteq Calls
        /\ call.id # None => call.id \in asked'
        /\ IF call.media THEN mics' = mics \ {call.id} ELSE mics' = mics
        /\ incoming' = None /\ ring' = FALSE /\ panel' = "closed"
<1> USE DEF Types, ServerTypes, PanelTypes
<1>1. CASE call # NoCall /\ Hangup
  <2>1. call.id \in Calls
    BY <1>1 DEF CallRecords
  <2>2. incoming \in Calls \union {None}
    BY DEF Calls
  <2> QED BY <1>1, <2>1, <2>2 DEF Hangup, Dismiss
<1>2. CASE call = NoCall /\ Reject
  <2>1. incoming \in Calls \union {None}
    BY DEF Calls
  <2> QED BY <1>2, <2>1, NoCallIs DEF Reject, Dismiss
<1> QED BY <1>1, <1>2 DEF ClosePanel

\* The end of a call is its own hanging up, or stops its ring.
LEMMA OnEndedCall ==
  ASSUME Types, NEW c \in Calls, OnEnded(c)
  PROVE /\ asked \subseteq asked' /\ asked' \subseteq Calls
        /\ \/ /\ call' = NoCall /\ call.id \in asked'
              /\ IF call.media THEN mics' = mics \ {call.id} ELSE mics' = mics
           \/ call' = call /\ mics' = mics
        /\ incoming' = None /\ ring' = FALSE /\ panel' = "closed"
<1> USE DEF Types, ServerTypes, PanelTypes
<1>1. incoming \in Calls \union {None}
  BY DEF Calls
<1>2. CASE call.id = c /\ Hangup
  BY <1>1, <1>2 DEF Hangup, Dismiss
<1>3. CASE Dismiss /\ UNCHANGED <<call, mics, asked>>
  BY <1>3 DEF Dismiss
<1> QED BY <1>2, <1>3 DEF OnEnded

-----------------------------------------------------------------------------
\* Every step keeps ServerTypes.
LEMMA ServerTypesNext ==
  Types /\ [Next]_vars => ServerTypes'
<1> SUFFICES ASSUME Types, [Next]_vars PROVE ServerTypes'
  OBVIOUS
<1> USE DEF Types, Calls, ServerTypes, PanelTypes
<1>1. ASSUME ClosePanel PROVE ServerTypes'
  BY <1>1, ClosePanelCall DEF ClosePanel
<1>2. ASSUME RejectIncoming PROVE ServerTypes'
  BY <1>2 DEF RejectIncoming, Reject, Dismiss
<1>3. ASSUME OnCall PROVE ServerTypes'
  BY <1>3 DEF OnCall, ConnectEvents
<1>4. ASSUME NEW byAI \in BOOLEAN, AcceptIncoming(byAI) PROVE ServerTypes'
  BY <1>4 DEF AcceptIncoming, CallRecords
<1>5. ASSUME NEW byAI \in BOOLEAN, NEW c \in Outbound, StartCall(c, byAI) PROVE ServerTypes'
  BY <1>5 DEF StartCall
<1>6. ASSUME NEW c \in Calls, Accepted(c) PROVE ServerTypes'
  BY <1>6 DEF Accepted, MarkAnswered
<1>7. ASSUME NEW c \in Calls, AcceptDone(c) PROVE ServerTypes'
  BY <1>7 DEF AcceptDone
<1>8. ASSUME NEW c \in Calls, AcceptFails(c) PROVE ServerTypes'
  BY <1>8 DEF AcceptFails
<1>9. ASSUME NEW c \in Calls, MicOpens(c) PROVE ServerTypes'
  BY <1>9 DEF MicOpens
<1>10. ASSUME NEW c \in Calls, Posted(c) PROVE ServerTypes'
  BY <1>10 DEF Posted
<1>11. ASSUME NEW c \in Calls, StartDone(c) PROVE ServerTypes'
  BY <1>11 DEF StartDone, CallRecords
<1>12. ASSUME NEW c \in Calls, StartFails(c) PROVE ServerTypes'
  BY <1>12 DEF StartFails
<1>13. ASSUME NEW c \in Calls, LookupReturns(c) PROVE ServerTypes'
  BY <1>13 DEF LookupReturns
<1>14. ASSUME NEW c \in Calls, OnIncoming(c) PROVE ServerTypes'
  BY <1>14 DEF OnIncoming
<1>15. ASSUME NEW c \in Calls, OnConnected(c) PROVE ServerTypes'
  BY <1>15 DEF OnConnected, CallRecords
<1>16. ASSUME NEW c \in Calls, OnEnded(c) PROVE ServerTypes'
  BY <1>16, OnEndedCall DEF OnEnded
<1>17. ASSUME NEW c \in Calls, Rings(c) PROVE ServerTypes'
  BY <1>17 DEF Rings
<1>18. ASSUME NEW c \in Calls, Answered(c) PROVE ServerTypes'
  BY <1>18 DEF Answered
<1>19. ASSUME NEW c \in Calls, Ends(c) PROVE ServerTypes'
  BY <1>19 DEF Ends
<1>20. ASSUME RefreshBinding PROVE ServerTypes'
  BY <1>20 DEF RefreshBinding, ConnectEvents
<1>21. ASSUME OpenEvents PROVE ServerTypes'
  BY <1>21 DEF OpenEvents
<1>22. ASSUME Opened PROVE ServerTypes'
  BY <1>22 DEF Opened
<1>23. ASSUME TicketFails PROVE ServerTypes'
  BY <1>23 DEF TicketFails
<1>24. ASSUME StreamFails PROVE ServerTypes'
  BY <1>24 DEF StreamFails
<1>25. CASE UNCHANGED vars
  BY <1>25 DEF vars
<1> QED BY <1>1, <1>2, <1>3, <1>4, <1>5, <1>6, <1>7, <1>8, <1>9, <1>10, <1>11, <1>12, <1>13,
     <1>14, <1>15, <1>16, <1>17, <1>18, <1>19, <1>20, <1>21, <1>22, <1>23, <1>24, <1>25 DEF
     Next, Agent, Continuations, Heard

\* Every step keeps PanelTypes.
LEMMA PanelTypesNext ==
  Types /\ [Next]_vars => PanelTypes'
<1> SUFFICES ASSUME Types, [Next]_vars PROVE PanelTypes'
  OBVIOUS
<1> USE DEF Types, PanelTypes
<1>1. ASSUME ClosePanel PROVE PanelTypes'
  BY <1>1, ClosePanelCall, NoCallIs
<1>2. ASSUME RejectIncoming PROVE PanelTypes'
  BY <1>2 DEF RejectIncoming, Reject, Dismiss
<1>3. ASSUME OnCall PROVE PanelTypes'
  BY <1>3 DEF OnCall, ConnectEvents
<1>4. ASSUME NEW byAI \in BOOLEAN, AcceptIncoming(byAI) PROVE PanelTypes'
  <2>1. call' \in CallRecords /\ call'.id # None
    BY <1>4, AcceptIncomingCall, WidgetAssumption DEF Calls
  <2> QED BY <1>4, <2>1 DEF AcceptIncoming
<1>5. ASSUME NEW byAI \in BOOLEAN, NEW c \in Outbound, StartCall(c, byAI) PROVE PanelTypes'
  BY <1>5 DEF StartCall
<1>6. ASSUME NEW c \in Calls, Accepted(c) PROVE PanelTypes'
  <2>1. CASE call.id = c /\ MarkAnswered
    <3>1. /\ call' \in CallRecords /\ (call'.id = None => call' = NoCall)
          /\ ring' \in BOOLEAN
      BY <2>1, MarkAnsweredCall, WidgetAssumption
    <3> QED BY <1>6, <3>1 DEF Accepted
  <2>2. CASE UNCHANGED <<call, ring>>
    BY <1>6, <2>2 DEF Accepted
  <2> QED BY <1>6, <2>1, <2>2 DEF Accepted
<1>7. ASSUME NEW c \in Calls, AcceptDone(c) PROVE PanelTypes'
  <2>1. call' \in CallRecords /\ ring' \in BOOLEAN /\ (call'.id = None => call' = NoCall)
    BY <1>7, AcceptDoneCall, WidgetAssumption
  <2> QED BY <1>7, <2>1 DEF AcceptDone
<1>8. ASSUME NEW c \in Calls, AcceptFails(c) PROVE PanelTypes'
  BY <1>8 DEF AcceptFails
<1>9. ASSUME NEW c \in Calls, MicOpens(c) PROVE PanelTypes'
  BY <1>9 DEF MicOpens
<1>10. ASSUME NEW c \in Calls, Posted(c) PROVE PanelTypes'
  BY <1>10 DEF Posted
<1>11. ASSUME NEW c \in Calls, StartDone(c) PROVE PanelTypes'
  <2>1. call' \in CallRecords /\ call'.id # None
    BY <1>11, StartDoneCall, WidgetAssumption
  <2> QED BY <1>11, <2>1 DEF StartDone
<1>12. ASSUME NEW c \in Calls, StartFails(c) PROVE PanelTypes'
  BY <1>12 DEF StartFails
<1>13. ASSUME NEW c \in Calls, LookupReturns(c) PROVE PanelTypes'
  BY <1>13 DEF LookupReturns
<1>14. ASSUME NEW c \in Calls, OnIncoming(c) PROVE PanelTypes'
  BY <1>14 DEF OnIncoming
<1>15. ASSUME NEW c \in Calls, OnConnected(c) PROVE PanelTypes'
  <2>1. /\ call' \in CallRecords /\ (call'.id = None => call' = NoCall)
        /\ ring' \in BOOLEAN
    BY <1>15, OnConnectedCall, WidgetAssumption
  <2>2. incoming' \in Inbound \union {None}
    BY <1>15 DEF OnConnected
  <2>3. panel' \in {"closed", "dial", "incoming", "call"}
    BY <1>15 DEF OnConnected
  <2> QED BY <2>1, <2>2, <2>3
<1>16. ASSUME NEW c \in Calls, OnEnded(c) PROVE PanelTypes'
  <2>1. call' \in CallRecords /\ (call'.id = None => call' = NoCall)
    BY <1>16, OnEndedCall, NoCallIs
  <2>2. incoming' = None /\ ring' = FALSE /\ panel' = "closed"
    BY <1>16, OnEndedCall
  <2> QED BY <2>1, <2>2
<1>17. ASSUME NEW c \in Calls, Rings(c) PROVE PanelTypes'
  BY <1>17 DEF Rings
<1>18. ASSUME NEW c \in Calls, Answered(c) PROVE PanelTypes'
  BY <1>18 DEF Answered
<1>19. ASSUME NEW c \in Calls, Ends(c) PROVE PanelTypes'
  BY <1>19 DEF Ends
<1>20. ASSUME RefreshBinding PROVE PanelTypes'
  BY <1>20 DEF RefreshBinding, ConnectEvents
<1>21. ASSUME OpenEvents PROVE PanelTypes'
  BY <1>21 DEF OpenEvents
<1>22. ASSUME Opened PROVE PanelTypes'
  BY <1>22 DEF Opened
<1>23. ASSUME TicketFails PROVE PanelTypes'
  BY <1>23 DEF TicketFails
<1>24. ASSUME StreamFails PROVE PanelTypes'
  BY <1>24 DEF StreamFails
<1>25. CASE UNCHANGED vars
  BY <1>25 DEF vars
<1> QED BY <1>1, <1>2, <1>3, <1>4, <1>5, <1>6, <1>7, <1>8, <1>9, <1>10, <1>11, <1>12, <1>13,
     <1>14, <1>15, <1>16, <1>17, <1>18, <1>19, <1>20, <1>21, <1>22, <1>23, <1>24, <1>25 DEF
     Next, Agent, Continuations, Heard

\* Every step keeps SetupTypes.
LEMMA SetupTypesNext ==
  Types /\ [Next]_vars => SetupTypes'
<1> SUFFICES ASSUME Types, [Next]_vars PROVE SetupTypes'
  OBVIOUS
<1> USE DEF Types, Calls, SetupTypes
<1>1. ASSUME ClosePanel PROVE SetupTypes'
  BY <1>1 DEF ClosePanel, Hangup, Reject, Dismiss
<1>2. ASSUME RejectIncoming PROVE SetupTypes'
  BY <1>2 DEF RejectIncoming, Reject, Dismiss
<1>3. ASSUME OnCall PROVE SetupTypes'
  BY <1>3 DEF OnCall, ConnectEvents
<1>4. ASSUME NEW byAI \in BOOLEAN, AcceptIncoming(byAI) PROVE SetupTypes'
  <2>1. incoming \in Calls
    BY <1>4, AcceptIncomingCall
  <2> QED BY <1>4, <2>1, AcceptIncomingCall DEF AcceptIncoming
<1>5. ASSUME NEW byAI \in BOOLEAN, NEW c \in Outbound, StartCall(c, byAI) PROVE SetupTypes'
  BY <1>5 DEF StartCall
<1>6. ASSUME NEW c \in Calls, Accepted(c) PROVE SetupTypes'
  BY <1>6 DEF Accepted, MarkAnswered
<1>7. ASSUME NEW c \in Calls, AcceptDone(c) PROVE SetupTypes'
  BY <1>7 DEF AcceptDone
<1>8. ASSUME NEW c \in Calls, AcceptFails(c) PROVE SetupTypes'
  BY <1>8 DEF AcceptFails
<1>9. ASSUME NEW c \in Calls, MicOpens(c) PROVE SetupTypes'
  BY <1>9 DEF MicOpens
<1>10. ASSUME NEW c \in Calls, Posted(c) PROVE SetupTypes'
  BY <1>10 DEF Posted
<1>11. ASSUME NEW c \in Calls, StartDone(c) PROVE SetupTypes'
  BY <1>11 DEF StartDone, ConnectEvents
<1>12. ASSUME NEW c \in Calls, StartFails(c) PROVE SetupTypes'
  BY <1>12 DEF StartFails
<1>13. ASSUME NEW c \in Calls, LookupReturns(c) PROVE SetupTypes'
  BY <1>13 DEF LookupReturns
<1>14. ASSUME NEW c \in Calls, OnIncoming(c) PROVE SetupTypes'
  BY <1>14 DEF OnIncoming
<1>15. ASSUME NEW c \in Calls, OnConnected(c) PROVE SetupTypes'
  BY <1>15 DEF OnConnected, MarkAnswered
<1>16. ASSUME NEW c \in Calls, OnEnded(c) PROVE SetupTypes'
  BY <1>16 DEF OnEnded, Hangup, Dismiss
<1>17. ASSUME NEW c \in Calls, Rings(c) PROVE SetupTypes'
  BY <1>17 DEF Rings
<1>18. ASSUME NEW c \in Calls, Answered(c) PROVE SetupTypes'
  BY <1>18 DEF Answered
<1>19. ASSUME NEW c \in Calls, Ends(c) PROVE SetupTypes'
  BY <1>19 DEF Ends
<1>20. ASSUME RefreshBinding PROVE SetupTypes'
  BY <1>20 DEF RefreshBinding, ConnectEvents
<1>21. ASSUME OpenEvents PROVE SetupTypes'
  BY <1>21 DEF OpenEvents
<1>22. ASSUME Opened PROVE SetupTypes'
  BY <1>22 DEF Opened
<1>23. ASSUME TicketFails PROVE SetupTypes'
  BY <1>23 DEF TicketFails
<1>24. ASSUME StreamFails PROVE SetupTypes'
  BY <1>24 DEF StreamFails
<1>25. CASE UNCHANGED vars
  BY <1>25 DEF vars
<1> QED BY <1>1, <1>2, <1>3, <1>4, <1>5, <1>6, <1>7, <1>8, <1>9, <1>10, <1>11, <1>12, <1>13,
     <1>14, <1>15, <1>16, <1>17, <1>18, <1>19, <1>20, <1>21, <1>22, <1>23, <1>24, <1>25 DEF
     Next, Agent, Continuations, Heard

\* Every step keeps StreamTypes.
LEMMA StreamTypesNext ==
  Types /\ [Next]_vars => StreamTypes'
<1> SUFFICES ASSUME Types, [Next]_vars PROVE StreamTypes'
  OBVIOUS
<1> USE DEF Types, StreamTypes
<1>1. ASSUME ClosePanel PROVE StreamTypes'
  BY <1>1 DEF ClosePanel, Hangup, Reject, Dismiss
<1>2. ASSUME RejectIncoming PROVE StreamTypes'
  BY <1>2 DEF RejectIncoming, Reject, Dismiss
<1>3. ASSUME OnCall PROVE StreamTypes'
  BY <1>3 DEF OnCall, ConnectEvents
<1>4. ASSUME NEW byAI \in BOOLEAN, AcceptIncoming(byAI) PROVE StreamTypes'
  BY <1>4 DEF AcceptIncoming
<1>5. ASSUME NEW byAI \in BOOLEAN, NEW c \in Outbound, StartCall(c, byAI) PROVE StreamTypes'
  BY <1>5 DEF StartCall
<1>6. ASSUME NEW c \in Calls, Accepted(c) PROVE StreamTypes'
  BY <1>6 DEF Accepted, MarkAnswered
<1>7. ASSUME NEW c \in Calls, AcceptDone(c) PROVE StreamTypes'
  BY <1>7 DEF AcceptDone
<1>8. ASSUME NEW c \in Calls, AcceptFails(c) PROVE StreamTypes'
  BY <1>8 DEF AcceptFails
<1>9. ASSUME NEW c \in Calls, MicOpens(c) PROVE StreamTypes'
  BY <1>9 DEF MicOpens
<1>10. ASSUME NEW c \in Calls, Posted(c) PROVE StreamTypes'
  BY <1>10 DEF Posted
<1>11. ASSUME NEW c \in Calls, StartDone(c) PROVE StreamTypes'
  BY <1>11 DEF StartDone, ConnectEvents
<1>12. ASSUME NEW c \in Calls, StartFails(c) PROVE StreamTypes'
  BY <1>12 DEF StartFails
<1>13. ASSUME NEW c \in Calls, LookupReturns(c) PROVE StreamTypes'
  BY <1>13 DEF LookupReturns
<1>14. ASSUME NEW c \in Calls, OnIncoming(c) PROVE StreamTypes'
  BY <1>14 DEF OnIncoming
<1>15. ASSUME NEW c \in Calls, OnConnected(c) PROVE StreamTypes'
  BY <1>15 DEF OnConnected, MarkAnswered
<1>16. ASSUME NEW c \in Calls, OnEnded(c) PROVE StreamTypes'
  BY <1>16 DEF OnEnded, Hangup, Dismiss
<1>17. ASSUME NEW c \in Calls, Rings(c) PROVE StreamTypes'
  BY <1>17 DEF Rings
<1>18. ASSUME NEW c \in Calls, Answered(c) PROVE StreamTypes'
  BY <1>18 DEF Answered
<1>19. ASSUME NEW c \in Calls, Ends(c) PROVE StreamTypes'
  BY <1>19 DEF Ends
<1>20. ASSUME RefreshBinding PROVE StreamTypes'
  BY <1>20 DEF RefreshBinding, ConnectEvents
<1>21. ASSUME OpenEvents PROVE StreamTypes'
  <2>1. opening' \in 0 .. MaxOpening
    BY <1>21, WidgetAssumption DEF OpenEvents
  <2> QED BY <1>21, <2>1 DEF OpenEvents
<1>22. ASSUME Opened PROVE StreamTypes'
  BY <1>22, WidgetAssumption DEF Opened
<1>23. ASSUME TicketFails PROVE StreamTypes'
  BY <1>23, WidgetAssumption DEF TicketFails
<1>24. ASSUME StreamFails PROVE StreamTypes'
  <2>1. global' \in BOOLEAN
    BY <1>24 DEF StreamFails
  <2>2. esTimer' \in BOOLEAN
    BY <1>24 DEF StreamFails
  <2>3. orphans' \in 0 .. MaxOrphans /\ opening' = opening
    BY <1>24, WidgetAssumption DEF StreamFails
  <2> QED BY <2>1, <2>2, <2>3
<1>25. CASE UNCHANGED vars
  BY <1>25 DEF vars
<1> QED BY <1>1, <1>2, <1>3, <1>4, <1>5, <1>6, <1>7, <1>8, <1>9, <1>10, <1>11, <1>12, <1>13,
     <1>14, <1>15, <1>16, <1>17, <1>18, <1>19, <1>20, <1>21, <1>22, <1>23, <1>24, <1>25 DEF
     Next, Agent, Continuations, Heard

\* Every step keeps Untouched.
LEMMA UntouchedNext ==
  Types /\ Untouched /\ [Next]_vars => Untouched'
<1> SUFFICES ASSUME Types, Untouched, [Next]_vars PROVE Untouched'
  OBVIOUS
<1> USE DEF Types, Calls, SetupTypes, Untouched
<1>1. ASSUME ClosePanel PROVE Untouched'
  BY <1>1 DEF ClosePanel, Hangup, Reject, Dismiss
<1>2. ASSUME RejectIncoming PROVE Untouched'
  BY <1>2 DEF RejectIncoming, Reject, Dismiss
<1>3. ASSUME OnCall PROVE Untouched'
  BY <1>3 DEF OnCall, ConnectEvents
<1>4. ASSUME NEW byAI \in BOOLEAN, AcceptIncoming(byAI) PROVE Untouched'
  <2>1. incoming \in Inbound /\ mics' = mics
    BY <1>4, AcceptIncomingCall DEF AcceptIncoming
  <2> QED BY <1>4, <2>1, AcceptIncomingCall, WidgetAssumption
<1>5. ASSUME NEW byAI \in BOOLEAN, NEW c \in Outbound, StartCall(c, byAI) PROVE Untouched'
  BY <1>5, WidgetAssumption DEF StartCall
<1>6. ASSUME NEW c \in Calls, Accepted(c) PROVE Untouched'
  BY <1>6 DEF Accepted, MarkAnswered
<1>7. ASSUME NEW c \in Calls, AcceptDone(c) PROVE Untouched'
  BY <1>7 DEF AcceptDone
<1>8. ASSUME NEW c \in Calls, AcceptFails(c) PROVE Untouched'
  BY <1>8 DEF AcceptFails
<1>9. ASSUME NEW c \in Calls, MicOpens(c) PROVE Untouched'
  BY <1>9, WidgetAssumption DEF MicOpens
<1>10. ASSUME NEW c \in Calls, Posted(c) PROVE Untouched'
  BY <1>10 DEF Posted
<1>11. ASSUME NEW c \in Calls, StartDone(c) PROVE Untouched'
  BY <1>11 DEF StartDone, ConnectEvents
<1>12. ASSUME NEW c \in Calls, StartFails(c) PROVE Untouched'
  BY <1>12 DEF StartFails
<1>13. ASSUME NEW c \in Calls, LookupReturns(c) PROVE Untouched'
  BY <1>13 DEF LookupReturns
<1>14. ASSUME NEW c \in Calls, OnIncoming(c) PROVE Untouched'
  BY <1>14 DEF OnIncoming
<1>15. ASSUME NEW c \in Calls, OnConnected(c) PROVE Untouched'
  BY <1>15 DEF OnConnected, MarkAnswered
<1>16. ASSUME NEW c \in Calls, OnEnded(c) PROVE Untouched'
  BY <1>16 DEF OnEnded, Hangup, Dismiss
<1>17. ASSUME NEW c \in Calls, Rings(c) PROVE Untouched'
  BY <1>17 DEF Rings
<1>18. ASSUME NEW c \in Calls, Answered(c) PROVE Untouched'
  BY <1>18 DEF Answered
<1>19. ASSUME NEW c \in Calls, Ends(c) PROVE Untouched'
  BY <1>19 DEF Ends
<1>20. ASSUME RefreshBinding PROVE Untouched'
  BY <1>20 DEF RefreshBinding, ConnectEvents
<1>21. ASSUME OpenEvents PROVE Untouched'
  BY <1>21 DEF OpenEvents
<1>22. ASSUME Opened PROVE Untouched'
  BY <1>22 DEF Opened
<1>23. ASSUME TicketFails PROVE Untouched'
  BY <1>23 DEF TicketFails
<1>24. ASSUME StreamFails PROVE Untouched'
  BY <1>24 DEF StreamFails
<1>25. CASE UNCHANGED vars
  BY <1>25 DEF vars
<1> QED BY <1>1, <1>2, <1>3, <1>4, <1>5, <1>6, <1>7, <1>8, <1>9, <1>10, <1>11, <1>12, <1>13,
     <1>14, <1>15, <1>16, <1>17, <1>18, <1>19, <1>20, <1>21, <1>22, <1>23, <1>24, <1>25 DEF
     Next, Agent, Continuations, Heard

\* Every step keeps Taken.
LEMMA TakenNext ==
  Types /\ Untouched /\ Taken /\ [Next]_vars => Taken'
<1> SUFFICES ASSUME Types, Untouched, Taken, [Next]_vars PROVE Taken'
  OBVIOUS
<1> USE DEF Types, Calls, ServerTypes, SetupTypes, PanelTypes, Taken
<1>1. ASSUME ClosePanel PROVE Taken'
  BY <1>1, ClosePanelCall, NoCallIs, WidgetAssumption DEF ClosePanel
<1>2. ASSUME RejectIncoming PROVE Taken'
  BY <1>2 DEF RejectIncoming, Reject, Dismiss
<1>3. ASSUME OnCall PROVE Taken'
  BY <1>3 DEF OnCall, ConnectEvents
<1>4. ASSUME NEW byAI \in BOOLEAN, AcceptIncoming(byAI) PROVE Taken'
  BY <1>4, AcceptIncomingCall, WidgetAssumption DEF AcceptIncoming
<1>5. ASSUME NEW byAI \in BOOLEAN, NEW c \in Outbound, StartCall(c, byAI) PROVE Taken'
  BY <1>5, WidgetAssumption DEF StartCall
<1>6. ASSUME NEW c \in Calls, Accepted(c) PROVE Taken'
  <2>1. call'.id = call.id /\ call'.ai = call.ai
    BY <1>6, MarkAnsweredCall DEF Accepted
  <2> QED BY <1>6, <2>1 DEF Accepted
<1>7. ASSUME NEW c \in Calls, AcceptDone(c) PROVE Taken'
  BY <1>7, AcceptDoneCall DEF AcceptDone
<1>8. ASSUME NEW c \in Calls, AcceptFails(c) PROVE Taken'
  BY <1>8 DEF AcceptFails
<1>9. ASSUME NEW c \in Calls, MicOpens(c) PROVE Taken'
  BY <1>9 DEF MicOpens
<1>10. ASSUME NEW c \in Calls, Posted(c) PROVE Taken'
  BY <1>10 DEF Posted, Untouched
<1>11. ASSUME NEW c \in Calls, StartDone(c) PROVE Taken'
  BY <1>11, StartDoneCall, WidgetAssumption DEF StartDone
<1>12. ASSUME NEW c \in Calls, StartFails(c) PROVE Taken'
  BY <1>12 DEF StartFails
<1>13. ASSUME NEW c \in Calls, LookupReturns(c) PROVE Taken'
  BY <1>13 DEF LookupReturns
<1>14. ASSUME NEW c \in Calls, OnIncoming(c) PROVE Taken'
  BY <1>14 DEF OnIncoming
<1>15. ASSUME NEW c \in Calls, OnConnected(c) PROVE Taken'
  <2>1. UNCHANGED <<owner, step, ai>>
    BY <1>15 DEF OnConnected
  <2> QED BY <1>15, <2>1, OnConnectedCall, WidgetAssumption
<1>16. ASSUME NEW c \in Calls, OnEnded(c) PROVE Taken'
  <2>1. UNCHANGED <<owner, step, ai>>
    BY <1>16 DEF OnEnded
  <2> QED BY <1>16, <2>1, OnEndedCall, NoCallIs, WidgetAssumption
<1>17. ASSUME NEW c \in Calls, Rings(c) PROVE Taken'
  BY <1>17 DEF Rings
<1>18. ASSUME NEW c \in Calls, Answered(c) PROVE Taken'
  <2>1. owner[c] = None /\ owner' = [owner EXCEPT ![c] = owner'[c]] /\ owner'[c] # None
    BY <1>18, WidgetAssumption DEF Answered
  <2>2. UNCHANGED <<call, step, ai>>
    BY <1>18 DEF Answered
  <2> QED BY <2>1, <2>2, WidgetAssumption
<1>19. ASSUME NEW c \in Calls, Ends(c) PROVE Taken'
  BY <1>19 DEF Ends
<1>20. ASSUME RefreshBinding PROVE Taken'
  BY <1>20 DEF RefreshBinding, ConnectEvents
<1>21. ASSUME OpenEvents PROVE Taken'
  BY <1>21 DEF OpenEvents
<1>22. ASSUME Opened PROVE Taken'
  BY <1>22 DEF Opened
<1>23. ASSUME TicketFails PROVE Taken'
  BY <1>23 DEF TicketFails
<1>24. ASSUME StreamFails PROVE Taken'
  BY <1>24 DEF StreamFails
<1>25. CASE UNCHANGED vars
  BY <1>25 DEF vars
<1> QED BY <1>1, <1>2, <1>3, <1>4, <1>5, <1>6, <1>7, <1>8, <1>9, <1>10, <1>11, <1>12, <1>13,
     <1>14, <1>15, <1>16, <1>17, <1>18, <1>19, <1>20, <1>21, <1>22, <1>23, <1>24, <1>25 DEF
     Next, Agent, Continuations, Heard

\* Every step keeps Separate.
LEMMA SeparateNext ==
  Types /\ Taken /\ Separate /\ [Next]_vars => Separate'
<1> SUFFICES ASSUME Types, Taken, Separate, [Next]_vars PROVE Separate'
  OBVIOUS
<1> USE DEF Types, Calls, SetupTypes, PanelTypes, Separate
<1>1. ASSUME ClosePanel PROVE Separate'
  BY <1>1, ClosePanelCall, NoCallIs
<1>2. ASSUME RejectIncoming PROVE Separate'
  BY <1>2 DEF RejectIncoming, Reject, Dismiss
<1>3. ASSUME OnCall PROVE Separate'
  BY <1>3 DEF OnCall, ConnectEvents
<1>4. ASSUME NEW byAI \in BOOLEAN, AcceptIncoming(byAI) PROVE Separate'
  BY <1>4, AcceptIncomingCall
<1>5. ASSUME NEW byAI \in BOOLEAN, NEW c \in Outbound, StartCall(c, byAI) PROVE Separate'
  BY <1>5 DEF StartCall
<1>6. ASSUME NEW c \in Calls, Accepted(c) PROVE Separate'
  <2>1. call'.media = call.media /\ call'.ai = call.ai
    BY <1>6, MarkAnsweredCall DEF Accepted
  <2> QED BY <2>1
<1>7. ASSUME NEW c \in Calls, AcceptDone(c) PROVE Separate'
  <2>1. call.id = c => ~call.ai
    BY <1>7 DEF AcceptDone, Taken
  <2> QED BY <1>7, <2>1, AcceptDoneCall
<1>8. ASSUME NEW c \in Calls, AcceptFails(c) PROVE Separate'
  BY <1>8 DEF AcceptFails
<1>9. ASSUME NEW c \in Calls, MicOpens(c) PROVE Separate'
  BY <1>9 DEF MicOpens
<1>10. ASSUME NEW c \in Calls, Posted(c) PROVE Separate'
  BY <1>10 DEF Posted
<1>11. ASSUME NEW c \in Calls, StartDone(c) PROVE Separate'
  BY <1>11, StartDoneCall
<1>12. ASSUME NEW c \in Calls, StartFails(c) PROVE Separate'
  BY <1>12 DEF StartFails
<1>13. ASSUME NEW c \in Calls, LookupReturns(c) PROVE Separate'
  BY <1>13 DEF LookupReturns
<1>14. ASSUME NEW c \in Calls, OnIncoming(c) PROVE Separate'
  BY <1>14 DEF OnIncoming
<1>15. ASSUME NEW c \in Calls, OnConnected(c) PROVE Separate'
  BY <1>15, OnConnectedCall
<1>16. ASSUME NEW c \in Calls, OnEnded(c) PROVE Separate'
  BY <1>16, OnEndedCall, NoCallIs
<1>17. ASSUME NEW c \in Calls, Rings(c) PROVE Separate'
  BY <1>17 DEF Rings
<1>18. ASSUME NEW c \in Calls, Answered(c) PROVE Separate'
  BY <1>18 DEF Answered
<1>19. ASSUME NEW c \in Calls, Ends(c) PROVE Separate'
  BY <1>19 DEF Ends
<1>20. ASSUME RefreshBinding PROVE Separate'
  BY <1>20 DEF RefreshBinding, ConnectEvents
<1>21. ASSUME OpenEvents PROVE Separate'
  BY <1>21 DEF OpenEvents
<1>22. ASSUME Opened PROVE Separate'
  BY <1>22 DEF Opened
<1>23. ASSUME TicketFails PROVE Separate'
  BY <1>23 DEF TicketFails
<1>24. ASSUME StreamFails PROVE Separate'
  BY <1>24 DEF StreamFails
<1>25. CASE UNCHANGED vars
  BY <1>25 DEF vars
<1> QED BY <1>1, <1>2, <1>3, <1>4, <1>5, <1>6, <1>7, <1>8, <1>9, <1>10, <1>11, <1>12, <1>13,
     <1>14, <1>15, <1>16, <1>17, <1>18, <1>19, <1>20, <1>21, <1>22, <1>23, <1>24, <1>25 DEF
     Next, Agent, Continuations, Heard

\* Every step keeps RingsForSomebody.
LEMMA RingsNext ==
  RingsForSomebody /\ [Next]_vars => RingsForSomebody'
<1> SUFFICES ASSUME RingsForSomebody, [Next]_vars PROVE RingsForSomebody'
  OBVIOUS
<1> USE DEF RingsForSomebody, Calls
<1>1. ASSUME ClosePanel PROVE RingsForSomebody'
  BY <1>1 DEF ClosePanel, Hangup, Reject, Dismiss
<1>2. ASSUME RejectIncoming PROVE RingsForSomebody'
  BY <1>2 DEF RejectIncoming, Reject, Dismiss
<1>3. ASSUME OnCall PROVE RingsForSomebody'
  BY <1>3 DEF OnCall, ConnectEvents
<1>4. ASSUME NEW byAI \in BOOLEAN, AcceptIncoming(byAI) PROVE RingsForSomebody'
  BY <1>4 DEF AcceptIncoming
<1>5. ASSUME NEW byAI \in BOOLEAN, NEW c \in Outbound, StartCall(c, byAI) PROVE RingsForSomebody'
  BY <1>5 DEF StartCall
<1>6. ASSUME NEW c \in Calls, Accepted(c) PROVE RingsForSomebody'
  BY <1>6 DEF Accepted, MarkAnswered
<1>7. ASSUME NEW c \in Calls, AcceptDone(c) PROVE RingsForSomebody'
  BY <1>7 DEF AcceptDone
<1>8. ASSUME NEW c \in Calls, AcceptFails(c) PROVE RingsForSomebody'
  BY <1>8 DEF AcceptFails
<1>9. ASSUME NEW c \in Calls, MicOpens(c) PROVE RingsForSomebody'
  BY <1>9 DEF MicOpens
<1>10. ASSUME NEW c \in Calls, Posted(c) PROVE RingsForSomebody'
  BY <1>10 DEF Posted
<1>11. ASSUME NEW c \in Calls, StartDone(c) PROVE RingsForSomebody'
  BY <1>11 DEF StartDone, ConnectEvents
<1>12. ASSUME NEW c \in Calls, StartFails(c) PROVE RingsForSomebody'
  BY <1>12 DEF StartFails
<1>13. ASSUME NEW c \in Calls, LookupReturns(c) PROVE RingsForSomebody'
  BY <1>13 DEF LookupReturns
<1>14. ASSUME NEW c \in Calls, OnIncoming(c) PROVE RingsForSomebody'
  BY <1>14, WidgetAssumption DEF OnIncoming
<1>15. ASSUME NEW c \in Calls, OnConnected(c) PROVE RingsForSomebody'
  BY <1>15 DEF OnConnected, MarkAnswered
<1>16. ASSUME NEW c \in Calls, OnEnded(c) PROVE RingsForSomebody'
  BY <1>16 DEF OnEnded, Hangup, Dismiss
<1>17. ASSUME NEW c \in Calls, Rings(c) PROVE RingsForSomebody'
  BY <1>17 DEF Rings
<1>18. ASSUME NEW c \in Calls, Answered(c) PROVE RingsForSomebody'
  BY <1>18 DEF Answered
<1>19. ASSUME NEW c \in Calls, Ends(c) PROVE RingsForSomebody'
  BY <1>19 DEF Ends
<1>20. ASSUME RefreshBinding PROVE RingsForSomebody'
  BY <1>20 DEF RefreshBinding, ConnectEvents
<1>21. ASSUME OpenEvents PROVE RingsForSomebody'
  BY <1>21 DEF OpenEvents
<1>22. ASSUME Opened PROVE RingsForSomebody'
  BY <1>22 DEF Opened
<1>23. ASSUME TicketFails PROVE RingsForSomebody'
  BY <1>23 DEF TicketFails
<1>24. ASSUME StreamFails PROVE RingsForSomebody'
  BY <1>24 DEF StreamFails
<1>25. CASE UNCHANGED vars
  BY <1>25 DEF vars
<1> QED BY <1>1, <1>2, <1>3, <1>4, <1>5, <1>6, <1>7, <1>8, <1>9, <1>10, <1>11, <1>12, <1>13,
     <1>14, <1>15, <1>16, <1>17, <1>18, <1>19, <1>20, <1>21, <1>22, <1>23, <1>24, <1>25 DEF
     Next, Agent, Continuations, Heard

\* Every step keeps StreamDue.
LEMMA StreamDueNext ==
  Types /\ StreamDue /\ [Next]_vars => StreamDue'
<1> SUFFICES ASSUME Types, StreamDue, [Next]_vars PROVE StreamDue'
  OBVIOUS
<1> USE DEF Types, StreamTypes, StreamDue
<1>1. ASSUME ClosePanel PROVE StreamDue'
  BY <1>1 DEF ClosePanel, Hangup, Reject, Dismiss
<1>2. ASSUME RejectIncoming PROVE StreamDue'
  BY <1>2 DEF RejectIncoming, Reject, Dismiss
<1>3. ASSUME OnCall PROVE StreamDue'
  BY <1>3 DEF OnCall, ConnectEvents
<1>4. ASSUME NEW byAI \in BOOLEAN, AcceptIncoming(byAI) PROVE StreamDue'
  BY <1>4 DEF AcceptIncoming
<1>5. ASSUME NEW byAI \in BOOLEAN, NEW c \in Outbound, StartCall(c, byAI) PROVE StreamDue'
  BY <1>5 DEF StartCall
<1>6. ASSUME NEW c \in Calls, Accepted(c) PROVE StreamDue'
  BY <1>6 DEF Accepted, MarkAnswered
<1>7. ASSUME NEW c \in Calls, AcceptDone(c) PROVE StreamDue'
  BY <1>7 DEF AcceptDone
<1>8. ASSUME NEW c \in Calls, AcceptFails(c) PROVE StreamDue'
  BY <1>8 DEF AcceptFails
<1>9. ASSUME NEW c \in Calls, MicOpens(c) PROVE StreamDue'
  BY <1>9 DEF MicOpens
<1>10. ASSUME NEW c \in Calls, Posted(c) PROVE StreamDue'
  BY <1>10 DEF Posted
<1>11. ASSUME NEW c \in Calls, StartDone(c) PROVE StreamDue'
  BY <1>11 DEF StartDone, ConnectEvents
<1>12. ASSUME NEW c \in Calls, StartFails(c) PROVE StreamDue'
  BY <1>12 DEF StartFails
<1>13. ASSUME NEW c \in Calls, LookupReturns(c) PROVE StreamDue'
  BY <1>13 DEF LookupReturns
<1>14. ASSUME NEW c \in Calls, OnIncoming(c) PROVE StreamDue'
  BY <1>14 DEF OnIncoming
<1>15. ASSUME NEW c \in Calls, OnConnected(c) PROVE StreamDue'
  BY <1>15 DEF OnConnected, MarkAnswered
<1>16. ASSUME NEW c \in Calls, OnEnded(c) PROVE StreamDue'
  BY <1>16 DEF OnEnded, Hangup, Dismiss
<1>17. ASSUME NEW c \in Calls, Rings(c) PROVE StreamDue'
  BY <1>17 DEF Rings
<1>18. ASSUME NEW c \in Calls, Answered(c) PROVE StreamDue'
  BY <1>18 DEF Answered
<1>19. ASSUME NEW c \in Calls, Ends(c) PROVE StreamDue'
  BY <1>19 DEF Ends
<1>20. ASSUME RefreshBinding PROVE StreamDue'
  BY <1>20 DEF RefreshBinding, ConnectEvents
<1>21. ASSUME OpenEvents PROVE StreamDue'
  BY <1>21 DEF OpenEvents
<1>22. ASSUME Opened PROVE StreamDue'
  BY <1>22 DEF Opened
<1>23. ASSUME TicketFails PROVE StreamDue'
  BY <1>23 DEF TicketFails
<1>24. ASSUME StreamFails PROVE StreamDue'
  BY <1>24 DEF StreamFails
<1>25. CASE UNCHANGED vars
  BY <1>25 DEF vars
<1> QED BY <1>1, <1>2, <1>3, <1>4, <1>5, <1>6, <1>7, <1>8, <1>9, <1>10, <1>11, <1>12, <1>13,
     <1>14, <1>15, <1>16, <1>17, <1>18, <1>19, <1>20, <1>21, <1>22, <1>23, <1>24, <1>25 DEF
     Next, Agent, Continuations, Heard

\* Every step keeps NothingLeftBehind.
LEMMA LeftNext ==
  Types /\ NothingLeftBehind /\ [Next]_vars => NothingLeftBehind'
<1> SUFFICES ASSUME Types, NothingLeftBehind, [Next]_vars PROVE NothingLeftBehind'
  OBVIOUS
<1> USE DEF Types, Calls, ServerTypes, PanelTypes, SetupTypes, NothingLeftBehind
<1>1. ASSUME ClosePanel PROVE NothingLeftBehind'
  BY <1>1, ClosePanelCall, WidgetAssumption DEF ClosePanel
<1>2. ASSUME RejectIncoming PROVE NothingLeftBehind'
  BY <1>2 DEF RejectIncoming, Reject, Dismiss
<1>3. ASSUME OnCall PROVE NothingLeftBehind'
  BY <1>3 DEF OnCall, ConnectEvents
<1>4. ASSUME NEW byAI \in BOOLEAN, AcceptIncoming(byAI) PROVE NothingLeftBehind'
  BY <1>4, AcceptIncomingCall, WidgetAssumption DEF AcceptIncoming
<1>5. ASSUME NEW byAI \in BOOLEAN, NEW c \in Outbound, StartCall(c, byAI)
     PROVE NothingLeftBehind'
  BY <1>5, WidgetAssumption DEF StartCall
<1>6. ASSUME NEW c \in Calls, Accepted(c) PROVE NothingLeftBehind'
  <2>1. call'.id = call.id
    BY <1>6, MarkAnsweredCall DEF Accepted
  <2> QED BY <1>6, <2>1 DEF Accepted
<1>7. ASSUME NEW c \in Calls, AcceptDone(c) PROVE NothingLeftBehind'
  BY <1>7, AcceptDoneCall DEF AcceptDone
<1>8. ASSUME NEW c \in Calls, AcceptFails(c) PROVE NothingLeftBehind'
  BY <1>8 DEF AcceptFails
<1>9. ASSUME NEW c \in Calls, MicOpens(c) PROVE NothingLeftBehind'
  BY <1>9 DEF MicOpens
<1>10. ASSUME NEW c \in Calls, Posted(c) PROVE NothingLeftBehind'
  BY <1>10 DEF Posted
<1>11. ASSUME NEW c \in Calls, StartDone(c) PROVE NothingLeftBehind'
  BY <1>11, StartDoneCall, WidgetAssumption DEF StartDone
<1>12. ASSUME NEW c \in Calls, StartFails(c) PROVE NothingLeftBehind'
  BY <1>12 DEF StartFails
<1>13. ASSUME NEW c \in Calls, LookupReturns(c) PROVE NothingLeftBehind'
  BY <1>13 DEF LookupReturns
<1>14. ASSUME NEW c \in Calls, OnIncoming(c) PROVE NothingLeftBehind'
  BY <1>14 DEF OnIncoming
<1>15. ASSUME NEW c \in Calls, OnConnected(c) PROVE NothingLeftBehind'
  <2>1. UNCHANGED <<asked, step>>
    BY <1>15 DEF OnConnected
  <2> QED BY <1>15, <2>1, OnConnectedCall, WidgetAssumption
<1>16. ASSUME NEW c \in Calls, OnEnded(c) PROVE NothingLeftBehind'
  <2>1. UNCHANGED <<replaced, step>>
    BY <1>16 DEF OnEnded
  <2> QED BY <1>16, <2>1, OnEndedCall, NoCallIs
<1>17. ASSUME NEW c \in Calls, Rings(c) PROVE NothingLeftBehind'
  BY <1>17 DEF Rings
<1>18. ASSUME NEW c \in Calls, Answered(c) PROVE NothingLeftBehind'
  BY <1>18 DEF Answered
<1>19. ASSUME NEW c \in Calls, Ends(c) PROVE NothingLeftBehind'
  BY <1>19 DEF Ends
<1>20. ASSUME RefreshBinding PROVE NothingLeftBehind'
  BY <1>20 DEF RefreshBinding, ConnectEvents
<1>21. ASSUME OpenEvents PROVE NothingLeftBehind'
  BY <1>21 DEF OpenEvents
<1>22. ASSUME Opened PROVE NothingLeftBehind'
  BY <1>22 DEF Opened
<1>23. ASSUME TicketFails PROVE NothingLeftBehind'
  BY <1>23 DEF TicketFails
<1>24. ASSUME StreamFails PROVE NothingLeftBehind'
  BY <1>24 DEF StreamFails
<1>25. CASE UNCHANGED vars
  BY <1>25 DEF vars
<1> QED BY <1>1, <1>2, <1>3, <1>4, <1>5, <1>6, <1>7, <1>8, <1>9, <1>10, <1>11, <1>12, <1>13,
     <1>14, <1>15, <1>16, <1>17, <1>18, <1>19, <1>20, <1>21, <1>22, <1>23, <1>24, <1>25 DEF
     Next, Agent, Continuations, Heard

\* Every step keeps MicsAccounted.
LEMMA MicsNext ==
  Types /\ Untouched /\ NothingLeftBehind /\ MicsAccounted /\ [Next]_vars => MicsAccounted'
<1> SUFFICES ASSUME Types, Untouched, NothingLeftBehind, MicsAccounted, [Next]_vars
     PROVE MicsAccounted'
  OBVIOUS
<1> USE DEF Types, Calls, ServerTypes, PanelTypes, SetupTypes, MicsAccounted
<1>1. ASSUME ClosePanel PROVE MicsAccounted'
  BY <1>1, ClosePanelCall, WidgetAssumption DEF ClosePanel
<1>2. ASSUME RejectIncoming PROVE MicsAccounted'
  BY <1>2 DEF RejectIncoming, Reject, Dismiss
<1>3. ASSUME OnCall PROVE MicsAccounted'
  BY <1>3 DEF OnCall, ConnectEvents
<1>4. ASSUME NEW byAI \in BOOLEAN, AcceptIncoming(byAI) PROVE MicsAccounted'
  BY <1>4, AcceptIncomingCall, WidgetAssumption DEF AcceptIncoming, Untouched
<1>5. ASSUME NEW byAI \in BOOLEAN, NEW c \in Outbound, StartCall(c, byAI) PROVE MicsAccounted'
  BY <1>5 DEF StartCall
<1>6. ASSUME NEW c \in Calls, Accepted(c) PROVE MicsAccounted'
  <2>1. call'.id = call.id /\ call'.media = call.media
    BY <1>6, MarkAnsweredCall DEF Accepted
  <2> QED BY <1>6, <2>1 DEF Accepted
<1>7. ASSUME NEW c \in Calls, AcceptDone(c) PROVE MicsAccounted'
  <2>1. call.id = c \/ c \in asked \union replaced
    BY <1>7 DEF AcceptDone, NothingLeftBehind
  <2> QED BY <1>7, <2>1, AcceptDoneCall DEF AcceptDone
<1>8. ASSUME NEW c \in Calls, AcceptFails(c) PROVE MicsAccounted'
  BY <1>8 DEF AcceptFails
<1>9. ASSUME NEW c \in Calls, MicOpens(c) PROVE MicsAccounted'
  BY <1>9 DEF MicOpens
<1>10. ASSUME NEW c \in Calls, Posted(c) PROVE MicsAccounted'
  BY <1>10 DEF Posted
<1>11. ASSUME NEW c \in Calls, StartDone(c) PROVE MicsAccounted'
  <2>1. c \in ai => c \notin mics
    BY <1>11, StartDoneCall DEF Untouched
  <2>2. UNCHANGED <<mics, asked>>
    BY <1>11 DEF StartDone
  <2> QED BY <1>11, <2>1, <2>2, StartDoneCall, WidgetAssumption
<1>12. ASSUME NEW c \in Calls, StartFails(c) PROVE MicsAccounted'
  BY <1>12 DEF StartFails
<1>13. ASSUME NEW c \in Calls, LookupReturns(c) PROVE MicsAccounted'
  BY <1>13 DEF LookupReturns
<1>14. ASSUME NEW c \in Calls, OnIncoming(c) PROVE MicsAccounted'
  BY <1>14 DEF OnIncoming
<1>15. ASSUME NEW c \in Calls, OnConnected(c) PROVE MicsAccounted'
  <2>1. UNCHANGED <<asked, step, mics>>
    BY <1>15 DEF OnConnected
  <2> QED BY <1>15, <2>1, OnConnectedCall, WidgetAssumption
<1>16. ASSUME NEW c \in Calls, OnEnded(c) PROVE MicsAccounted'
  <2>1. UNCHANGED <<replaced, step>>
    BY <1>16 DEF OnEnded
  <2> QED BY <1>16, <2>1, OnEndedCall, NoCallIs
<1>17. ASSUME NEW c \in Calls, Rings(c) PROVE MicsAccounted'
  BY <1>17 DEF Rings
<1>18. ASSUME NEW c \in Calls, Answered(c) PROVE MicsAccounted'
  BY <1>18 DEF Answered
<1>19. ASSUME NEW c \in Calls, Ends(c) PROVE MicsAccounted'
  BY <1>19 DEF Ends
<1>20. ASSUME RefreshBinding PROVE MicsAccounted'
  BY <1>20 DEF RefreshBinding, ConnectEvents
<1>21. ASSUME OpenEvents PROVE MicsAccounted'
  BY <1>21 DEF OpenEvents
<1>22. ASSUME Opened PROVE MicsAccounted'
  BY <1>22 DEF Opened
<1>23. ASSUME TicketFails PROVE MicsAccounted'
  BY <1>23 DEF TicketFails
<1>24. ASSUME StreamFails PROVE MicsAccounted'
  BY <1>24 DEF StreamFails
<1>25. CASE UNCHANGED vars
  BY <1>25 DEF vars
<1> QED BY <1>1, <1>2, <1>3, <1>4, <1>5, <1>6, <1>7, <1>8, <1>9, <1>10, <1>11, <1>12, <1>13,
     <1>14, <1>15, <1>16, <1>17, <1>18, <1>19, <1>20, <1>21, <1>22, <1>23, <1>24, <1>25 DEF
     Next, Agent, Continuations, Heard

-----------------------------------------------------------------------------
\* The strengthened invariant holds of every behaviour.
LEMMA Inductive == Spec => []IInv
<1>1. Init => IInv
  <2> SUFFICES ASSUME Init PROVE IInv
    OBVIOUS
  <2> USE DEF Init
  <2>1. ServerTypes /\ SetupTypes
    BY DEF ServerTypes, SetupTypes
  <2>2. PanelTypes
    BY NoCallIs DEF PanelTypes
  <2>3. StreamTypes
    <3>1. MaxOpening \in Nat /\ MaxOrphans \in Nat
      BY WidgetAssumption
    <3>2. 0 \in 0 .. MaxOrphans /\ 0 \in 0 .. MaxOpening
      BY <3>1
    <3> QED BY <3>2 DEF StreamTypes
  <2>4. Untouched /\ Taken /\ Separate
    BY NoCallIs DEF Untouched, Taken, Separate, Calls
  <2>5. RingsForSomebody /\ StreamDue
    BY DEF RingsForSomebody, StreamDue
  <2>6. MicsAccounted /\ NothingLeftBehind
    BY DEF MicsAccounted, NothingLeftBehind, Calls
  <2> QED BY <2>1, <2>2, <2>3, <2>4, <2>5, <2>6 DEF IInv, Types
<1>2. IInv /\ [Next]_vars => IInv'
  <2> SUFFICES ASSUME IInv, [Next]_vars PROVE IInv'
    OBVIOUS
  <2> USE DEF IInv
  <2>1. Types' /\ Untouched' /\ Taken' /\ Separate'
    BY ServerTypesNext, PanelTypesNext, SetupTypesNext, StreamTypesNext,
       UntouchedNext, TakenNext, SeparateNext DEF Types
  <2>2. RingsForSomebody' /\ StreamDue'
    BY RingsNext, StreamDueNext
  <2>3. NothingLeftBehind' /\ MicsAccounted'
    BY LeftNext, MicsNext
  <2> QED BY <2>1, <2>2, <2>3
<1> QED BY <1>1, <1>2, PTL DEF Spec

\* Every variable keeps its type: the streams and the tickets stay within their
\* bounds, and a call is never both the AI's and the agent's.
THEOREM TypeCorrect == Spec => []TypeOK
<1>1. IInv => TypeOK
  <2> SUFFICES ASSUME IInv PROVE TypeOK
    OBVIOUS
  <2>1. {rang, over, ai, mics, lookups, asked, replaced} \subseteq SUBSET Calls
    BY DEF IInv, Types, ServerTypes, SetupTypes
  <2>2. {ring, global, esTimer} \subseteq BOOLEAN
    BY DEF IInv, Types, PanelTypes, StreamTypes
  <2> QED BY <2>1, <2>2
       DEF IInv, Types, ServerTypes, PanelTypes, SetupTypes, StreamTypes, Separate, TypeOK,
           CallRecords
<1> QED BY <1>1, Inductive, PTL

\* The telephone rings only while there is a call to answer, in whatever order
\* events, clicks and the rejection of closePanel come.
THEOREM RingsForSomebodyCorrect == Spec => []RingsForSomebody
<1>1. IInv => RingsForSomebody
  BY DEF IInv
<1> QED BY <1>1, Inductive, PTL

\* The widget has an EventSource, a ticket on its way, or a connection that is due.
THEOREM StreamDueCorrect == Spec => []StreamDue
<1>1. IInv => StreamDue
  BY DEF IInv
<1> QED BY <1>1, Inductive, PTL

\* A microphone that is open belongs to the current call or to a call being set up,
\* unless its call was dropped or replaced.
THEOREM MicsAccountedCorrect == Spec => []MicsAccounted
<1>1. IInv => MicsAccounted
  BY DEF IInv
<1> QED BY <1>1, Inductive, PTL

\* A call that the agent has taken is the current one, or its end was asked for, or
\* another call took its place.
THEOREM NothingLeftBehindCorrect == Spec => []NothingLeftBehind
<1>1. IInv => NothingLeftBehind
  BY DEF IInv
<1> QED BY <1>1, Inductive, PTL
=============================================================================
