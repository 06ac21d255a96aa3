-------------------------------- MODULE Inbox --------------------------------
(***************************************************************************)
(* The inbox of the console: stores/conversations.ts and the page and the  *)
(* panels that use it.  The timeline on screen is fed by answers to        *)
(* fetchMessages (a selection, and a poll every three seconds), by the     *)
(* answer to a message sent and by the events of WebSockets, whose onclose *)
(* reconnects them.  No request is cancelled, none is told from a later    *)
(* one, and the store outlives the page.                                   *)
(*                                                                         *)
(* The server (cmd/server/conversations.go) is its log of events: what a   *)
(* request reads is a prefix of the log, what a socket has been sent is a  *)
(* position in it.  Messages are the positions of their "created" events.  *)
(* Content, tags, the AI switch and typing are not told apart.             *)
(***************************************************************************)
EXTENDS Integers, FiniteSets, SequencesExt

CONSTANTS Convs, Workspaces, None,
          Of,          \* the workspace of each conversation
          MaxLog,      \* bound: events of the server
          MaxFetches,  \* bound: answers to fetchMessages under way
          MaxSockets   \* bound: WebSockets not yet closed

ASSUME InboxAssumption ==
  /\ Of \in [Convs -> Workspaces]
  /\ None \notin Convs \union Workspaces
  /\ {MaxLog, MaxFetches, MaxSockets} \subseteq Nat

VARIABLES
  log,       \* what the server has done
  page,      \* the workspace of the mounted page, or None
  active,    \* activeConversationId
  obj,       \* activeConversation
  messages,  \* the timeline
  fetches,   \* fetchMessages under way
  sending,   \* a sendMessage under way
  sockets,   \* the WebSockets not yet closed, oldest first
  activeWS,  \* the module's activeWS: its position among them, or 0
  timer      \* reconnectTimer: the workspace it reconnects, or None

timeline == <<active, obj, messages>>
requests == <<fetches, sending>>
ws == <<sockets, activeWS, timer>>
vars == <<log, page, timeline, requests, ws>>

-----------------------------------------------------------------------------
(* The server. *)

Events == [type : {"created", "reply", "updated", "resolved"},
           conv : Convs, id : 0 .. MaxLog]

Happens(type, k, i) ==
  /\ Len(log) < MaxLog
  /\ log' = Append(log, [type |-> type, conv |-> k, id |-> i])

\* A message as the server has it after n events.
Message(i, n) ==
  [id |-> i, edited |-> \E j \in 1 .. n : log[j].type = "updated" /\ log[j].id = i]

IsMessage(e) == e.type \in {"created", "reply"}

\* The numbers of S in their order.
Ordered(S) ==
  CHOOSE q \in [1 .. Cardinality(S) -> S] : \A i, j \in DOMAIN q : i < j => q[i] < q[j]

\* GET /messages, after n events.
Stored(k, n) ==
  LET ids == Ordered({i \in 1 .. n : IsMessage(log[i]) /\ log[i].conv = k})
  IN [j \in DOMAIN ids |-> Message(ids[j], n)]

\* GET /conversations under the filter "open": a contact's message reopens.
Listed(w, n) ==
  {k \in Convs :
     /\ Of[k] = w
     /\ LET turns == {j \in 1 .. n : /\ log[j].conv = k
                                     /\ log[j].type \in {"created", "resolved"}}
        IN turns # {} =>
             \E j \in turns : log[j].type = "created" /\ \A i \in turns : i <= j}

-----------------------------------------------------------------------------
Requests == [conv : Convs, at : 0 .. MaxLog]

Sockets == [wid : Workspaces, state : {"connecting", "open", "closing"}, at : 0 .. MaxLog]

TypeOK ==
  /\ log \in Seq(Events) /\ Len(log) <= MaxLog
  /\ page \in Workspaces \union {None} /\ timer \in Workspaces \union {None}
  /\ active \in Convs \union {None} /\ obj \in Convs \union {None}
  /\ messages \in Seq([id : 1 .. MaxLog, edited : BOOLEAN])
  /\ fetches \subseteq Requests /\ Cardinality(fetches) <= MaxFetches
  /\ sending \in [obj : Convs \union {None}, id : 0 .. MaxLog]
  /\ sockets \in Seq(Sockets) /\ Len(sockets) <= MaxSockets
  /\ activeWS \in 0 .. Len(sockets)

NotSending == [obj |-> None, id |-> 0]

Init ==
  /\ log = <<>> /\ page = None
  /\ active = None /\ obj = None /\ messages = <<>>
  /\ fetches = {}
  /\ sending = NotSending
  /\ sockets = <<>> /\ activeWS = 0 /\ timer = None

-----------------------------------------------------------------------------
(* Requests. *)

\* The last event that a timeline of k tells.
LastOf(k) ==
  LET told == {i \in DOMAIN log : log[i].conv = k /\ log[i].type # "resolved"}
  IN IF told = {} THEN 0 ELSE Max(told)

\* fetchMessages(k): the server reads its messages, and answers when it will.
FetchMessages(k) ==
  /\ Cardinality(fetches) < MaxFetches
  /\ fetches' = fetches \union {[conv |-> k, at |-> LastOf(k)]}

\* The answer is the timeline, whichever conversation is active by now.
FetchReturns(r) ==
  /\ r \in fetches
  /\ fetches' = fetches \ {r}
  /\ messages' = Stored(r.conv, r.at)
  /\ UNCHANGED <<log, page, active, obj, sending, ws>>

FetchFails(r) ==
  /\ r \in fetches
  /\ fetches' = fetches \ {r}
  /\ UNCHANGED <<log, page, timeline, sending, ws>>

\* fetchConversations(w): what its answer does to the timeline's header does not
\* depend on when it was asked for, so the two are one step.
FetchConversations(w) ==
  obj' = IF active \in Listed(w, Len(log)) THEN active ELSE obj

-----------------------------------------------------------------------------
(* The operator. *)

\* selectConversation(k), and the answer to startConversation, which makes its
\* conversation the active one whatever was selected since the form was sent.
Select(k) ==
  /\ page = Of[k]
  /\ active' = k /\ obj' = k
  /\ FetchMessages(k)
  /\ UNCHANGED <<log, page, messages, sending, ws>>

\* selectConversation(null): the arrow of the header.
Deselect ==
  /\ page # None /\ obj # None /\ active # None
  /\ active' = None /\ obj' = None /\ messages' = <<>>
  /\ UNCHANGED <<log, page, requests, ws>>

\* handleSend of the input bar, which is drawn for the object, and sendMessage,
\* which goes to the id.
SendMessage ==
  /\ page # None /\ active # None /\ obj # None
  /\ sending = NotSending
  /\ Happens("reply", active, 0)
  /\ sending' = [obj |-> obj, id |-> Len(log')]
  /\ UNCHANGED <<page, timeline, fetches, ws>>

Shown(i) == \E j \in DOMAIN messages : messages[j].id = i

\* (mutant) the echo that came first is not looked for
AddToTimelineAgain(m) == messages' = Append(messages, m)

AddToTimeline(m) ==
  messages' = IF Shown(m.id) THEN messages ELSE Append(messages, m)

\* The answer joins the timeline, whichever it is, and the object captured before
\* the await comes back.
SendReturns ==
  /\ sending # NotSending
  /\ AddToTimeline([id |-> sending.id, edited |-> FALSE])
  /\ obj' = sending.obj
  /\ sending' = NotSending
  /\ UNCHANGED <<log, page, active, fetches, ws>>

SendFails ==
  /\ sending # NotSending
  /\ sending' = NotSending
  /\ UNCHANGED <<log, page, timeline, fetches, ws>>

MarkEdited(i) ==
  messages' = [j \in DOMAIN messages |->
                 IF messages[j].id = i THEN [messages[j] EXCEPT !.edited = TRUE]
                                       ELSE messages[j]]

\* editMessage, deleteMessage and reactToMessage, with their answer: the message is
\* marked where the timeline has it.  (What the mark says does not depend on when
\* the answer comes.)
Edit(i) ==
  /\ page # None /\ obj # None /\ Shown(i)
  /\ Happens("updated", log[i].conv, i)
  /\ MarkEdited(i)
  /\ UNCHANGED <<page, active, obj, requests, ws>>

\* handleToggleStatus; the status is the server's until the list is read again.
Resolve ==
  /\ page # None /\ obj # None
  /\ Happens("resolved", obj, 0)
  /\ UNCHANGED <<page, timeline, requests, ws>>

\* The contact writes.
ContactWrites(k) ==
  /\ Happens("created", k, 0)
  /\ UNCHANGED <<page, timeline, requests, ws>>

-----------------------------------------------------------------------------
(* The WebSockets. *)

Dropped(s) ==
  IF s = 0 THEN sockets ELSE [sockets EXCEPT ![s].state = "closing", ![s].at = 0]

ConnectWebSocket(w) ==
  IF activeWS # 0 /\ sockets[activeWS].state = "open"
  THEN UNCHANGED <<sockets, activeWS>>
  ELSE /\ Len(sockets) < MaxSockets
       /\ sockets' = Append(Dropped(activeWS), [wid |-> w, state |-> "connecting", at |-> 0])
       /\ activeWS' = Len(sockets')

OnOpen(s) ==
  /\ sockets[s].state = "connecting"
  /\ sockets' = [sockets EXCEPT ![s].state = "open", ![s].at = Len(log)]
  /\ UNCHANGED <<log, page, timeline, requests, activeWS, timer>>

\* (mutant) message:created with the id of the conversation's update
OnMessageRaw(s) ==
  /\ sockets[s].state = "open" /\ sockets[s].at < Len(log)
  /\ sockets' = [sockets EXCEPT ![s].at = @ + 1]
  /\ LET e == log[sockets[s].at + 1]
     IN IF IsMessage(e) /\ active = e.conv
        THEN AddToTimeline([id |-> e.id, edited |-> FALSE])
        ELSE UNCHANGED messages
  /\ UNCHANGED <<log, page, active, obj, requests, activeWS, timer>>

\* The next event of the server for the socket's workspace.
OnMessage(s) ==
  /\ sockets[s].state = "open" /\ sockets[s].at < Len(log)
  /\ sockets' = [sockets EXCEPT ![s].at = @ + 1]
  /\ LET i == sockets[s].at + 1
         e == log[i]
         w == sockets[s].wid
         mine == Of[e.conv] = w
     IN /\ IF mine /\ IsMessage(e) /\ active = e.conv
           THEN AddToTimeline([id |-> i, edited |-> FALSE])
           ELSE IF mine /\ e.type = "updated" THEN MarkEdited(e.id)
           ELSE UNCHANGED messages
        /\ IF mine /\ e.type = "resolved" THEN FetchConversations(w) ELSE UNCHANGED obj
  /\ UNCHANGED <<log, page, active, requests, activeWS, timer>>

\* (mutant) a socket that was closed on purpose does not reconnect
OnCloseForgets(s) ==
  /\ sockets' = RemoveAt(sockets, s)
  /\ activeWS' = 0
  /\ timer' = IF sockets[s].state = "closing" THEN timer ELSE sockets[s].wid
  /\ UNCHANGED <<log, page, timeline, requests>>

\* The network, the server or close() ends it: whichever socket is the active one
\* is forgotten, and the reconnection is to the workspace of this one.
OnClose(s) ==
  /\ sockets' = RemoveAt(sockets, s)
  /\ activeWS' = 0
  /\ timer' = sockets[s].wid
  /\ UNCHANGED <<log, page, timeline, requests>>

Reconnect ==
  /\ timer # None
  /\ timer' = None
  /\ ConnectWebSocket(timer)
  /\ UNCHANGED <<log, page, timeline, requests>>

-----------------------------------------------------------------------------
(* The page. *)

Mount(w) ==
  /\ page = None
  /\ page' = w
  /\ FetchConversations(w)
  /\ ConnectWebSocket(w)
  /\ UNCHANGED <<log, active, messages, requests, timer>>

\* disconnectWebSocket: the page is left, or another workspace chosen.
Unmount ==
  /\ page # None
  /\ page' = None
  /\ sockets' = Dropped(activeWS)
  /\ activeWS' = 0 /\ timer' = None
  /\ UNCHANGED <<log, timeline, requests>>

\* (mutant) the poll reads the list and not the timeline
PollTheList ==
  /\ page # None
  /\ FetchConversations(page)
  /\ UNCHANGED <<log, page, active, messages, requests, ws>>

\* Every three seconds of a visible tab.
Poll ==
  /\ page # None
  /\ FetchConversations(page)
  /\ IF active = None THEN UNCHANGED fetches ELSE FetchMessages(active)
  /\ UNCHANGED <<log, page, active, messages, sending, ws>>

-----------------------------------------------------------------------------
Operator ==
  \/ \E k \in Convs : Select(k)
  \/ \E i \in DOMAIN log : Edit(i)
  \/ Deselect \/ SendMessage \/ Resolve

Answers ==
  \/ \E r \in fetches : FetchReturns(r) \/ FetchFails(r)
  \/ SendReturns \/ SendFails

Next ==
  \/ Operator \/ Answers
  \/ \E k \in Convs : ContactWrites(k)
  \/ \E s \in DOMAIN sockets : OnOpen(s) \/ OnMessage(s) \/ OnClose(s)
  \/ Reconnect
  \/ \E w \in Workspaces : Mount(w)
  \/ Unmount \/ Poll

\* The interval of a visible tab goes on, the server answers, and not every answer
\* is lost.
Fairness ==
  /\ WF_vars(Poll)
  /\ SF_vars(\E r \in Requests : FetchReturns(r))

Spec == Init /\ [][Next]_vars /\ Fairness

-----------------------------------------------------------------------------
(* Properties. *)

\* A message is shown once, however its answer, its echo on each of the sockets
\* (a page left and opened again has two), and the reads of the timeline race.
NoDuplicates ==
  \A i, j \in DOMAIN messages : messages[i].id = messages[j].id => i = j

\* The page is never left without a socket or a reconnection that is due, whatever
\* the order in which old and new sockets close.
PageListens == page # None => activeWS # 0 \/ timer # None

\* An operator who stays on a conversation comes to see what the server has of it,
\* under its own header where the list has it, in spite of answers for the
\* conversation left before and of events lost or late.
StaysTrue ==
  \A k \in Convs :
    <>[](page = Of[k] /\ active = k) =>
      <>[](/\ messages = Stored(k, Len(log))
           /\ k \in Listed(Of[k], Len(log)) => obj = k)
=============================================================================
