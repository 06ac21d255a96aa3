----------------------------- MODULE InboxProofs -----------------------------
(***************************************************************************)
(* Proofs about Inbox, for any conversations, workspaces and bounds: the   *)
(* types, that a message is shown once, and that the page listens.         *)
(*                                                                         *)
(* What the server reads back is an enumeration of a set of positions of   *)
(* its log.  That one exists is shown by the least counterexample: the     *)
(* natural numbers are well-founded, so a set of them has a least element. *)
(***************************************************************************)
EXTENDS Inbox, WellFoundedInduction, FiniteSetTheorems, TLAPS

USE DEF timeline, requests, ws

\* The messages of a timeline.
MessageRecords == [id : 1 .. MaxLog, edited : BOOLEAN]

\* The messages of a timeline differ.
Distinct(q) == \A i, j \in DOMAIN q : q[i].id = q[j].id => i = j

\* TypeOK, by the variables that change together.
LogTypes == log \in Seq(Events) /\ Len(log) <= MaxLog
PageTypes ==
  /\ page \in Workspaces \union {None} /\ timer \in Workspaces \union {None}
  /\ active \in Convs \union {None} /\ obj \in Convs \union {None}
TimelineTypes == messages \in Seq(MessageRecords)
RequestTypes ==
  /\ fetches \subseteq Requests /\ IsFiniteSet(fetches) /\ Cardinality(fetches) <= MaxFetches
  /\ sending \in [obj : Convs \union {None}, id : 0 .. MaxLog]
  /\ sending # NotSending => sending.id \in 1 .. MaxLog
SocketTypes ==
  /\ sockets \in Seq(Sockets) /\ Len(sockets) <= MaxSockets
  /\ activeWS \in 0 .. Len(sockets)

Types == LogTypes /\ PageTypes /\ TimelineTypes /\ RequestTypes /\ SocketTypes

\* The timeline's messages, each once.
Timeline == TimelineTypes /\ NoDuplicates

IInv == Types /\ NoDuplicates /\ PageListens

-----------------------------------------------------------------------------
(* Numbers and sequences. *)

\* The bounds are numbers.
LEMMA Bounds == MaxLog \in Nat /\ MaxFetches \in Nat /\ MaxSockets \in Nat
BY InboxAssumption

\* A set of natural numbers has a least element.
LEMMA Least ==
  ASSUME NEW T \in SUBSET Nat, T # {}
  PROVE \E m \in T : \A n \in T : m <= n
<1>1. PICK m \in T : \A n \in T : ~(<<n, m>> \in OpToRel(<, Nat))
  BY NatLessThanWellFounded, WFMin
<1>2. \A n \in T : ~(n < m)
  BY <1>1 DEF OpToRel
<1> QED BY <1>2

\* A set of positions has a greatest one, which is what Max picks.
LEMMA MaxIsIn ==
  ASSUME NEW n \in Nat, NEW S \in SUBSET (1 .. n), S # {}
  PROVE Max(S) \in S
<1> DEFINE Above == {m \in Nat : \A i \in S : i <= m}
<1>1. n \in Above
  OBVIOUS
<1>2. PICK m \in Above : \A b \in Above : m <= b
  BY <1>1, Least
<1>3. PICK i \in S : TRUE
  OBVIOUS
<1>4. m \in Nat /\ m # 0
  BY <1>2, <1>3
<1>5. m - 1 \notin Above
  BY <1>2, <1>4
<1>6. m \in S
  <2>1. PICK j \in S : ~(j <= m - 1)
    BY <1>4, <1>5
  <2>2. j = m
    BY <1>2, <1>4, <2>1
  <2> QED BY <2>1, <2>2
<1>7. \A j \in S : m >= j
  BY <1>2
<1> QED BY <1>6, <1>7 DEF Max

\* A set of positions is finite.
LEMMA PositionsFinite ==
  ASSUME NEW n \in Nat, NEW S \in SUBSET (1 .. n)
  PROVE IsFiniteSet(S) /\ Cardinality(S) \in Nat
<1>1. IsFiniteSet(1 .. n)
  BY FS_Interval
<1>2. IsFiniteSet(S)
  BY <1>1, FS_Subset
<1> QED BY <1>2, FS_CardinalityType

\* A sequence of numbers in their order.
Increasing(q) == \A i, j \in DOMAIN q : i < j => q[i] < q[j]

\* A set of positions can be enumerated in order.
LEMMA Enumerable ==
  ASSUME NEW n \in Nat, NEW S \in SUBSET (1 .. n)
  PROVE \E q \in [1 .. Cardinality(S) -> S] : Increasing(q)
<1> DEFINE Good(m) == \A R \in SUBSET (1 .. m) :
                        \E q \in [1 .. Cardinality(R) -> R] : Increasing(q)
           Bad == {m \in Nat : ~Good(m)}
<1>1. SUFFICES ASSUME Bad # {} PROVE FALSE
  OBVIOUS
<1>2. PICK m \in Bad : \A b \in Bad : m <= b
  BY <1>1, Least
<1>3. PICK R \in SUBSET (1 .. m) : ~\E q \in [1 .. Cardinality(R) -> R] : Increasing(q)
  BY <1>2
<1>4. IsFiniteSet(R) /\ Cardinality(R) \in Nat
  BY <1>2, <1>3, PositionsFinite
<1>5. R # {}
  <2>1. SUFFICES ASSUME R = {} PROVE FALSE
    OBVIOUS
  <2>2. Cardinality(R) = 0
    BY <2>1, FS_EmptySet
  <2>3. [i \in 1 .. 0 |-> i] \in [1 .. Cardinality(R) -> R]
    BY <2>1, <2>2
  <2>4. Increasing([i \in 1 .. 0 |-> i])
    BY DEF Increasing
  <2> QED BY <1>3, <2>3, <2>4
<1>6. m \in Nat /\ m # 0 /\ m - 1 \in Nat /\ Good(m - 1)
  <2>1. m \in Nat /\ m # 0 /\ m - 1 \in Nat
    <3>1. m \in Nat
      BY <1>2
    <3>2. m = 0 => R = {}
      BY <1>3
    <3>3. m # 0
      BY <1>5, <3>2
    <3> QED BY <3>1, <3>3
  <2> HIDE DEF Good
  <2>2. m - 1 \notin Bad
    BY <1>2, <2>1
  <2> QED BY <2>1, <2>2
<1>7. CASE m \notin R
  BY <1>3, <1>6, <1>7
<1>8. CASE m \in R
  <2> DEFINE P == R \ {m}
             c == Cardinality(R)
  <2>1. P \in SUBSET (1 .. m - 1)
    BY <1>6
  <2>2. PICK p \in [1 .. Cardinality(P) -> P] : Increasing(p)
    BY <1>6, <2>1
  <2>3. Cardinality(P) = c - 1 /\ c \in Nat /\ c >= 1
    <3>1. Cardinality(P) = c - 1
      BY <1>4, <1>8, FS_RemoveElement
    <3>2. c # 0
      BY <1>4, <1>5, FS_EmptySet
    <3> QED BY <1>4, <3>1, <3>2
  <2> DEFINE q == [i \in 1 .. c |-> IF i = c THEN m ELSE p[i]]
  <2> HIDE DEF P
  <2>4. \A i \in 1 .. c : i # c => p[i] \in P /\ i \in 1 .. Cardinality(P)
    BY <2>2, <2>3
  <2>5. q \in [1 .. c -> R]
    BY <1>8, <2>4 DEF P
  <2>6. \A i \in P : i < m
    BY <1>6, <2>1
  <2>7. Increasing(q)
    <3> SUFFICES ASSUME NEW i \in 1 .. c, NEW j \in 1 .. c, i < j PROVE q[i] < q[j]
      BY DEF Increasing
    <3>1. i # c /\ q[i] = p[i] /\ p[i] \in P /\ i \in DOMAIN p
      BY <2>2, <2>3, <2>4
    <3>2. CASE j = c
      BY <3>1, <3>2, <2>6
    <3>3. CASE j # c
      <4>1. q[j] = p[j] /\ j \in DOMAIN p
        BY <2>2, <2>3, <2>4, <3>3
      <4> QED BY <2>2, <3>1, <4>1 DEF Increasing
    <3> QED BY <3>2, <3>3
  <2> QED BY <1>3, <2>5, <2>7
<1> QED BY <1>7, <1>8

\* Ordered is such an enumeration: it repeats no number.
LEMMA OrderedIs ==
  ASSUME NEW n \in Nat, NEW S \in SUBSET (1 .. n)
  PROVE /\ Cardinality(S) \in Nat
        /\ Ordered(S) \in [1 .. Cardinality(S) -> S]
        /\ \A i, j \in 1 .. Cardinality(S) : Ordered(S)[i] = Ordered(S)[j] => i = j
<1>1. Cardinality(S) \in Nat
  BY PositionsFinite
<1>2. Ordered(S) \in [1 .. Cardinality(S) -> S] /\ Increasing(Ordered(S))
  BY Enumerable DEF Ordered, Increasing
<1>3. ASSUME NEW i \in 1 .. Cardinality(S), NEW j \in 1 .. Cardinality(S), i # j
      PROVE Ordered(S)[i] # Ordered(S)[j]
  <2>1. i < j \/ j < i
    BY <1>1, <1>3
  <2>2. Ordered(S)[i] < Ordered(S)[j] \/ Ordered(S)[j] < Ordered(S)[i]
    BY <1>2, <2>1 DEF Increasing
  <2>3. PICK a \in S, b \in S : a = Ordered(S)[i] /\ b = Ordered(S)[j]
    BY <1>2
  <2>4. a \in Nat /\ b \in Nat /\ (a < b \/ b < a)
    BY <2>2, <2>3
  <2> QED BY <2>3, <2>4
<1> QED BY <1>1, <1>2, <1>3

-----------------------------------------------------------------------------
(* The operators of the model. *)

\* The answer of the server tells each message once.
LEMMA StoredDistinct ==
  ASSUME NEW k, NEW n \in 0 .. MaxLog
  PROVE Stored(k, n) \in Seq(MessageRecords) /\ Distinct(Stored(k, n))
<1> DEFINE S == {i \in 1 .. n : IsMessage(log[i]) /\ log[i].conv = k}
           q == Ordered(S)
<1>1. n \in Nat /\ S \in SUBSET (1 .. n)
  BY Bounds
<1>2. Stored(k, n) = [j \in DOMAIN q |-> Message(q[j], n)]
  BY DEF Stored
<1> HIDE DEF S
<1>3. /\ Cardinality(S) \in Nat /\ q \in [1 .. Cardinality(S) -> S]
      /\ \A i, j \in 1 .. Cardinality(S) : q[i] = q[j] => i = j
  BY <1>1, OrderedIs
<1> HIDE DEF q
<1>4. ASSUME NEW i \in 1 .. Cardinality(S)
      PROVE Message(q[i], n) \in MessageRecords /\ Message(q[i], n).id = q[i]
  <2>1. q[i] \in 1 .. MaxLog
    <3>1. PICK p \in S : p = q[i]
      BY <1>3
    <3>2. p \in 1 .. n
      BY <1>1
    <3>3. p \in 1 .. MaxLog
      BY <3>2, Bounds
    <3> QED BY <3>1, <3>3
  <2> QED BY <2>1 DEF Message, MessageRecords
<1>5. DOMAIN Stored(k, n) = 1 .. Cardinality(S)
  BY <1>2, <1>3
<1>6. \A j \in 1 .. Cardinality(S) : Stored(k, n)[j] = Message(q[j], n)
  BY <1>2, <1>3
<1>7. Stored(k, n) \in Seq(MessageRecords)
  BY <1>2, <1>3, <1>4
<1>8. Distinct(Stored(k, n))
  BY <1>3, <1>4, <1>5, <1>6 DEF Distinct
<1> QED BY <1>7, <1>8

\* A message that joins the timeline is not there yet.
LEMMA AddToTimelineKeeps ==
  ASSUME TimelineTypes, NoDuplicates, NEW m \in MessageRecords, AddToTimeline(m)
  PROVE TimelineTypes' /\ NoDuplicates'
<1> USE DEF TimelineTypes
<1>1. CASE Shown(m.id)
  BY <1>1 DEF AddToTimeline, NoDuplicates
<1>2. CASE ~Shown(m.id)
  <2>1. messages' = Append(messages, m)
    BY <1>2 DEF AddToTimeline
  <2>2. TimelineTypes'
    BY <2>1
  <2>3. /\ Len(messages) \in Nat /\ DOMAIN messages = 1 .. Len(messages)
        /\ DOMAIN messages' = 1 .. Len(messages) + 1
        /\ \A i \in 1 .. Len(messages) : messages'[i] = messages[i]
        /\ messages'[Len(messages) + 1] = m
    BY <2>1
  <2>4. \A i \in DOMAIN messages : messages[i].id # m.id
    BY <1>2 DEF Shown
  <2>5. NoDuplicates'
    BY <2>3, <2>4 DEF NoDuplicates
  <2> QED BY <2>2, <2>5
<1> QED BY <1>1, <1>2

\* A mark changes no message into another.
LEMMA MarkEditedKeeps ==
  ASSUME TimelineTypes, NoDuplicates, NEW i, MarkEdited(i)
  PROVE TimelineTypes' /\ NoDuplicates'
<1>1. DOMAIN messages' = DOMAIN messages /\ DOMAIN messages = 1 .. Len(messages)
  BY DEF TimelineTypes, MarkEdited
<1>2. ASSUME NEW j \in DOMAIN messages
      PROVE messages'[j] \in MessageRecords /\ messages'[j].id = messages[j].id
  <2>1. messages[j] \in MessageRecords
    BY DEF TimelineTypes
  <2>2. messages'[j] \in {messages[j], [messages[j] EXCEPT !.edited = TRUE]}
    BY DEF MarkEdited
  <2> QED BY <2>1, <2>2 DEF MessageRecords
<1>3. TimelineTypes'
  BY <1>1, <1>2 DEF TimelineTypes, MarkEdited
<1>4. NoDuplicates'
  BY <1>1, <1>2 DEF NoDuplicates
<1> QED BY <1>3, <1>4

\* A request reads up to an event of the log.
LEMMA LastOfType ==
  ASSUME LogTypes, NEW k
  PROVE LastOf(k) \in 0 .. MaxLog
<1> DEFINE told == {i \in DOMAIN log : log[i].conv = k /\ log[i].type # "resolved"}
<1>1. Len(log) \in Nat /\ DOMAIN log = 1 .. Len(log) /\ Len(log) <= MaxLog
  BY DEF LogTypes
<1>2. CASE told = {}
  BY <1>2, Bounds DEF LastOf
<1>3. CASE told # {}
  <2>1. Max(told) \in told
    BY <1>1, <1>3, MaxIsIn
  <2> QED BY <1>1, <1>3, <2>1, Bounds DEF LastOf
<1> QED BY <1>2, <1>3

\* The requests stay within their bound.
LEMMA FetchMessagesKeeps ==
  ASSUME LogTypes, RequestTypes, NEW k \in Convs, FetchMessages(k)
  PROVE /\ fetches' \subseteq Requests /\ IsFiniteSet(fetches')
        /\ Cardinality(fetches') <= MaxFetches
<1> DEFINE r == [conv |-> k, at |-> LastOf(k)]
<1>1. r \in Requests
  BY LastOfType DEF Requests
<1>2. /\ Cardinality(fetches) \in Nat /\ Cardinality(fetches) < MaxFetches
      /\ fetches' = fetches \union {r}
  BY FS_CardinalityType DEF FetchMessages, RequestTypes
<1> HIDE DEF r
<1>3. /\ IsFiniteSet(fetches')
      /\ Cardinality(fetches') = IF r \in fetches THEN Cardinality(fetches)
                                 ELSE Cardinality(fetches) + 1
  BY <1>2, FS_AddElement DEF RequestTypes
<1> QED BY <1>1, <1>2, <1>3, Bounds DEF RequestTypes

\* An answer, or its loss, is of one request.
LEMMA AnswerKeeps ==
  ASSUME RequestTypes, NEW r \in fetches, fetches' = fetches \ {r}
  PROVE /\ fetches' \subseteq Requests /\ IsFiniteSet(fetches')
        /\ Cardinality(fetches') <= MaxFetches
<1>1. /\ IsFiniteSet(fetches') /\ Cardinality(fetches') = Cardinality(fetches) - 1
      /\ Cardinality(fetches) \in Nat
  BY FS_RemoveElement, FS_CardinalityType DEF RequestTypes
<1> QED BY <1>1, Bounds DEF RequestTypes

\* What happens joins the log.
LEMMA HappensKeeps ==
  ASSUME LogTypes, NEW type \in {"created", "reply", "updated", "resolved"}, NEW k \in Convs,
         NEW i \in 0 .. MaxLog, Happens(type, k, i)
  PROVE LogTypes' /\ Len(log') = Len(log) + 1 /\ Len(log') \in 1 .. MaxLog
<1>1. [type |-> type, conv |-> k, id |-> i] \in Events
  BY DEF Events
<1> QED BY <1>1, Bounds DEF Happens, LogTypes

\* disconnectWebSocket and ConnectWebSocket close the active socket.
LEMMA DroppedType ==
  ASSUME SocketTypes
  PROVE /\ Dropped(activeWS) \in Seq(Sockets)
        /\ Len(Dropped(activeWS)) = Len(sockets)
<1> USE DEF SocketTypes
<1>1. CASE activeWS = 0
  BY <1>1 DEF Dropped
<1>2. CASE activeWS # 0
  <2>1. activeWS \in 1 .. Len(sockets) /\ sockets[activeWS] \in Sockets
    BY <1>2
  <2>2. [sockets[activeWS] EXCEPT !.state = "closing", !.at = 0] \in Sockets
    <3>1. PICK s \in Sockets : s = sockets[activeWS]
      BY <2>1
    <3>2. 0 \in 0 .. MaxLog
      BY Bounds
    <3>3. [s EXCEPT !.state = "closing", !.at = 0] \in Sockets
      BY <3>2 DEF Sockets
    <3> QED BY <3>1, <3>3
  <2>3. Dropped(activeWS) =
          [sockets EXCEPT ![activeWS] = [sockets[activeWS] EXCEPT !.state = "closing", !.at = 0]]
    BY <1>2, <2>1 DEF Dropped
  <2> QED BY <2>1, <2>2, <2>3
<1> QED BY <1>1, <1>2

\* After a connection there is an active socket.
LEMMA ConnectKeeps ==
  ASSUME SocketTypes, NEW w \in Workspaces, ConnectWebSocket(w)
  PROVE SocketTypes' /\ activeWS' # 0
<1>1. CASE activeWS # 0 /\ UNCHANGED <<sockets, activeWS>>
  BY <1>1 DEF SocketTypes
<1>2. CASE /\ Len(sockets) < MaxSockets
           /\ sockets' = Append(Dropped(activeWS),
                                [wid |-> w, state |-> "connecting", at |-> 0])
           /\ activeWS' = Len(sockets')
  <2>1. [wid |-> w, state |-> "connecting", at |-> 0] \in Sockets
    BY Bounds DEF Sockets
  <2> QED BY <1>2, <2>1, DroppedType, Bounds DEF SocketTypes
<1> QED BY <1>1, <1>2 DEF ConnectWebSocket

\* A socket that is closed leaves the list.
LEMMA CloseKeeps ==
  ASSUME SocketTypes, NEW s \in DOMAIN sockets, OnClose(s)
  PROVE SocketTypes' /\ timer' \in Workspaces
<1>1. s \in 1 .. Len(sockets) /\ sockets[s] \in Sockets /\ Len(sockets) \in Nat
  BY DEF SocketTypes
<1>2. sockets' = SubSeq(sockets, 1, s - 1) \o SubSeq(sockets, s + 1, Len(sockets))
  BY DEF OnClose, RemoveAt
<1>3. /\ SubSeq(sockets, 1, s - 1) \in Seq(Sockets) /\ Len(SubSeq(sockets, 1, s - 1)) = s - 1
      /\ SubSeq(sockets, s + 1, Len(sockets)) \in Seq(Sockets)
      /\ Len(SubSeq(sockets, s + 1, Len(sockets))) = Len(sockets) - s
  BY <1>1 DEF SocketTypes
<1>4. sockets' \in Seq(Sockets) /\ Len(sockets') = Len(sockets) - 1
  <2>1. \A p, q \in Seq(Sockets) : p \o q \in Seq(Sockets) /\ Len(p \o q) = Len(p) + Len(q)
    OBVIOUS
  <2>2. Len(sockets') = (s - 1) + (Len(sockets) - s) /\ sockets' \in Seq(Sockets)
    BY <1>2, <1>3, <2>1
  <2> QED BY <1>1, <2>2
<1>5. activeWS' = 0 /\ timer' \in Workspaces
  BY <1>1 DEF OnClose, Sockets
<1> QED BY <1>1, <1>4, <1>5, Bounds DEF SocketTypes

\* A socket that changes keeps its place.
LEMMA SocketChanges ==
  ASSUME SocketTypes, NEW s \in DOMAIN sockets, NEW v \in Sockets,
         sockets' = [sockets EXCEPT ![s] = v], activeWS' = activeWS
  PROVE SocketTypes'
BY DEF SocketTypes

-----------------------------------------------------------------------------
(* The steps. *)

\* Every step keeps LogTypes.
LEMMA LogTypesNext ==
  Types /\ [Next]_vars => LogTypes'
<1> SUFFICES ASSUME Types, [Next]_vars PROVE LogTypes'
  OBVIOUS
<1>1. ASSUME NEW k \in Convs, Select(k) PROVE LogTypes'
  BY <1>1 DEF Types, LogTypes, Select
<1>2. ASSUME NEW i \in DOMAIN log, Edit(i) PROVE LogTypes'
  <2>1. log[i].conv \in Convs /\ i \in 0 .. MaxLog
    <3>1. log[i] \in Events /\ i \in 1 .. Len(log) /\ Len(log) \in Nat /\ Len(log) <= MaxLog
      BY DEF Types, LogTypes
    <3> QED BY <3>1, Bounds DEF Events
  <2> QED BY <1>2, <2>1, HappensKeeps DEF Types, Edit
<1>3. ASSUME Deselect PROVE LogTypes'
  BY <1>3 DEF Types, LogTypes, Deselect
<1>4. ASSUME SendMessage PROVE LogTypes'
  <2>1. active \in Convs /\ 0 \in 0 .. MaxLog
    BY <1>4, Bounds DEF Types, PageTypes, SendMessage
  <2> QED BY <1>4, <2>1, HappensKeeps DEF Types, SendMessage
<1>5. ASSUME Resolve PROVE LogTypes'
  <2>1. obj \in Convs /\ 0 \in 0 .. MaxLog
    BY <1>5, Bounds DEF Types, PageTypes, Resolve
  <2> QED BY <1>5, <2>1, HappensKeeps DEF Types, Resolve
<1>6. ASSUME NEW r \in fetches, FetchReturns(r) PROVE LogTypes'
  BY <1>6 DEF Types, LogTypes, FetchReturns
<1>7. ASSUME NEW r \in fetches, FetchFails(r) PROVE LogTypes'
  BY <1>7 DEF Types, LogTypes, FetchFails
<1>8. ASSUME SendReturns PROVE LogTypes'
  BY <1>8 DEF Types, LogTypes, SendReturns
<1>9. ASSUME SendFails PROVE LogTypes'
  BY <1>9 DEF Types, LogTypes, SendFails
<1>10. ASSUME NEW k \in Convs, ContactWrites(k) PROVE LogTypes'
  <2>1. 0 \in 0 .. MaxLog
    BY Bounds
  <2> QED BY <1>10, <2>1, HappensKeeps DEF Types, ContactWrites
<1>11. ASSUME NEW s \in DOMAIN sockets, OnOpen(s) PROVE LogTypes'
  BY <1>11 DEF Types, LogTypes, OnOpen
<1>12. ASSUME NEW s \in DOMAIN sockets, OnMessage(s) PROVE LogTypes'
  BY <1>12 DEF Types, LogTypes, OnMessage
<1>13. ASSUME NEW s \in DOMAIN sockets, OnClose(s) PROVE LogTypes'
  BY <1>13 DEF Types, LogTypes, OnClose
<1>14. ASSUME Reconnect PROVE LogTypes'
  BY <1>14 DEF Types, LogTypes, Reconnect
<1>15. ASSUME NEW w \in Workspaces, Mount(w) PROVE LogTypes'
  BY <1>15 DEF Types, LogTypes, Mount
<1>16. ASSUME Unmount PROVE LogTypes'
  BY <1>16 DEF Types, LogTypes, Unmount
<1>17. ASSUME Poll PROVE LogTypes'
  BY <1>17 DEF Types, LogTypes, Poll
<1>18. CASE UNCHANGED vars
  BY <1>18 DEF vars, Types, LogTypes
<1> QED BY <1>1, <1>2, <1>3, <1>4, <1>5, <1>6, <1>7, <1>8, <1>9, <1>10, <1>11, <1>12, <1>13,
     <1>14, <1>15, <1>16, <1>17, <1>18 DEF Next, Operator, Answers

\* Every step keeps PageTypes.
LEMMA PageTypesNext ==
  Types /\ [Next]_vars => PageTypes'
<1> SUFFICES ASSUME Types, [Next]_vars PROVE PageTypes'
  OBVIOUS
<1> USE DEF Types, PageTypes
<1>1. ASSUME NEW k \in Convs, Select(k) PROVE PageTypes'
  BY <1>1 DEF Select
<1>2. ASSUME NEW i \in DOMAIN log, Edit(i) PROVE PageTypes'
  BY <1>2 DEF Edit
<1>3. ASSUME Deselect PROVE PageTypes'
  BY <1>3 DEF Deselect
<1>4. ASSUME SendMessage PROVE PageTypes'
  BY <1>4 DEF SendMessage
<1>5. ASSUME Resolve PROVE PageTypes'
  BY <1>5 DEF Resolve
<1>6. ASSUME NEW r \in fetches, FetchReturns(r) PROVE PageTypes'
  BY <1>6 DEF FetchReturns
<1>7. ASSUME NEW r \in fetches, FetchFails(r) PROVE PageTypes'
  BY <1>7 DEF FetchFails
<1>8. ASSUME SendReturns PROVE PageTypes'
  BY <1>8 DEF SendReturns, RequestTypes
<1>9. ASSUME SendFails PROVE PageTypes'
  BY <1>9 DEF SendFails
<1>10. ASSUME NEW k \in Convs, ContactWrites(k) PROVE PageTypes'
  BY <1>10 DEF ContactWrites
<1>11. ASSUME NEW s \in DOMAIN sockets, OnOpen(s) PROVE PageTypes'
  BY <1>11 DEF OnOpen
<1>12. ASSUME NEW s \in DOMAIN sockets, OnMessage(s) PROVE PageTypes'
  BY <1>12 DEF OnMessage, FetchConversations
<1>13. ASSUME NEW s \in DOMAIN sockets, OnClose(s) PROVE PageTypes'
  BY <1>13, CloseKeeps DEF OnClose
<1>14. ASSUME Reconnect PROVE PageTypes'
  BY <1>14 DEF Reconnect
<1>15. ASSUME NEW w \in Workspaces, Mount(w) PROVE PageTypes'
  BY <1>15 DEF Mount, FetchConversations
<1>16. ASSUME Unmount PROVE PageTypes'
  BY <1>16 DEF Unmount
<1>17. ASSUME Poll PROVE PageTypes'
  BY <1>17 DEF Poll, FetchConversations
<1>18. CASE UNCHANGED vars
  BY <1>18 DEF vars
<1> QED BY <1>1, <1>2, <1>3, <1>4, <1>5, <1>6, <1>7, <1>8, <1>9, <1>10, <1>11, <1>12, <1>13,
     <1>14, <1>15, <1>16, <1>17, <1>18 DEF Next, Operator, Answers

\* Every step keeps Timeline.
LEMMA TimelineNext ==
  Types /\ Timeline /\ [Next]_vars => Timeline'
<1> SUFFICES ASSUME Types, Timeline, [Next]_vars PROVE Timeline'
  OBVIOUS
<1> USE DEF Timeline
<1>1. ASSUME NEW k \in Convs, Select(k) PROVE Timeline'
  BY <1>1 DEF Timeline, TimelineTypes, NoDuplicates, Select
<1>2. ASSUME NEW i \in DOMAIN log, Edit(i) PROVE Timeline'
  BY <1>2, MarkEditedKeeps DEF Timeline, Edit
<1>3. ASSUME Deselect PROVE Timeline'
  BY <1>3 DEF Timeline, TimelineTypes, NoDuplicates, Deselect
<1>4. ASSUME SendMessage PROVE Timeline'
  BY <1>4 DEF Timeline, TimelineTypes, NoDuplicates, SendMessage
<1>5. ASSUME Resolve PROVE Timeline'
  BY <1>5 DEF Timeline, TimelineTypes, NoDuplicates, Resolve
<1>6. ASSUME NEW r \in fetches, FetchReturns(r) PROVE Timeline'
  <2>1. r.at \in 0 .. MaxLog /\ messages' = Stored(r.conv, r.at)
    BY <1>6 DEF Types, RequestTypes, Requests, FetchReturns
  <2> QED BY <2>1, StoredDistinct DEF TimelineTypes, NoDuplicates, Distinct
<1>7. ASSUME NEW r \in fetches, FetchFails(r) PROVE Timeline'
  BY <1>7 DEF Timeline, TimelineTypes, NoDuplicates, FetchFails
<1>8. ASSUME SendReturns PROVE Timeline'
  <2>1. [id |-> sending.id, edited |-> FALSE] \in MessageRecords
    BY <1>8 DEF Types, RequestTypes, SendReturns, MessageRecords
  <2> QED BY <1>8, <2>1, AddToTimelineKeeps DEF SendReturns
<1>9. ASSUME SendFails PROVE Timeline'
  BY <1>9 DEF Timeline, TimelineTypes, NoDuplicates, SendFails
<1>10. ASSUME NEW k \in Convs, ContactWrites(k) PROVE Timeline'
  BY <1>10 DEF Timeline, TimelineTypes, NoDuplicates, ContactWrites
<1>11. ASSUME NEW s \in DOMAIN sockets, OnOpen(s) PROVE Timeline'
  BY <1>11 DEF Timeline, TimelineTypes, NoDuplicates, OnOpen
<1>12. ASSUME NEW s \in DOMAIN sockets, OnMessage(s) PROVE Timeline'
  <2> DEFINE i == sockets[s].at + 1
  <2>1. i \in 1 .. MaxLog
    <3>1. PICK k \in Sockets : k = sockets[s]
      BY DEF Types, SocketTypes
    <3>2. k.at \in Nat /\ k.at < Len(log) /\ Len(log) \in Nat /\ Len(log) <= MaxLog
      BY <1>12, <3>1, Bounds DEF OnMessage, Types, LogTypes, Sockets
    <3> QED BY <3>1, <3>2, Bounds
  <2>2. [id |-> i, edited |-> FALSE] \in MessageRecords
    BY <2>1 DEF MessageRecords
  <2>3. \/ AddToTimeline([id |-> i, edited |-> FALSE])
        \/ MarkEdited(log[i].id)
        \/ UNCHANGED messages
    BY <1>12 DEF OnMessage
  <2>4. CASE UNCHANGED messages
    BY <2>4 DEF TimelineTypes, NoDuplicates
  <2> HIDE DEF i
  <2> QED BY <2>2, <2>3, <2>4, AddToTimelineKeeps, MarkEditedKeeps
<1>13. ASSUME NEW s \in DOMAIN sockets, OnClose(s) PROVE Timeline'
  BY <1>13 DEF Timeline, TimelineTypes, NoDuplicates, OnClose
<1>14. ASSUME Reconnect PROVE Timeline'
  BY <1>14 DEF Timeline, TimelineTypes, NoDuplicates, Reconnect
<1>15. ASSUME NEW w \in Workspaces, Mount(w) PROVE Timeline'
  BY <1>15 DEF Timeline, TimelineTypes, NoDuplicates, Mount
<1>16. ASSUME Unmount PROVE Timeline'
  BY <1>16 DEF Timeline, TimelineTypes, NoDuplicates, Unmount
<1>17. ASSUME Poll PROVE Timeline'
  BY <1>17 DEF Timeline, TimelineTypes, NoDuplicates, Poll
<1>18. CASE UNCHANGED vars
  BY <1>18 DEF vars, Timeline, TimelineTypes, NoDuplicates
<1> QED BY <1>1, <1>2, <1>3, <1>4, <1>5, <1>6, <1>7, <1>8, <1>9, <1>10, <1>11, <1>12, <1>13,
     <1>14, <1>15, <1>16, <1>17, <1>18 DEF Next, Operator, Answers

\* Every step keeps RequestTypes.
LEMMA RequestTypesNext ==
  Types /\ [Next]_vars => RequestTypes'
<1> SUFFICES ASSUME Types, [Next]_vars PROVE RequestTypes'
  OBVIOUS
<1> USE DEF Types, RequestTypes
<1>1. ASSUME NEW k \in Convs, Select(k) PROVE RequestTypes'
  BY <1>1, FetchMessagesKeeps DEF Select
<1>2. ASSUME NEW i \in DOMAIN log, Edit(i) PROVE RequestTypes'
  BY <1>2 DEF Edit
<1>3. ASSUME Deselect PROVE RequestTypes'
  BY <1>3 DEF Deselect
<1>4. ASSUME SendMessage PROVE RequestTypes'
  <2>1. sending' = [obj |-> obj, id |-> Len(log')] /\ fetches' = fetches
    BY <1>4 DEF SendMessage
  <2>2. Len(log') \in 1 .. MaxLog
    <3>1. active \in Convs /\ 0 \in 0 .. MaxLog
      BY <1>4, Bounds DEF PageTypes, SendMessage
    <3> QED BY <1>4, <3>1, HappensKeeps DEF SendMessage
  <2>3. Len(log') \in 0 .. MaxLog /\ obj \in Convs \union {None}
    BY <2>2, Bounds DEF PageTypes
  <2> QED BY <2>1, <2>2, <2>3
<1>5. ASSUME Resolve PROVE RequestTypes'
  BY <1>5 DEF Resolve
<1>6. ASSUME NEW r \in fetches, FetchReturns(r) PROVE RequestTypes'
  BY <1>6, AnswerKeeps DEF FetchReturns
<1>7. ASSUME NEW r \in fetches, FetchFails(r) PROVE RequestTypes'
  BY <1>7, AnswerKeeps DEF FetchFails
<1>8. ASSUME SendReturns PROVE RequestTypes'
  <2>1. sending' = NotSending /\ NotSending \in [obj : Convs \union {None}, id : 0 .. MaxLog]
    BY <1>8, Bounds DEF SendReturns, NotSending
  <2> QED BY <1>8, <2>1 DEF SendReturns
<1>9. ASSUME SendFails PROVE RequestTypes'
  <2>1. sending' = NotSending /\ NotSending \in [obj : Convs \union {None}, id : 0 .. MaxLog]
    BY <1>9, Bounds DEF SendFails, NotSending
  <2> QED BY <1>9, <2>1 DEF SendFails
<1>10. ASSUME NEW k \in Convs, ContactWrites(k) PROVE RequestTypes'
  BY <1>10 DEF ContactWrites
<1>11. ASSUME NEW s \in DOMAIN sockets, OnOpen(s) PROVE RequestTypes'
  BY <1>11 DEF OnOpen
<1>12. ASSUME NEW s \in DOMAIN sockets, OnMessage(s) PROVE RequestTypes'
  BY <1>12 DEF OnMessage
<1>13. ASSUME NEW s \in DOMAIN sockets, OnClose(s) PROVE RequestTypes'
  BY <1>13 DEF OnClose
<1>14. ASSUME Reconnect PROVE RequestTypes'
  BY <1>14 DEF Reconnect
<1>15. ASSUME NEW w \in Workspaces, Mount(w) PROVE RequestTypes'
  BY <1>15 DEF Mount
<1>16. ASSUME Unmount PROVE RequestTypes'
  BY <1>16 DEF Unmount
<1>17. ASSUME Poll PROVE RequestTypes'
  <2>1. CASE UNCHANGED fetches
    BY <1>17, <2>1 DEF Poll
  <2>2. CASE active \in Convs /\ FetchMessages(active)
    BY <1>17, <2>2, FetchMessagesKeeps DEF Poll
  <2> QED BY <1>17, <2>1, <2>2 DEF Poll, PageTypes
<1>18. CASE UNCHANGED vars
  BY <1>18 DEF vars
<1> QED BY <1>1, <1>2, <1>3, <1>4, <1>5, <1>6, <1>7, <1>8, <1>9, <1>10, <1>11, <1>12, <1>13,
     <1>14, <1>15, <1>16, <1>17, <1>18 DEF Next, Operator, Answers

\* Every step keeps SocketTypes.
LEMMA SocketTypesNext ==
  Types /\ [Next]_vars => SocketTypes'
<1> SUFFICES ASSUME Types, [Next]_vars PROVE SocketTypes'
  OBVIOUS
<1> USE DEF Types
<1>1. ASSUME NEW k \in Convs, Select(k) PROVE SocketTypes'
  BY <1>1 DEF SocketTypes, Select
<1>2. ASSUME NEW i \in DOMAIN log, Edit(i) PROVE SocketTypes'
  BY <1>2 DEF SocketTypes, Edit
<1>3. ASSUME Deselect PROVE SocketTypes'
  BY <1>3 DEF SocketTypes, Deselect
<1>4. ASSUME SendMessage PROVE SocketTypes'
  BY <1>4 DEF SocketTypes, SendMessage
<1>5. ASSUME Resolve PROVE SocketTypes'
  BY <1>5 DEF SocketTypes, Resolve
<1>6. ASSUME NEW r \in fetches, FetchReturns(r) PROVE SocketTypes'
  BY <1>6 DEF SocketTypes, FetchReturns
<1>7. ASSUME NEW r \in fetches, FetchFails(r) PROVE SocketTypes'
  BY <1>7 DEF SocketTypes, FetchFails
<1>8. ASSUME SendReturns PROVE SocketTypes'
  BY <1>8 DEF SocketTypes, SendReturns
<1>9. ASSUME SendFails PROVE SocketTypes'
  BY <1>9 DEF SocketTypes, SendFails
<1>10. ASSUME NEW k \in Convs, ContactWrites(k) PROVE SocketTypes'
  BY <1>10 DEF SocketTypes, ContactWrites
<1>11. ASSUME NEW s \in DOMAIN sockets, OnOpen(s) PROVE SocketTypes'
  <2>1. PICK k \in Sockets : k = sockets[s]
    BY DEF SocketTypes
  <2>2. Len(log) \in 0 .. MaxLog
    BY Bounds DEF LogTypes
  <2>3. [k EXCEPT !.state = "open", !.at = Len(log)] \in Sockets
    BY <2>2 DEF Sockets
  <2>4. /\ sockets' = [sockets EXCEPT ![s] = [k EXCEPT !.state = "open", !.at = Len(log)]]
        /\ activeWS' = activeWS
    BY <1>11, <2>1 DEF OnOpen, SocketTypes
  <2> QED BY <2>3, <2>4, SocketChanges
<1>12. ASSUME NEW s \in DOMAIN sockets, OnMessage(s) PROVE SocketTypes'
  <2>1. PICK k \in Sockets : k = sockets[s]
    BY DEF SocketTypes
  <2>2. k.at + 1 \in 0 .. MaxLog
    <3>1. k.at \in Nat /\ k.at < Len(log) /\ Len(log) \in Nat /\ Len(log) <= MaxLog
      BY <1>12, <2>1, Bounds DEF OnMessage, LogTypes, Sockets
    <3> QED BY <3>1, Bounds
  <2>3. [k EXCEPT !.at = k.at + 1] \in Sockets
    BY <2>2 DEF Sockets
  <2>4. /\ sockets' = [sockets EXCEPT ![s] = [k EXCEPT !.at = k.at + 1]]
        /\ activeWS' = activeWS
    BY <1>12, <2>1 DEF OnMessage, SocketTypes
  <2> QED BY <2>3, <2>4, SocketChanges
<1>13. ASSUME NEW s \in DOMAIN sockets, OnClose(s) PROVE SocketTypes'
  BY <1>13, CloseKeeps
<1>14. ASSUME Reconnect PROVE SocketTypes'
  <2>1. timer \in Workspaces
    BY <1>14 DEF PageTypes, Reconnect
  <2> QED BY <1>14, <2>1, ConnectKeeps DEF Reconnect
<1>15. ASSUME NEW w \in Workspaces, Mount(w) PROVE SocketTypes'
  BY <1>15, ConnectKeeps DEF Mount
<1>16. ASSUME Unmount PROVE SocketTypes'
  BY <1>16, DroppedType, Bounds DEF Unmount, SocketTypes
<1>17. ASSUME Poll PROVE SocketTypes'
  BY <1>17 DEF SocketTypes, Poll
<1>18. CASE UNCHANGED vars
  BY <1>18 DEF vars, SocketTypes
<1> QED BY <1>1, <1>2, <1>3, <1>4, <1>5, <1>6, <1>7, <1>8, <1>9, <1>10, <1>11, <1>12, <1>13,
     <1>14, <1>15, <1>16, <1>17, <1>18 DEF Next, Operator, Answers

\* Every step keeps PageListens.
LEMMA PageListensNext ==
  Types /\ PageListens /\ [Next]_vars => PageListens'
<1> SUFFICES ASSUME Types, PageListens, [Next]_vars PROVE PageListens'
  OBVIOUS
<1> USE DEF PageListens
<1>1. ASSUME NEW k \in Convs, Select(k) PROVE PageListens'
  BY <1>1 DEF Select
<1>2. ASSUME NEW i \in DOMAIN log, Edit(i) PROVE PageListens'
  BY <1>2 DEF Edit
<1>3. ASSUME Deselect PROVE PageListens'
  BY <1>3 DEF Deselect
<1>4. ASSUME SendMessage PROVE PageListens'
  BY <1>4 DEF SendMessage
<1>5. ASSUME Resolve PROVE PageListens'
  BY <1>5 DEF Resolve
<1>6. ASSUME NEW r \in fetches, FetchReturns(r) PROVE PageListens'
  BY <1>6 DEF FetchReturns
<1>7. ASSUME NEW r \in fetches, FetchFails(r) PROVE PageListens'
  BY <1>7 DEF FetchFails
<1>8. ASSUME SendReturns PROVE PageListens'
  BY <1>8 DEF SendReturns
<1>9. ASSUME SendFails PROVE PageListens'
  BY <1>9 DEF SendFails
<1>10. ASSUME NEW k \in Convs, ContactWrites(k) PROVE PageListens'
  BY <1>10 DEF ContactWrites
<1>11. ASSUME NEW s \in DOMAIN sockets, OnOpen(s) PROVE PageListens'
  BY <1>11 DEF OnOpen
<1>12. ASSUME NEW s \in DOMAIN sockets, OnMessage(s) PROVE PageListens'
  BY <1>12 DEF OnMessage
<1>13. ASSUME NEW s \in DOMAIN sockets, OnClose(s) PROVE PageListens'
  BY <1>13, CloseKeeps, InboxAssumption DEF Types
<1>14. ASSUME Reconnect PROVE PageListens'
  <2>1. timer \in Workspaces
    BY <1>14 DEF Types, PageTypes, Reconnect
  <2> QED BY <1>14, <2>1, ConnectKeeps DEF Types, Reconnect
<1>15. ASSUME NEW w \in Workspaces, Mount(w) PROVE PageListens'
  BY <1>15, ConnectKeeps DEF Types, Mount
<1>16. ASSUME Unmount PROVE PageListens'
  BY <1>16 DEF Unmount
<1>17. ASSUME Poll PROVE PageListens'
  BY <1>17 DEF Poll
<1>18. CASE UNCHANGED vars
  BY <1>18 DEF vars
<1> QED BY <1>1, <1>2, <1>3, <1>4, <1>5, <1>6, <1>7, <1>8, <1>9, <1>10, <1>11, <1>12, <1>13,
     <1>14, <1>15, <1>16, <1>17, <1>18 DEF Next, Operator, Answers

-----------------------------------------------------------------------------
\* The strengthened invariant holds of every behaviour.
LEMMA Inductive == Spec => []IInv
<1>1. Init => IInv
  <2> SUFFICES ASSUME Init PROVE IInv
    OBVIOUS
  <2> USE DEF Init
  <2>1. LogTypes /\ TimelineTypes /\ SocketTypes
    BY Bounds DEF LogTypes, TimelineTypes, SocketTypes
  <2>2. PageTypes /\ PageListens
    BY DEF PageTypes, PageListens
  <2>3. RequestTypes
    BY Bounds, FS_EmptySet DEF RequestTypes, NotSending
  <2>4. NoDuplicates
    BY DEF NoDuplicates
  <2> QED BY <2>1, <2>2, <2>3, <2>4 DEF IInv, Types
<1>2. IInv /\ [Next]_vars => IInv'
  BY LogTypesNext, PageTypesNext, TimelineNext, RequestTypesNext, SocketTypesNext,
     PageListensNext DEF IInv, Types, Timeline
<1> QED BY <1>1, <1>2, PTL DEF Spec

\* Every variable keeps its type: the requests and the sockets stay within their
\* bounds, and the active socket is one of those that are not closed.
THEOREM TypeCorrect == Spec => []TypeOK
<1>1. IInv => TypeOK
  <2> SUFFICES ASSUME IInv PROVE TypeOK
    OBVIOUS
  <2> QED BY DEF IInv, Types, LogTypes, PageTypes, TimelineTypes, RequestTypes, SocketTypes,
                 MessageRecords, TypeOK
<1> QED BY <1>1, Inductive, PTL

\* A message is shown once, however its answer, its echoes and the reads of the
\* timeline race.
THEOREM NoDuplicatesCorrect == Spec => []NoDuplicates
<1>1. IInv => NoDuplicates
  BY DEF IInv
<1> QED BY <1>1, Inductive, PTL

\* The page is never left without a socket or a reconnection that is due.
THEOREM PageListensCorrect == Spec => []PageListens
<1>1. IInv => PageListens
  BY DEF IInv
<1> QED BY <1>1, Inductive, PTL
=============================================================================
