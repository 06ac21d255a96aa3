-------------------------- MODULE CallRecordsProofs --------------------------
(***************************************************************************)
(* Proofs about CallRecords, for every set of operators: one thread at     *)
(* most answers a call, a call the session can route to is listed, and the *)
(* recording of a call is in the history, and in the end in the database,  *)
(* unless its UPDATE came before the INSERT of a record archived without.  *)
(***************************************************************************)
EXTENDS CallRecords, TLAPS

USE OperatorsAssumption DEF Threads, Workers, call, database

\* What t does next, once its listeners have returned.
Due(t) == IF pc[t] \in {"listen", "build", "upsert"} THEN after[t] ELSE pc[t]

Makes(t) == Due(t) \in {"incoming", "spawnAuto", "spawnAck"}

ControlOK == /\ pc \in [Threads -> Labels]
             /\ after \in [Threads -> Labels \ {"listen", "build", "upsert"}]

DraftsOK ==
  /\ record \in Records /\ draft \in [Threads -> Records]
  /\ \A t \in Threads : pc[t] = "upsert" => draft[t] # None

\* Before there is a call nobody works on one.
Fresh ==
  phase = "none" =>
    /\ ~registered /\ record = None
    /\ pc["media"] = "off" /\ pc["auto"] = "off"
    /\ \A t \in Threads : pc[t] \in {"off", "idle"}

\* One thread makes the call, and the goroutines it spawns wait for it.
Starting ==
  /\ \A t, u \in Threads : Makes(t) /\ Makes(u) => t = u
  /\ \A t \in Threads : Makes(t) => pc["media"] = "off" /\ pc["auto"] = "off"

\* Only an ended call is archived by the ended handler, and only a call that was
\* taken out of the registry by an HTTP handler.
Archiving ==
  /\ \A t \in Threads :
       Due(t) \in {"close", "unregister", "archiveEnded", "saveUrl"} => phase = "Ended"
  /\ \A t \in Threads : Due(t) = "archive" => ~registered

\* A call is answered while it rings, and never rings again.
Answered == accepters # {} => phase \notin {"none", "IncomingRinging"}

\* The record that is missing is about to be written.
Listed ==
  registered /\ phase \notin {"none", "Ended"} /\ record = None =>
    \E t \in Threads : pc[t] \in {"incoming", "listen", "build", "upsert"}

\* Every variable that is not the program's control or a record has its type.
Ranges ==
  /\ phase \in {"none", "Ringing", "IncomingRinging", "Connecting", "Active", "Ended"}
  /\ direction \in {"none", "inbound", "outbound"}
  /\ registered \in BOOLEAN /\ closed \in BOOLEAN /\ early \in BOOLEAN
  /\ history \in Seq(Records)
  /\ issued \subseteq Writes /\ landed \subseteq issued
  /\ stored \in {"none", "withoutUrl", "withUrl"}
  /\ accepters \subseteq Threads

\* The broker has heard of the call: once it has, the call is never lost from
\* both the live records and the history.
Known == record # None \/ history # <<>>

\* Whoever works on a call past its first listener works on a call that is known.
Kept ==
  \/ Known
  \/ /\ phase # "Ended" /\ pc["media"] = "off"
     /\ \A t \in Threads : pc[t] \in {"off", "idle", "listen", "build", "upsert", "incoming"}

\* saveRecording finds the row the ended handler's own endCall, or somebody
\* else's before it, has put in the history, and writes the URL to it.
Saved ==
  /\ \A t \in Threads : Due(t) = "saveUrl" => history # <<>>
  /\ closed => history # <<>> /\ history[1].url

\* The row of a call keeps the URL that one of its writes brought, and the UPDATE
\* of the recording has brought it if there was a row to update.
Landed ==
  /\ CallWrite([url |-> TRUE]) \in landed => stored = "withUrl"
  /\ RecordingWrite \in landed => stored = "withUrl" \/ early
  /\ closed => RecordingWrite \in issued

IInv ==
  /\ ControlOK /\ DraftsOK /\ Fresh /\ Starting
  /\ Archiving /\ Answered /\ Listed /\ OneAnswers
  /\ Ranges /\ Kept /\ Saved /\ Landed

-----------------------------------------------------------------------------
\* Every step keeps ControlOK.
LEMMA ControlNext ==
  ControlOK /\ [Next]_vars => ControlOK'
<1> SUFFICES ASSUME ControlOK, [Next]_vars PROVE ControlOK'
  OBVIOUS
<1> USE DEF ControlOK, Labels
<1>1. ASSUME NEW t \in Threads, Listener(t) PROVE ControlOK'
  BY <1>1 DEF Listener, ListenerReturns, LookUpPhone, BuildRecord,
       UpsertRecord, Resume, Goto, mapStatus
<1>2. ASSUME NEW t \in Threads, EndedHandler(t) PROVE ControlOK'
  BY <1>2 DEF EndedHandler, CloseRecorder, Unregister, ArchiveEnded, SaveUrl,
       Goto, EndCall, saveRecording
<1>3. ASSUME NEW t \in Threads, AcceptCall(t) PROVE ControlOK'
  BY <1>3 DEF AcceptCall, Goto, NotifyThen
<1>4. ASSUME NEW o \in Operators, StartCall(o) PROVE ControlOK'
  BY <1>4 DEF StartCall, NotifyThen
<1>5. ASSUME NEW o \in Operators, Request(o) PROVE ControlOK'
  BY <1>5 DEF Request, Goto
<1>6. ASSUME NEW o \in Operators, Handler(o) PROVE ControlOK'
  BY <1>6 DEF Handler, SpawnAck, StoreOutgoing, Claim, RejectCall,
       EndByOperator, RemoveCall, Archive, Goto, MayOwn, NotifyThen, EndCall
<1>7. ASSUME HandleCallOffer PROVE ControlOK'
  BY <1>7 DEF HandleCallOffer, Goto
<1>8. ASSUME OnIncoming PROVE ControlOK'
  BY <1>8 DEF OnIncoming, NotifyThen
<1>9. ASSUME ScheduleAutoAnswer PROVE ControlOK'
  BY <1>9 DEF ScheduleAutoAnswer
<1>10. ASSUME Route PROVE ControlOK'
  BY <1>10 DEF Route, Goto
<1>11. ASSUME HandleCallAccept PROVE ControlOK'
  BY <1>11 DEF HandleCallAccept, NotifyThen
<1>12. ASSUME ActivateAccepted PROVE ControlOK'
  BY <1>12 DEF ActivateAccepted, Goto, NotifyThen
<1>13. ASSUME HandleCallTerminate PROVE ControlOK'
  BY <1>13 DEF HandleCallTerminate, NotifyThen
<1>14. ASSUME OnRelayConnected PROVE ControlOK'
  BY <1>14 DEF OnRelayConnected, NotifyThen
<1>15. ASSUME EngineEnds PROVE ControlOK'
  BY <1>15 DEF EngineEnds, NotifyThen
<1>16. ASSUME AutoAnswerWakes PROVE ControlOK'
  BY <1>16 DEF AutoAnswerWakes, Goto
<1>17. ASSUME AutoClaim PROVE ControlOK'
  BY <1>17 DEF AutoClaim, Goto, MayOwn
<1>18. ASSUME Persist PROVE ControlOK'
  BY <1>18 DEF Persist, UpsertRow, UpdateRow
<1>19. CASE UNCHANGED vars
  BY <1>19 DEF vars
<1> QED BY <1>1, <1>2, <1>3, <1>4, <1>5, <1>6, <1>7, <1>8, <1>9, <1>10, <1>11, <1>12,
     <1>13, <1>14, <1>15, <1>16, <1>17, <1>18, <1>19 DEF Next

\* Every step keeps DraftsOK.
LEMMA DraftsNext ==
  ControlOK /\ DraftsOK /\ [Next]_vars => DraftsOK'
<1> SUFFICES ASSUME ControlOK, DraftsOK, [Next]_vars PROVE DraftsOK'
  OBVIOUS
<1> USE DEF ControlOK, Labels, DraftsOK, Records, Owners, Rec, None, mapStatus
<1>1. ASSUME NEW t \in Threads, Listener(t) PROVE DraftsOK'
  <2>1. CASE ListenerReturns(t)
    BY <2>1 DEF ListenerReturns, Resume
  <2>2. CASE LookUpPhone(t)
    BY <2>2 DEF LookUpPhone, Goto
  <2>3. CASE BuildRecord(t)
    BY <2>3 DEF BuildRecord, Goto, mapStatus
  <2>4. CASE UpsertRecord(t)
    BY <2>4 DEF UpsertRecord, Resume
  <2> QED BY <1>1, <2>1, <2>2, <2>3, <2>4 DEF Listener
<1>2. ASSUME NEW t \in Threads, EndedHandler(t) PROVE DraftsOK'
  <2>1. CASE CloseRecorder(t)
    BY <2>1 DEF CloseRecorder, Goto
  <2>2. CASE Unregister(t)
    BY <2>2 DEF Unregister, Goto
  <2>3. CASE ArchiveEnded(t)
    <3>1. record' \in Records /\ draft' = draft
      <4>1. CASE record = None
        BY <2>3, <4>1 DEF ArchiveEnded, EndCall
      <4>2. CASE record # None
        <5>1. record' = None /\ draft' = draft
          BY <2>3, <4>2 DEF ArchiveEnded, EndCall
        <5> QED BY <5>1
      <4> QED BY <4>1, <4>2
    <3>2. \E label \in {"saveUrl", "idle"} : pc' = [pc EXCEPT ![t] = label]
      BY <2>3 DEF ArchiveEnded, Goto
    <3> QED BY <3>1, <3>2
  <2>4. CASE SaveUrl(t)
    <3>1. record' \in {record, [record EXCEPT !.url = TRUE]} /\ draft' = draft
      BY <2>4 DEF SaveUrl, saveRecording
    <3>2. record' \in Records
      BY <3>1
    <3>3. \E label \in {"remove", "idle"} : pc' = [pc EXCEPT ![t] = label]
      BY <2>4 DEF SaveUrl, Goto
    <3> QED BY <3>1, <3>2, <3>3
  <2> QED BY <1>2, <2>1, <2>2, <2>3, <2>4 DEF EndedHandler
<1>3. ASSUME NEW t \in Threads, AcceptCall(t) PROVE DraftsOK'
  BY <1>3 DEF AcceptCall, Goto, NotifyThen
<1>4. ASSUME NEW o \in Operators, StartCall(o) PROVE DraftsOK'
  BY <1>4 DEF StartCall, NotifyThen
<1>5. ASSUME NEW o \in Operators, Request(o) PROVE DraftsOK'
  BY <1>5 DEF Request, Goto
<1>6. ASSUME NEW o \in Operators, Handler(o) PROVE DraftsOK'
  <2>1. CASE SpawnAck(o)
    BY <2>1 DEF SpawnAck
  <2>2. CASE StoreOutgoing(o)
    BY <2>2 DEF StoreOutgoing, Goto
  <2>3. CASE Claim(o)
    BY <2>3 DEF Claim, Goto, MayOwn
  <2>4. CASE RejectCall(o)
    BY <2>4 DEF RejectCall, NotifyThen
  <2>5. CASE EndByOperator(o)
    BY <2>5 DEF EndByOperator, Goto, NotifyThen
  <2>6. CASE RemoveCall(o)
    BY <2>6 DEF RemoveCall, Goto
  <2>7. CASE Archive(o)
    <3>1. record' \in Records /\ draft' = draft
      <4>1. CASE record = None
        BY <2>7, <4>1 DEF Archive, EndCall
      <4>2. CASE record # None
        <5>1. record' = None /\ draft' = draft
          BY <2>7, <4>2 DEF Archive, EndCall
        <5> QED BY <5>1
      <4> QED BY <4>1, <4>2
    <3>2. \E label \in {"saveUrl", "idle"} : pc' = [pc EXCEPT ![o] = label]
      BY <2>7 DEF Archive, Goto
    <3> QED BY <3>1, <3>2
  <2> QED BY <1>6, <2>1, <2>2, <2>3, <2>4, <2>5, <2>6, <2>7 DEF Handler
<1>7. ASSUME HandleCallOffer PROVE DraftsOK'
  BY <1>7 DEF HandleCallOffer, Goto
<1>8. ASSUME OnIncoming PROVE DraftsOK'
  BY <1>8 DEF OnIncoming, NotifyThen
<1>9. ASSUME ScheduleAutoAnswer PROVE DraftsOK'
  BY <1>9 DEF ScheduleAutoAnswer
<1>10. ASSUME Route PROVE DraftsOK'
  BY <1>10 DEF Route, Goto
<1>11. ASSUME HandleCallAccept PROVE DraftsOK'
  BY <1>11 DEF HandleCallAccept, NotifyThen
<1>12. ASSUME ActivateAccepted PROVE DraftsOK'
  BY <1>12 DEF ActivateAccepted, Goto, NotifyThen
<1>13. ASSUME HandleCallTerminate PROVE DraftsOK'
  BY <1>13 DEF HandleCallTerminate, NotifyThen
<1>14. ASSUME OnRelayConnected PROVE DraftsOK'
  BY <1>14 DEF OnRelayConnected, NotifyThen
<1>15. ASSUME EngineEnds PROVE DraftsOK'
  BY <1>15 DEF EngineEnds, NotifyThen
<1>16. ASSUME AutoAnswerWakes PROVE DraftsOK'
  BY <1>16 DEF AutoAnswerWakes, Goto
<1>17. ASSUME AutoClaim PROVE DraftsOK'
  BY <1>17 DEF AutoClaim, Goto, MayOwn
<1>18. ASSUME Persist PROVE DraftsOK'
  BY <1>18 DEF Persist, UpsertRow, UpdateRow
<1>19. CASE UNCHANGED vars
  BY <1>19 DEF vars
<1> QED BY <1>1, <1>2, <1>3, <1>4, <1>5, <1>6, <1>7, <1>8, <1>9, <1>10, <1>11, <1>12,
     <1>13, <1>14, <1>15, <1>16, <1>17, <1>18, <1>19 DEF Next

\* Every step keeps Fresh.
LEMMA FreshNext ==
  ControlOK /\ Fresh /\ [Next]_vars => Fresh'
<1> SUFFICES ASSUME ControlOK, Fresh, [Next]_vars PROVE Fresh'
  OBVIOUS
<1> USE DEF ControlOK, Labels, Fresh, None, Rec
<1>1. ASSUME NEW t \in Threads, Listener(t) PROVE Fresh'
  <2>1. CASE ListenerReturns(t)
    BY <2>1 DEF ListenerReturns, Resume
  <2>2. CASE LookUpPhone(t)
    BY <2>2 DEF LookUpPhone, Goto
  <2>3. CASE BuildRecord(t)
    BY <2>3 DEF BuildRecord, Goto, mapStatus
  <2>4. CASE UpsertRecord(t)
    BY <2>4 DEF UpsertRecord, Resume
  <2> QED BY <1>1, <2>1, <2>2, <2>3, <2>4 DEF Listener
<1>2. ASSUME NEW t \in Threads, EndedHandler(t) PROVE Fresh'
  BY <1>2 DEF EndedHandler, CloseRecorder, Unregister, ArchiveEnded, SaveUrl,
       Goto, EndCall, saveRecording
<1>3. ASSUME NEW t \in Threads, AcceptCall(t) PROVE Fresh'
  BY <1>3 DEF AcceptCall, Goto, NotifyThen
<1>4. ASSUME NEW o \in Operators, StartCall(o) PROVE Fresh'
  BY <1>4 DEF StartCall, NotifyThen
<1>5. ASSUME NEW o \in Operators, Request(o) PROVE Fresh'
  BY <1>5 DEF Request, Goto
<1>6. ASSUME NEW o \in Operators, Handler(o) PROVE Fresh'
  <2>1. CASE SpawnAck(o)
    BY <2>1 DEF SpawnAck
  <2>2. CASE StoreOutgoing(o)
    BY <2>2 DEF StoreOutgoing, Goto
  <2>3. CASE Claim(o)
    BY <2>3 DEF Claim, Goto, MayOwn
  <2>4. CASE RejectCall(o)
    BY <2>4 DEF RejectCall, NotifyThen
  <2>5. CASE EndByOperator(o)
    BY <2>5 DEF EndByOperator, Goto, NotifyThen
  <2>6. CASE RemoveCall(o)
    BY <2>6 DEF RemoveCall, Goto
  <2>7. CASE Archive(o)
    BY <2>7 DEF Archive, Goto, EndCall
  <2> QED BY <1>6, <2>1, <2>2, <2>3, <2>4, <2>5, <2>6, <2>7 DEF Handler
<1>7. ASSUME HandleCallOffer PROVE Fresh'
  BY <1>7 DEF HandleCallOffer, Goto
<1>8. ASSUME OnIncoming PROVE Fresh'
  BY <1>8 DEF OnIncoming, NotifyThen
<1>9. ASSUME ScheduleAutoAnswer PROVE Fresh'
  BY <1>9 DEF ScheduleAutoAnswer
<1>10. ASSUME Route PROVE Fresh'
  BY <1>10 DEF Route, Goto
<1>11. ASSUME HandleCallAccept PROVE Fresh'
  BY <1>11 DEF HandleCallAccept, NotifyThen
<1>12. ASSUME ActivateAccepted PROVE Fresh'
  BY <1>12 DEF ActivateAccepted, Goto, NotifyThen
<1>13. ASSUME HandleCallTerminate PROVE Fresh'
  BY <1>13 DEF HandleCallTerminate, NotifyThen
<1>14. ASSUME OnRelayConnected PROVE Fresh'
  BY <1>14 DEF OnRelayConnected, NotifyThen
<1>15. ASSUME EngineEnds PROVE Fresh'
  BY <1>15 DEF EngineEnds, NotifyThen
<1>16. ASSUME AutoAnswerWakes PROVE Fresh'
  BY <1>16 DEF AutoAnswerWakes, Goto
<1>17. ASSUME AutoClaim PROVE Fresh'
  BY <1>17 DEF AutoClaim, Goto, MayOwn
<1>18. ASSUME Persist PROVE Fresh'
  BY <1>18 DEF Persist, UpsertRow, UpdateRow
<1>19. CASE UNCHANGED vars
  BY <1>19 DEF vars
<1> QED BY <1>1, <1>2, <1>3, <1>4, <1>5, <1>6, <1>7, <1>8, <1>9, <1>10, <1>11, <1>12,
     <1>13, <1>14, <1>15, <1>16, <1>17, <1>18, <1>19 DEF Next

\* Every step keeps Starting.
LEMMA StartingNext ==
  ControlOK /\ Fresh /\ Starting /\ [Next]_vars => Starting'
<1> SUFFICES ASSUME ControlOK, Fresh, Starting, [Next]_vars PROVE Starting'
  OBVIOUS
<1> USE DEF ControlOK, Labels, Fresh, Starting, Makes, Due
<1>1. ASSUME NEW t \in Threads, Listener(t) PROVE Starting'
  <2>1. CASE ListenerReturns(t)
    BY <2>1 DEF ListenerReturns, Resume
  <2>2. CASE LookUpPhone(t)
    BY <2>2 DEF LookUpPhone, Goto
  <2>3. CASE BuildRecord(t)
    BY <2>3 DEF BuildRecord, Goto, mapStatus
  <2>4. CASE UpsertRecord(t)
    BY <2>4 DEF UpsertRecord, Resume
  <2> QED BY <1>1, <2>1, <2>2, <2>3, <2>4 DEF Listener
<1>2. ASSUME NEW t \in Threads, EndedHandler(t) PROVE Starting'
  BY <1>2 DEF EndedHandler, CloseRecorder, Unregister, ArchiveEnded, SaveUrl,
       Goto, EndCall, saveRecording
<1>3. ASSUME NEW t \in Threads, AcceptCall(t) PROVE Starting'
  BY <1>3 DEF AcceptCall, Goto, NotifyThen
<1>4. ASSUME NEW o \in Operators, StartCall(o) PROVE Starting'
  BY <1>4 DEF StartCall, NotifyThen
<1>5. ASSUME NEW o \in Operators, Request(o) PROVE Starting'
  BY <1>5 DEF Request, Goto
<1>6. ASSUME NEW o \in Operators, Handler(o) PROVE Starting'
  <2>1. CASE SpawnAck(o)
    <3>1. pc[o] = "spawnAck" /\ pc'[o] = "store" /\ after' = after
      BY <2>1 DEF SpawnAck
    <3>2. \A x \in Threads \ {o, "media"} : pc'[x] = pc[x]
      BY <2>1 DEF SpawnAck
    <3>3. pc["media"] = "off" /\ pc'["media"] = "idle"
      BY <2>1, <3>1 DEF SpawnAck, Starting, Makes, Due
    <3> QED BY <3>1, <3>2, <3>3
  <2>2. CASE StoreOutgoing(o)
    BY <2>2 DEF StoreOutgoing, Goto
  <2>3. CASE Claim(o)
    BY <2>3 DEF Claim, Goto, MayOwn
  <2>4. CASE RejectCall(o)
    BY <2>4 DEF RejectCall, NotifyThen
  <2>5. CASE EndByOperator(o)
    BY <2>5 DEF EndByOperator, Goto, NotifyThen
  <2>6. CASE RemoveCall(o)
    BY <2>6 DEF RemoveCall, Goto
  <2>7. CASE Archive(o)
    BY <2>7 DEF Archive, Goto, EndCall
  <2> QED BY <1>6, <2>1, <2>2, <2>3, <2>4, <2>5, <2>6, <2>7 DEF Handler
<1>7. ASSUME HandleCallOffer PROVE Starting'
  BY <1>7 DEF HandleCallOffer, Goto
<1>8. ASSUME OnIncoming PROVE Starting'
  BY <1>8 DEF OnIncoming, NotifyThen
<1>9. ASSUME ScheduleAutoAnswer PROVE Starting'
  <2>1. pc["events"] = "spawnAuto" /\ pc'["events"] = "idle" /\ after' = after
    BY <1>9 DEF ScheduleAutoAnswer
  <2>2. \A x \in Threads \ {"events", "media", "auto"} : pc'[x] = pc[x]
    BY <1>9 DEF ScheduleAutoAnswer
  <2>3. /\ pc["media"] = "off" /\ pc'["media"] = "idle" /\ pc["auto"] = "off"
        /\ pc'["auto"] \in {"off", "wait", "claim"}
    BY <1>9, <2>1 DEF ScheduleAutoAnswer, Starting, Makes, Due
  <2> QED BY <2>1, <2>2, <2>3
<1>10. ASSUME Route PROVE Starting'
  BY <1>10 DEF Route, Goto
<1>11. ASSUME HandleCallAccept PROVE Starting'
  BY <1>11 DEF HandleCallAccept, NotifyThen
<1>12. ASSUME ActivateAccepted PROVE Starting'
  BY <1>12 DEF ActivateAccepted, Goto, NotifyThen
<1>13. ASSUME HandleCallTerminate PROVE Starting'
  BY <1>13 DEF HandleCallTerminate, NotifyThen
<1>14. ASSUME OnRelayConnected PROVE Starting'
  BY <1>14 DEF OnRelayConnected, NotifyThen
<1>15. ASSUME EngineEnds PROVE Starting'
  BY <1>15 DEF EngineEnds, NotifyThen
<1>16. ASSUME AutoAnswerWakes PROVE Starting'
  BY <1>16 DEF AutoAnswerWakes, Goto
<1>17. ASSUME AutoClaim PROVE Starting'
  BY <1>17 DEF AutoClaim, Goto, MayOwn
<1>18. ASSUME Persist PROVE Starting'
  BY <1>18 DEF Persist, UpsertRow, UpdateRow
<1>19. CASE UNCHANGED vars
  BY <1>19 DEF vars
<1> QED BY <1>1, <1>2, <1>3, <1>4, <1>5, <1>6, <1>7, <1>8, <1>9, <1>10, <1>11, <1>12,
     <1>13, <1>14, <1>15, <1>16, <1>17, <1>18, <1>19 DEF Next

\* Every step keeps Archiving.
LEMMA ArchivingNext ==
  ControlOK /\ Fresh /\ Archiving /\ [Next]_vars => Archiving'
<1> SUFFICES ASSUME ControlOK, Fresh, Archiving, [Next]_vars PROVE Archiving'
  OBVIOUS
<1> USE DEF ControlOK, Labels, Fresh, Archiving, Due
<1>1. ASSUME NEW t \in Threads, Listener(t) PROVE Archiving'
  <2>1. CASE ListenerReturns(t)
    BY <2>1 DEF ListenerReturns, Resume
  <2>2. CASE LookUpPhone(t)
    BY <2>2 DEF LookUpPhone, Goto
  <2>3. CASE BuildRecord(t)
    BY <2>3 DEF BuildRecord, Goto, mapStatus
  <2>4. CASE UpsertRecord(t)
    BY <2>4 DEF UpsertRecord, Resume
  <2> QED BY <1>1, <2>1, <2>2, <2>3, <2>4 DEF Listener
<1>2. ASSUME NEW t \in Threads, EndedHandler(t) PROVE Archiving'
  BY <1>2 DEF EndedHandler, CloseRecorder, Unregister, ArchiveEnded, SaveUrl,
       Goto, EndCall, saveRecording
<1>3. ASSUME NEW t \in Threads, AcceptCall(t) PROVE Archiving'
  BY <1>3 DEF AcceptCall, Goto, NotifyThen
<1>4. ASSUME NEW o \in Operators, StartCall(o) PROVE Archiving'
  BY <1>4 DEF StartCall, NotifyThen
<1>5. ASSUME NEW o \in Operators, Request(o) PROVE Archiving'
  BY <1>5 DEF Request, Goto
<1>6. ASSUME NEW o \in Operators, Handler(o) PROVE Archiving'
  <2>1. CASE SpawnAck(o)
    BY <2>1 DEF SpawnAck
  <2>2. CASE StoreOutgoing(o)
    BY <2>2 DEF StoreOutgoing, Goto
  <2>3. CASE Claim(o)
    BY <2>3 DEF Claim, Goto, MayOwn
  <2>4. CASE RejectCall(o)
    BY <2>4 DEF RejectCall, NotifyThen
  <2>5. CASE EndByOperator(o)
    BY <2>5 DEF EndByOperator, Goto, NotifyThen
  <2>6. CASE RemoveCall(o)
    BY <2>6 DEF RemoveCall, Goto
  <2>7. CASE Archive(o)
    BY <2>7 DEF Archive, Goto, EndCall
  <2> QED BY <1>6, <2>1, <2>2, <2>3, <2>4, <2>5, <2>6, <2>7 DEF Handler
<1>7. ASSUME HandleCallOffer PROVE Archiving'
  BY <1>7 DEF HandleCallOffer, Goto
<1>8. ASSUME OnIncoming PROVE Archiving'
  BY <1>8 DEF OnIncoming, NotifyThen
<1>9. ASSUME ScheduleAutoAnswer PROVE Archiving'
  BY <1>9 DEF ScheduleAutoAnswer
<1>10. ASSUME Route PROVE Archiving'
  BY <1>10 DEF Route, Goto
<1>11. ASSUME HandleCallAccept PROVE Archiving'
  BY <1>11 DEF HandleCallAccept, NotifyThen
<1>12. ASSUME ActivateAccepted PROVE Archiving'
  BY <1>12 DEF ActivateAccepted, Goto, NotifyThen
<1>13. ASSUME HandleCallTerminate PROVE Archiving'
  BY <1>13 DEF HandleCallTerminate, NotifyThen
<1>14. ASSUME OnRelayConnected PROVE Archiving'
  BY <1>14 DEF OnRelayConnected, NotifyThen
<1>15. ASSUME EngineEnds PROVE Archiving'
  BY <1>15 DEF EngineEnds, NotifyThen
<1>16. ASSUME AutoAnswerWakes PROVE Archiving'
  BY <1>16 DEF AutoAnswerWakes, Goto
<1>17. ASSUME AutoClaim PROVE Archiving'
  BY <1>17 DEF AutoClaim, Goto, MayOwn
<1>18. ASSUME Persist PROVE Archiving'
  BY <1>18 DEF Persist, UpsertRow, UpdateRow
<1>19. CASE UNCHANGED vars
  BY <1>19 DEF vars
<1> QED BY <1>1, <1>2, <1>3, <1>4, <1>5, <1>6, <1>7, <1>8, <1>9, <1>10, <1>11, <1>12,
     <1>13, <1>14, <1>15, <1>16, <1>17, <1>18, <1>19 DEF Next

\* Every step keeps Answered.
LEMMA AnsweredNext ==
  ControlOK /\ Fresh /\ Answered /\ [Next]_vars => Answered'
<1> SUFFICES ASSUME ControlOK, Fresh, Answered, [Next]_vars PROVE Answered'
  OBVIOUS
<1> USE DEF ControlOK, Labels, Fresh, Answered
<1>1. ASSUME NEW t \in Threads, Listener(t) PROVE Answered'
  <2>1. CASE ListenerReturns(t)
    BY <2>1 DEF ListenerReturns, Resume
  <2>2. CASE LookUpPhone(t)
    BY <2>2 DEF LookUpPhone, Goto
  <2>3. CASE BuildRecord(t)
    BY <2>3 DEF BuildRecord, Goto, mapStatus
  <2>4. CASE UpsertRecord(t)
    BY <2>4 DEF UpsertRecord, Resume
  <2> QED BY <1>1, <2>1, <2>2, <2>3, <2>4 DEF Listener
<1>2. ASSUME NEW t \in Threads, EndedHandler(t) PROVE Answered'
  BY <1>2 DEF EndedHandler, CloseRecorder, Unregister, ArchiveEnded, SaveUrl,
       Goto, EndCall, saveRecording
<1>3. ASSUME NEW t \in Threads, AcceptCall(t) PROVE Answered'
  BY <1>3 DEF AcceptCall, Goto, NotifyThen
<1>4. ASSUME NEW o \in Operators, StartCall(o) PROVE Answered'
  BY <1>4 DEF StartCall, NotifyThen
<1>5. ASSUME NEW o \in Operators, Request(o) PROVE Answered'
  BY <1>5 DEF Request, Goto
<1>6. ASSUME NEW o \in Operators, Handler(o) PROVE Answered'
  <2>1. CASE SpawnAck(o)
    BY <2>1 DEF SpawnAck
  <2>2. CASE StoreOutgoing(o)
    BY <2>2 DEF StoreOutgoing, Goto
  <2>3. CASE Claim(o)
    BY <2>3 DEF Claim, Goto, MayOwn
  <2>4. CASE RejectCall(o)
    BY <2>4 DEF RejectCall, NotifyThen
  <2>5. CASE EndByOperator(o)
    BY <2>5 DEF EndByOperator, Goto, NotifyThen
  <2>6. CASE RemoveCall(o)
    BY <2>6 DEF RemoveCall, Goto
  <2>7. CASE Archive(o)
    BY <2>7 DEF Archive, Goto, EndCall
  <2> QED BY <1>6, <2>1, <2>2, <2>3, <2>4, <2>5, <2>6, <2>7 DEF Handler
<1>7. ASSUME HandleCallOffer PROVE Answered'
  BY <1>7 DEF HandleCallOffer, Goto
<1>8. ASSUME OnIncoming PROVE Answered'
  BY <1>8 DEF OnIncoming, NotifyThen
<1>9. ASSUME ScheduleAutoAnswer PROVE Answered'
  BY <1>9 DEF ScheduleAutoAnswer
<1>10. ASSUME Route PROVE Answered'
  BY <1>10 DEF Route, Goto
<1>11. ASSUME HandleCallAccept PROVE Answered'
  BY <1>11 DEF HandleCallAccept, NotifyThen
<1>12. ASSUME ActivateAccepted PROVE Answered'
  BY <1>12 DEF ActivateAccepted, Goto, NotifyThen
<1>13. ASSUME HandleCallTerminate PROVE Answered'
  BY <1>13 DEF HandleCallTerminate, NotifyThen
<1>14. ASSUME OnRelayConnected PROVE Answered'
  BY <1>14 DEF OnRelayConnected, NotifyThen
<1>15. ASSUME EngineEnds PROVE Answered'
  BY <1>15 DEF EngineEnds, NotifyThen
<1>16. ASSUME AutoAnswerWakes PROVE Answered'
  BY <1>16 DEF AutoAnswerWakes, Goto
<1>17. ASSUME AutoClaim PROVE Answered'
  BY <1>17 DEF AutoClaim, Goto, MayOwn
<1>18. ASSUME Persist PROVE Answered'
  BY <1>18 DEF Persist, UpsertRow, UpdateRow
<1>19. CASE UNCHANGED vars
  BY <1>19 DEF vars
<1> QED BY <1>1, <1>2, <1>3, <1>4, <1>5, <1>6, <1>7, <1>8, <1>9, <1>10, <1>11, <1>12,
     <1>13, <1>14, <1>15, <1>16, <1>17, <1>18, <1>19 DEF Next

\* Every step keeps OneAnswers.
LEMMA OneAnswersNext ==
  Answered /\ OneAnswers /\ [Next]_vars => OneAnswers'
<1> SUFFICES ASSUME Answered, OneAnswers, [Next]_vars PROVE OneAnswers'
  OBVIOUS
<1> USE DEF Answered, OneAnswers
<1>1. ASSUME NEW t \in Threads, Listener(t) PROVE OneAnswers'
  BY <1>1 DEF Listener, ListenerReturns, LookUpPhone, BuildRecord,
       UpsertRecord, Resume, Goto, mapStatus
<1>2. ASSUME NEW t \in Threads, EndedHandler(t) PROVE OneAnswers'
  BY <1>2 DEF EndedHandler, CloseRecorder, Unregister, ArchiveEnded, SaveUrl,
       Goto, EndCall, saveRecording
<1>3. ASSUME NEW t \in Threads, AcceptCall(t) PROVE OneAnswers'
  BY <1>3 DEF AcceptCall, Goto, NotifyThen
<1>4. ASSUME NEW o \in Operators, StartCall(o) PROVE OneAnswers'
  BY <1>4 DEF StartCall, NotifyThen
<1>5. ASSUME NEW o \in Operators, Request(o) PROVE OneAnswers'
  BY <1>5 DEF Request, Goto
<1>6. ASSUME NEW o \in Operators, Handler(o) PROVE OneAnswers'
  BY <1>6 DEF Handler, SpawnAck, StoreOutgoing, Claim, RejectCall,
       EndByOperator, RemoveCall, Archive, Goto, MayOwn, NotifyThen, EndCall
<1>7. ASSUME HandleCallOffer PROVE OneAnswers'
  BY <1>7 DEF HandleCallOffer, Goto
<1>8. ASSUME OnIncoming PROVE OneAnswers'
  BY <1>8 DEF OnIncoming, NotifyThen
<1>9. ASSUME ScheduleAutoAnswer PROVE OneAnswers'
  BY <1>9 DEF ScheduleAutoAnswer
<1>10. ASSUME Route PROVE OneAnswers'
  BY <1>10 DEF Route, Goto
<1>11. ASSUME HandleCallAccept PROVE OneAnswers'
  BY <1>11 DEF HandleCallAccept, NotifyThen
<1>12. ASSUME ActivateAccepted PROVE OneAnswers'
  BY <1>12 DEF ActivateAccepted, Goto, NotifyThen
<1>13. ASSUME HandleCallTerminate PROVE OneAnswers'
  BY <1>13 DEF HandleCallTerminate, NotifyThen
<1>14. ASSUME OnRelayConnected PROVE OneAnswers'
  BY <1>14 DEF OnRelayConnected, NotifyThen
<1>15. ASSUME EngineEnds PROVE OneAnswers'
  BY <1>15 DEF EngineEnds, NotifyThen
<1>16. ASSUME AutoAnswerWakes PROVE OneAnswers'
  BY <1>16 DEF AutoAnswerWakes, Goto
<1>17. ASSUME AutoClaim PROVE OneAnswers'
  BY <1>17 DEF AutoClaim, Goto, MayOwn
<1>18. ASSUME Persist PROVE OneAnswers'
  BY <1>18 DEF Persist, UpsertRow, UpdateRow
<1>19. CASE UNCHANGED vars
  BY <1>19 DEF vars
<1> QED BY <1>1, <1>2, <1>3, <1>4, <1>5, <1>6, <1>7, <1>8, <1>9, <1>10, <1>11, <1>12,
     <1>13, <1>14, <1>15, <1>16, <1>17, <1>18, <1>19 DEF Next

\* Every step keeps Listed.
LEMMA ListedNext ==
  ControlOK /\ DraftsOK /\ Fresh /\ Starting /\ Archiving /\ Listed /\ [Next]_vars => Listed'
<1> SUFFICES ASSUME ControlOK, DraftsOK, Fresh, Starting, Archiving, Listed, [Next]_vars
     PROVE Listed'
  OBVIOUS
<1> USE DEF ControlOK, Labels, DraftsOK, Fresh, Archiving, Due, Listed, None,
     Rec
<1>1. ASSUME NEW t \in Threads, Listener(t) PROVE Listed'
  <2>1. CASE ListenerReturns(t)
    BY <2>1 DEF ListenerReturns, Resume
  <2>2. CASE LookUpPhone(t)
    BY <2>2 DEF LookUpPhone, Goto
  <2>3. CASE BuildRecord(t)
    BY <2>3 DEF BuildRecord, Goto, mapStatus
  <2>4. CASE UpsertRecord(t)
    BY <2>4 DEF UpsertRecord, Resume
  <2> QED BY <1>1, <2>1, <2>2, <2>3, <2>4 DEF Listener
<1>2. ASSUME NEW t \in Threads, EndedHandler(t) PROVE Listed'
  BY <1>2 DEF EndedHandler, CloseRecorder, Unregister, ArchiveEnded, SaveUrl,
       Goto, EndCall, saveRecording
<1>3. ASSUME NEW t \in Threads, AcceptCall(t) PROVE Listed'
  BY <1>3 DEF AcceptCall, Goto, NotifyThen
<1>4. ASSUME NEW o \in Operators, StartCall(o) PROVE Listed'
  BY <1>4 DEF StartCall, NotifyThen
<1>5. ASSUME NEW o \in Operators, Request(o) PROVE Listed'
  BY <1>5 DEF Request, Goto
<1>6. ASSUME NEW o \in Operators, Handler(o) PROVE Listed'
  <2>1. CASE SpawnAck(o)
    <3>1. pc[o] = "spawnAck" /\ pc'[o] = "store" /\ after' = after
      BY <2>1 DEF SpawnAck
    <3>2. \A x \in Threads \ {o, "media"} : pc'[x] = pc[x]
      BY <2>1 DEF SpawnAck
    <3>3. pc["media"] = "off" /\ pc'["media"] = "idle"
      BY <2>1, <3>1 DEF SpawnAck, Starting, Makes, Due
    <3> QED BY <2>1, <3>1, <3>2, <3>3 DEF SpawnAck
  <2>2. CASE StoreOutgoing(o)
    BY <2>2 DEF StoreOutgoing, Goto
  <2>3. CASE Claim(o)
    BY <2>3 DEF Claim, Goto, MayOwn
  <2>4. CASE RejectCall(o)
    BY <2>4 DEF RejectCall, NotifyThen
  <2>5. CASE EndByOperator(o)
    BY <2>5 DEF EndByOperator, Goto, NotifyThen
  <2>6. CASE RemoveCall(o)
    BY <2>6 DEF RemoveCall, Goto
  <2>7. CASE Archive(o)
    BY <2>7 DEF Archive, Goto, EndCall
  <2> QED BY <1>6, <2>1, <2>2, <2>3, <2>4, <2>5, <2>6, <2>7 DEF Handler
<1>7. ASSUME HandleCallOffer PROVE Listed'
  BY <1>7 DEF HandleCallOffer, Goto
<1>8. ASSUME OnIncoming PROVE Listed'
  BY <1>8 DEF OnIncoming, NotifyThen
<1>9. ASSUME ScheduleAutoAnswer PROVE Listed'
  <2>1. pc["events"] = "spawnAuto" /\ pc'["events"] = "idle" /\ after' = after
    BY <1>9 DEF ScheduleAutoAnswer
  <2>2. \A x \in Threads \ {"events", "media", "auto"} : pc'[x] = pc[x]
    BY <1>9 DEF ScheduleAutoAnswer
  <2>3. /\ pc["media"] = "off" /\ pc'["media"] = "idle" /\ pc["auto"] = "off"
        /\ pc'["auto"] \in {"off", "wait", "claim"}
    BY <1>9, <2>1 DEF ScheduleAutoAnswer, Starting, Makes, Due
  <2> QED BY <1>9, <2>1, <2>2, <2>3 DEF ScheduleAutoAnswer
<1>10. ASSUME Route PROVE Listed'
  BY <1>10 DEF Route, Goto
<1>11. ASSUME HandleCallAccept PROVE Listed'
  BY <1>11 DEF HandleCallAccept, NotifyThen
<1>12. ASSUME ActivateAccepted PROVE Listed'
  BY <1>12 DEF ActivateAccepted, Goto, NotifyThen
<1>13. ASSUME HandleCallTerminate PROVE Listed'
  BY <1>13 DEF HandleCallTerminate, NotifyThen
<1>14. ASSUME OnRelayConnected PROVE Listed'
  BY <1>14 DEF OnRelayConnected, NotifyThen
<1>15. ASSUME EngineEnds PROVE Listed'
  BY <1>15 DEF EngineEnds, NotifyThen
<1>16. ASSUME AutoAnswerWakes PROVE Listed'
  BY <1>16 DEF AutoAnswerWakes, Goto
<1>17. ASSUME AutoClaim PROVE Listed'
  BY <1>17 DEF AutoClaim, Goto, MayOwn
<1>18. ASSUME Persist PROVE Listed'
  BY <1>18 DEF Persist, UpsertRow, UpdateRow
<1>19. CASE UNCHANGED vars
  BY <1>19 DEF vars
<1> QED BY <1>1, <1>2, <1>3, <1>4, <1>5, <1>6, <1>7, <1>8, <1>9, <1>10, <1>11, <1>12,
     <1>13, <1>14, <1>15, <1>16, <1>17, <1>18, <1>19 DEF Next

\* Every step keeps Ranges.
LEMMA RangesNext ==
  DraftsOK /\ Ranges /\ [Next]_vars => Ranges'
<1> SUFFICES ASSUME DraftsOK, Ranges, [Next]_vars PROVE Ranges'
  OBVIOUS
<1> USE DEF Ranges
<1>1. ASSUME NEW t \in Threads, Listener(t) PROVE Ranges'
  <2>1. CASE ListenerReturns(t)
    BY <2>1 DEF ListenerReturns, Resume
  <2>2. CASE LookUpPhone(t)
    BY <2>2 DEF LookUpPhone, Goto
  <2>3. CASE BuildRecord(t)
    BY <2>3 DEF BuildRecord, Goto, mapStatus
  <2>4. CASE UpsertRecord(t)
    BY <2>4 DEF UpsertRecord, Resume
  <2> QED BY <1>1, <2>1, <2>2, <2>3, <2>4 DEF Listener
<1>2. ASSUME NEW t \in Threads, EndedHandler(t) PROVE Ranges'
  <2>1. CASE CloseRecorder(t)
    BY <2>1 DEF CloseRecorder, Goto
  <2>2. CASE Unregister(t)
    BY <2>2 DEF Unregister, Goto
  <2>3. CASE ArchiveEnded(t)
    <3>1. CASE record = None
      BY <2>3, <3>1 DEF ArchiveEnded, EndCall
    <3>2. CASE record # None
      <4>1. [record EXCEPT !.status = "ended"] \in Records
        BY DEF DraftsOK, Records
      <4>2. history' = Append(history, [record EXCEPT !.status = "ended"])
        BY <2>3, <3>2 DEF ArchiveEnded, EndCall
      <4>3. history' \in Seq(Records)
        BY <4>1, <4>2
      <4>4. CallWrite(record) \in Writes
        BY DEF CallWrite, Writes, DraftsOK, Records
      <4> QED BY <2>3, <3>2, <4>3, <4>4 DEF ArchiveEnded, EndCall
    <3> QED BY <3>1, <3>2
  <2>4. CASE SaveUrl(t)
    <3>1. history' \in Seq(Records)
      <4>1. CASE history = <<>>
        BY <2>4, <4>1 DEF SaveUrl, saveRecording
      <4>2. CASE history # <<>>
        <5>1. 1 \in DOMAIN history /\ history[1] \in Records
          BY <4>2
        <5>2. [history[1] EXCEPT !.url = TRUE] \in Records
          BY <5>1 DEF Records
        <5>3. history' = [history EXCEPT ![1] = [history[1] EXCEPT !.url = TRUE]]
          BY <2>4, <4>2 DEF SaveUrl, saveRecording
        <5> QED BY <5>1, <5>2, <5>3
      <4> QED BY <4>1, <4>2
    <3>2. RecordingWrite \in Writes
      BY DEF RecordingWrite, Writes
    <3> QED BY <2>4, <3>1, <3>2 DEF SaveUrl
  <2> QED BY <1>2, <2>1, <2>2, <2>3, <2>4 DEF EndedHandler
<1>3. ASSUME NEW t \in Threads, AcceptCall(t) PROVE Ranges'
  BY <1>3 DEF AcceptCall, Goto, NotifyThen
<1>4. ASSUME NEW o \in Operators, StartCall(o) PROVE Ranges'
  BY <1>4 DEF StartCall, NotifyThen
<1>5. ASSUME NEW o \in Operators, Request(o) PROVE Ranges'
  BY <1>5 DEF Request, Goto
<1>6. ASSUME NEW o \in Operators, Handler(o) PROVE Ranges'
  <2>1. CASE SpawnAck(o)
    BY <2>1 DEF SpawnAck
  <2>2. CASE StoreOutgoing(o)
    BY <2>2 DEF StoreOutgoing, Goto
  <2>3. CASE Claim(o)
    BY <2>3 DEF Claim, Goto, MayOwn
  <2>4. CASE RejectCall(o)
    BY <2>4 DEF RejectCall, NotifyThen
  <2>5. CASE EndByOperator(o)
    BY <2>5 DEF EndByOperator, Goto, NotifyThen
  <2>6. CASE RemoveCall(o)
    BY <2>6 DEF RemoveCall, Goto
  <2>7. CASE Archive(o)
    <3>1. CASE record = None
      BY <2>7, <3>1 DEF Archive, EndCall
    <3>2. CASE record # None
      <4>1. [record EXCEPT !.status = "ended"] \in Records
        BY DEF DraftsOK, Records
      <4>2. history' = Append(history, [record EXCEPT !.status = "ended"])
        BY <2>7, <3>2 DEF Archive, EndCall
      <4>3. history' \in Seq(Records)
        BY <4>1, <4>2
      <4>4. CallWrite(record) \in Writes
        BY DEF CallWrite, Writes, DraftsOK, Records
      <4> QED BY <2>7, <3>2, <4>3, <4>4 DEF Archive, EndCall
    <3> QED BY <3>1, <3>2
  <2> QED BY <1>6, <2>1, <2>2, <2>3, <2>4, <2>5, <2>6, <2>7 DEF Handler
<1>7. ASSUME HandleCallOffer PROVE Ranges'
  BY <1>7 DEF HandleCallOffer, Goto
<1>8. ASSUME OnIncoming PROVE Ranges'
  BY <1>8 DEF OnIncoming, NotifyThen
<1>9. ASSUME ScheduleAutoAnswer PROVE Ranges'
  BY <1>9 DEF ScheduleAutoAnswer
<1>10. ASSUME Route PROVE Ranges'
  BY <1>10 DEF Route, Goto
<1>11. ASSUME HandleCallAccept PROVE Ranges'
  BY <1>11 DEF HandleCallAccept, NotifyThen
<1>12. ASSUME ActivateAccepted PROVE Ranges'
  BY <1>12 DEF ActivateAccepted, Goto, NotifyThen
<1>13. ASSUME HandleCallTerminate PROVE Ranges'
  BY <1>13 DEF HandleCallTerminate, NotifyThen
<1>14. ASSUME OnRelayConnected PROVE Ranges'
  BY <1>14 DEF OnRelayConnected, NotifyThen
<1>15. ASSUME EngineEnds PROVE Ranges'
  BY <1>15 DEF EngineEnds, NotifyThen
<1>16. ASSUME AutoAnswerWakes PROVE Ranges'
  BY <1>16 DEF AutoAnswerWakes, Goto
<1>17. ASSUME AutoClaim PROVE Ranges'
  BY <1>17 DEF AutoClaim, Goto, MayOwn
<1>18. ASSUME Persist PROVE Ranges'
  BY <1>18 DEF Persist, UpsertRow, UpdateRow
<1>19. CASE UNCHANGED vars
  BY <1>19 DEF vars
<1> QED BY <1>1, <1>2, <1>3, <1>4, <1>5, <1>6, <1>7, <1>8, <1>9, <1>10, <1>11, <1>12, <1>13,
     <1>14, <1>15, <1>16, <1>17, <1>18, <1>19 DEF Next

\* A known call stays known.
LEMMA KnownNext ==
  DraftsOK /\ Ranges /\ Known /\ [Next]_vars => Known'
<1> SUFFICES ASSUME DraftsOK, Ranges, Known, [Next]_vars PROVE Known'
  OBVIOUS
<1> USE DEF Known, None, Rec
<1>1. ASSUME NEW t \in Threads, Listener(t) PROVE Known'
  <2>1. CASE ListenerReturns(t)
    BY <2>1 DEF ListenerReturns, Resume
  <2>2. CASE LookUpPhone(t)
    BY <2>2 DEF LookUpPhone, Goto
  <2>3. CASE BuildRecord(t)
    BY <2>3 DEF BuildRecord, Goto, mapStatus
  <2>4. CASE UpsertRecord(t)
    BY <2>4 DEF UpsertRecord, DraftsOK, None
  <2> QED BY <1>1, <2>1, <2>2, <2>3, <2>4 DEF Listener
<1>2. ASSUME NEW t \in Threads, EndedHandler(t) PROVE Known'
  <2>1. CASE CloseRecorder(t)
    BY <2>1 DEF CloseRecorder, Goto
  <2>2. CASE Unregister(t)
    BY <2>2 DEF Unregister, Goto
  <2>3. CASE ArchiveEnded(t)
    BY <2>3 DEF ArchiveEnded, EndCall, Ranges
  <2>4. CASE SaveUrl(t)
    BY <2>4 DEF SaveUrl, saveRecording, DraftsOK, Records, Ranges
  <2> QED BY <1>2, <2>1, <2>2, <2>3, <2>4 DEF EndedHandler
<1>3. ASSUME NEW t \in Threads, AcceptCall(t) PROVE Known'
  BY <1>3 DEF AcceptCall, Goto, NotifyThen
<1>4. ASSUME NEW o \in Operators, StartCall(o) PROVE Known'
  BY <1>4 DEF StartCall, NotifyThen
<1>5. ASSUME NEW o \in Operators, Request(o) PROVE Known'
  BY <1>5 DEF Request, Goto
<1>6. ASSUME NEW o \in Operators, Handler(o) PROVE Known'
  <2>1. CASE SpawnAck(o)
    BY <2>1 DEF SpawnAck
  <2>2. CASE StoreOutgoing(o)
    BY <2>2 DEF StoreOutgoing, Goto
  <2>3. CASE Claim(o)
    BY <2>3 DEF Claim, Goto, MayOwn
  <2>4. CASE RejectCall(o)
    BY <2>4 DEF RejectCall, NotifyThen
  <2>5. CASE EndByOperator(o)
    BY <2>5 DEF EndByOperator, Goto, NotifyThen
  <2>6. CASE RemoveCall(o)
    BY <2>6 DEF RemoveCall, Goto
  <2>7. CASE Archive(o)
    BY <2>7 DEF Archive, EndCall, Ranges
  <2> QED BY <1>6, <2>1, <2>2, <2>3, <2>4, <2>5, <2>6, <2>7 DEF Handler
<1>7. ASSUME HandleCallOffer PROVE Known'
  BY <1>7 DEF HandleCallOffer, Goto
<1>8. ASSUME OnIncoming PROVE Known'
  BY <1>8 DEF OnIncoming, NotifyThen
<1>9. ASSUME ScheduleAutoAnswer PROVE Known'
  BY <1>9 DEF ScheduleAutoAnswer
<1>10. ASSUME Route PROVE Known'
  BY <1>10 DEF Route, Goto
<1>11. ASSUME HandleCallAccept PROVE Known'
  BY <1>11 DEF HandleCallAccept, NotifyThen
<1>12. ASSUME ActivateAccepted PROVE Known'
  BY <1>12 DEF ActivateAccepted, Goto, NotifyThen
<1>13. ASSUME HandleCallTerminate PROVE Known'
  BY <1>13 DEF HandleCallTerminate, NotifyThen
<1>14. ASSUME OnRelayConnected PROVE Known'
  BY <1>14 DEF OnRelayConnected, NotifyThen
<1>15. ASSUME EngineEnds PROVE Known'
  BY <1>15 DEF EngineEnds, NotifyThen
<1>16. ASSUME AutoAnswerWakes PROVE Known'
  BY <1>16 DEF AutoAnswerWakes, Goto
<1>17. ASSUME AutoClaim PROVE Known'
  BY <1>17 DEF AutoClaim, Goto, MayOwn
<1>18. ASSUME Persist PROVE Known'
  BY <1>18 DEF Persist, UpsertRow, UpdateRow
<1>19. CASE UNCHANGED vars
  BY <1>19 DEF vars
<1> QED BY <1>1, <1>2, <1>3, <1>4, <1>5, <1>6, <1>7, <1>8, <1>9, <1>10, <1>11, <1>12, <1>13,
     <1>14, <1>15, <1>16, <1>17, <1>18, <1>19 DEF Next

\* Every step keeps Kept.
LEMMA KeptNext ==
  ControlOK /\ DraftsOK /\ Ranges /\ Kept /\ [Next]_vars => Kept'
<1> SUFFICES ASSUME ControlOK, DraftsOK, Ranges, Kept, [Next]_vars PROVE Kept'
  OBVIOUS
<1> USE DEF Kept, ControlOK, Labels
<1> SUFFICES ASSUME ~Known PROVE Kept'
  BY KnownNext
<1>1. ASSUME NEW t \in Threads, Listener(t) PROVE Kept'
  <2>1. CASE ListenerReturns(t)
    BY <2>1 DEF ListenerReturns, Resume
  <2>2. CASE LookUpPhone(t)
    BY <2>2 DEF LookUpPhone, Goto
  <2>3. CASE BuildRecord(t)
    BY <2>3 DEF BuildRecord, Goto, mapStatus
  <2>4. CASE UpsertRecord(t)
    <3>1. Known'
      BY <2>4 DEF UpsertRecord, DraftsOK, Known
    <3> QED BY <3>1
  <2> QED BY <1>1, <2>1, <2>2, <2>3, <2>4 DEF Listener
<1>2. ASSUME NEW t \in Threads, EndedHandler(t) PROVE Kept'
  BY <1>2 DEF EndedHandler, CloseRecorder, Unregister, ArchiveEnded, SaveUrl, Goto, EndCall,
       saveRecording
<1>3. ASSUME NEW t \in Threads, AcceptCall(t) PROVE Kept'
  BY <1>3 DEF AcceptCall, Goto, NotifyThen
<1>4. ASSUME NEW o \in Operators, StartCall(o) PROVE Kept'
  BY <1>4 DEF StartCall, NotifyThen
<1>5. ASSUME NEW o \in Operators, Request(o) PROVE Kept'
  BY <1>5 DEF Request, Known
<1>6. ASSUME NEW o \in Operators, Handler(o) PROVE Kept'
  BY <1>6 DEF Handler, SpawnAck, StoreOutgoing, Claim, RejectCall, EndByOperator, RemoveCall,
       Archive, Goto, MayOwn, NotifyThen, EndCall
<1>7. ASSUME HandleCallOffer PROVE Kept'
  BY <1>7 DEF HandleCallOffer, Goto
<1>8. ASSUME OnIncoming PROVE Kept'
  <2>1. Known'
    BY <1>8 DEF OnIncoming, Known, Rec, None
  <2> QED BY <2>1
<1>9. ASSUME ScheduleAutoAnswer PROVE Kept'
  BY <1>9 DEF ScheduleAutoAnswer
<1>10. ASSUME Route PROVE Kept'
  BY <1>10 DEF Route, Goto
<1>11. ASSUME HandleCallAccept PROVE Kept'
  BY <1>11 DEF HandleCallAccept, NotifyThen
<1>12. ASSUME ActivateAccepted PROVE Kept'
  BY <1>12 DEF ActivateAccepted, Goto, NotifyThen
<1>13. ASSUME HandleCallTerminate PROVE Kept'
  BY <1>13 DEF HandleCallTerminate, NotifyThen
<1>14. ASSUME OnRelayConnected PROVE Kept'
  BY <1>14 DEF OnRelayConnected, NotifyThen
<1>15. ASSUME EngineEnds PROVE Kept'
  BY <1>15 DEF EngineEnds, NotifyThen
<1>16. ASSUME AutoAnswerWakes PROVE Kept'
  BY <1>16 DEF AutoAnswerWakes, Goto
<1>17. ASSUME AutoClaim PROVE Kept'
  BY <1>17 DEF AutoClaim, Goto, MayOwn
<1>18. ASSUME Persist PROVE Kept'
  BY <1>18 DEF Persist, UpsertRow, UpdateRow
<1>19. CASE UNCHANGED vars
  BY <1>19 DEF vars
<1> QED BY <1>1, <1>2, <1>3, <1>4, <1>5, <1>6, <1>7, <1>8, <1>9, <1>10, <1>11, <1>12, <1>13,
     <1>14, <1>15, <1>16, <1>17, <1>18, <1>19 DEF Next

\* Every step keeps Saved.
LEMMA SavedNext ==
  ControlOK /\ Ranges /\ Archiving /\ Kept /\ Saved /\ [Next]_vars => Saved'
<1> SUFFICES ASSUME ControlOK, Ranges, Archiving, Kept, Saved, [Next]_vars PROVE Saved'
  OBVIOUS
<1> USE DEF Saved, ControlOK, Labels, Due
<1>1. ASSUME NEW t \in Threads, Listener(t) PROVE Saved'
  <2>1. CASE ListenerReturns(t)
    BY <2>1 DEF ListenerReturns, Resume
  <2>2. CASE LookUpPhone(t)
    BY <2>2 DEF LookUpPhone, Goto
  <2>3. CASE BuildRecord(t)
    BY <2>3 DEF BuildRecord, Goto, mapStatus
  <2>4. CASE UpsertRecord(t)
    BY <2>4 DEF UpsertRecord, Resume
  <2> QED BY <1>1, <2>1, <2>2, <2>3, <2>4 DEF Listener
<1>2. ASSUME NEW t \in Threads, EndedHandler(t) PROVE Saved'
  <2>1. CASE CloseRecorder(t)
    BY <2>1 DEF CloseRecorder, Goto
  <2>2. CASE Unregister(t)
    BY <2>2 DEF Unregister, Goto
  <2>3. CASE ArchiveEnded(t)
    <3>1. history' # <<>> /\ (history # <<>> => history'[1] = history[1])
      <4>1. CASE record = None
        BY <2>3, <4>1 DEF ArchiveEnded, EndCall, Kept, Known
      <4>2. CASE record # None
        BY <2>3, <4>2 DEF ArchiveEnded, EndCall, Ranges
      <4> QED BY <4>1, <4>2
    <3> QED BY <2>3, <3>1 DEF ArchiveEnded
  <2>4. CASE SaveUrl(t)
    <3>1. history # <<>> /\ 1 \in DOMAIN history /\ history[1] \in Records
      BY <2>4 DEF SaveUrl, Ranges
    <3>2. history' = [history EXCEPT ![1] = [history[1] EXCEPT !.url = TRUE]]
      BY <2>4, <3>1 DEF SaveUrl, saveRecording
    <3>3. history' # <<>> /\ history'[1].url
      BY <3>1, <3>2 DEF Ranges, Records
    <3> QED BY <2>4, <3>3
  <2> QED BY <1>2, <2>1, <2>2, <2>3, <2>4 DEF EndedHandler
<1>3. ASSUME NEW t \in Threads, AcceptCall(t) PROVE Saved'
  BY <1>3 DEF AcceptCall, Goto, NotifyThen
<1>4. ASSUME NEW o \in Operators, StartCall(o) PROVE Saved'
  BY <1>4 DEF StartCall, NotifyThen
<1>5. ASSUME NEW o \in Operators, Request(o) PROVE Saved'
  BY <1>5 DEF Request, Goto
<1>6. ASSUME NEW o \in Operators, Handler(o) PROVE Saved'
  <2>1. CASE SpawnAck(o)
    BY <2>1 DEF SpawnAck
  <2>2. CASE StoreOutgoing(o)
    BY <2>2 DEF StoreOutgoing, Goto
  <2>3. CASE Claim(o)
    BY <2>3 DEF Claim, Goto, MayOwn
  <2>4. CASE RejectCall(o)
    BY <2>4 DEF RejectCall, NotifyThen
  <2>5. CASE EndByOperator(o)
    BY <2>5 DEF EndByOperator, Goto, NotifyThen
  <2>6. CASE RemoveCall(o)
    BY <2>6 DEF RemoveCall, Goto
  <2>7. CASE Archive(o)
    <3>1. history # <<>> => history' # <<>> /\ history'[1] = history[1]
      BY <2>7 DEF Archive, EndCall, Ranges
    <3>2. \A u \in Threads : Due(u)' = "saveUrl" => Due(u) = "saveUrl"
      BY <2>7 DEF Archive, Goto
    <3> QED BY <2>7, <3>1, <3>2 DEF Archive
  <2> QED BY <1>6, <2>1, <2>2, <2>3, <2>4, <2>5, <2>6, <2>7 DEF Handler
<1>7. ASSUME HandleCallOffer PROVE Saved'
  BY <1>7 DEF HandleCallOffer, Goto
<1>8. ASSUME OnIncoming PROVE Saved'
  BY <1>8 DEF OnIncoming, NotifyThen
<1>9. ASSUME ScheduleAutoAnswer PROVE Saved'
  BY <1>9 DEF ScheduleAutoAnswer
<1>10. ASSUME Route PROVE Saved'
  BY <1>10 DEF Route, Goto
<1>11. ASSUME HandleCallAccept PROVE Saved'
  BY <1>11 DEF HandleCallAccept, NotifyThen
<1>12. ASSUME ActivateAccepted PROVE Saved'
  BY <1>12 DEF ActivateAccepted, Goto, NotifyThen
<1>13. ASSUME HandleCallTerminate PROVE Saved'
  BY <1>13 DEF HandleCallTerminate, NotifyThen
<1>14. ASSUME OnRelayConnected PROVE Saved'
  BY <1>14 DEF OnRelayConnected, NotifyThen
<1>15. ASSUME EngineEnds PROVE Saved'
  BY <1>15 DEF EngineEnds, NotifyThen
<1>16. ASSUME AutoAnswerWakes PROVE Saved'
  BY <1>16 DEF AutoAnswerWakes, Goto
<1>17. ASSUME AutoClaim PROVE Saved'
  BY <1>17 DEF AutoClaim, Goto, MayOwn
<1>18. ASSUME Persist PROVE Saved'
  BY <1>18 DEF Persist, UpsertRow, UpdateRow
<1>19. CASE UNCHANGED vars
  BY <1>19 DEF vars
<1> QED BY <1>1, <1>2, <1>3, <1>4, <1>5, <1>6, <1>7, <1>8, <1>9, <1>10, <1>11, <1>12, <1>13,
     <1>14, <1>15, <1>16, <1>17, <1>18, <1>19 DEF Next

\* Every step keeps Landed.
LEMMA LandedNext ==
  Landed /\ [Next]_vars => Landed'
<1> SUFFICES ASSUME Landed, [Next]_vars PROVE Landed'
  OBVIOUS
<1> USE DEF Landed
<1>1. ASSUME NEW t \in Threads, Listener(t) PROVE Landed'
  BY <1>1 DEF Listener, ListenerReturns, LookUpPhone, BuildRecord, UpsertRecord, Resume, Goto,
       mapStatus
<1>2. ASSUME NEW t \in Threads, EndedHandler(t) PROVE Landed'
  BY <1>2 DEF EndedHandler, CloseRecorder, Unregister, ArchiveEnded, SaveUrl, Goto, EndCall,
       saveRecording
<1>3. ASSUME NEW t \in Threads, AcceptCall(t) PROVE Landed'
  BY <1>3 DEF AcceptCall, Goto, NotifyThen
<1>4. ASSUME NEW o \in Operators, StartCall(o) PROVE Landed'
  BY <1>4 DEF StartCall, NotifyThen
<1>5. ASSUME NEW o \in Operators, Request(o) PROVE Landed'
  BY <1>5 DEF Request, Goto
<1>6. ASSUME NEW o \in Operators, Handler(o) PROVE Landed'
  <2>1. UNCHANGED <<landed, stored, early, closed>>
    BY <1>6 DEF Handler, SpawnAck, StoreOutgoing, Claim, RejectCall, EndByOperator, RemoveCall,
         Archive
  <2>2. issued \subseteq issued'
    BY <1>6 DEF Handler, SpawnAck, StoreOutgoing, Claim, RejectCall, EndByOperator, RemoveCall,
         Archive, EndCall
  <2> QED BY <2>1, <2>2
<1>7. ASSUME HandleCallOffer PROVE Landed'
  BY <1>7 DEF HandleCallOffer, Goto
<1>8. ASSUME OnIncoming PROVE Landed'
  BY <1>8 DEF OnIncoming, NotifyThen
<1>9. ASSUME ScheduleAutoAnswer PROVE Landed'
  BY <1>9 DEF ScheduleAutoAnswer
<1>10. ASSUME Route PROVE Landed'
  BY <1>10 DEF Route, Goto
<1>11. ASSUME HandleCallAccept PROVE Landed'
  BY <1>11 DEF HandleCallAccept, NotifyThen
<1>12. ASSUME ActivateAccepted PROVE Landed'
  BY <1>12 DEF ActivateAccepted, Goto, NotifyThen
<1>13. ASSUME HandleCallTerminate PROVE Landed'
  BY <1>13 DEF HandleCallTerminate, NotifyThen
<1>14. ASSUME OnRelayConnected PROVE Landed'
  BY <1>14 DEF OnRelayConnected, NotifyThen
<1>15. ASSUME EngineEnds PROVE Landed'
  BY <1>15 DEF EngineEnds, NotifyThen
<1>16. ASSUME AutoAnswerWakes PROVE Landed'
  BY <1>16 DEF AutoAnswerWakes, Goto
<1>17. ASSUME AutoClaim PROVE Landed'
  BY <1>17 DEF AutoClaim, Goto, MayOwn
<1>18. ASSUME Persist PROVE Landed'
  <2>1. PICK w \in issued \ landed :
          /\ landed' = landed \union {w}
          /\ stored' = IF w.kind = "call" THEN UpsertRow(w) ELSE UpdateRow
          /\ early' = (early \/ (w.kind = "recording" /\ stored = "none"))
    BY <1>18 DEF Persist
  <2>2. UNCHANGED <<issued, closed>>
    BY <1>18 DEF Persist
  <2>3. CallWrite([url |-> TRUE]) \in landed' => stored' = "withUrl"
    BY <2>1 DEF UpsertRow, UpdateRow, CallWrite
  <2>4. RecordingWrite \in landed' => stored' = "withUrl" \/ early'
    <3>1. CASE w = RecordingWrite
      BY <2>1, <3>1 DEF RecordingWrite, UpdateRow
    <3>2. CASE w # RecordingWrite
      BY <2>1, <3>2 DEF UpsertRow, UpdateRow
    <3> QED BY <3>1, <3>2
  <2> QED BY <2>2, <2>3, <2>4
<1>19. CASE UNCHANGED vars
  BY <1>19 DEF vars
<1> QED BY <1>1, <1>2, <1>3, <1>4, <1>5, <1>6, <1>7, <1>8, <1>9, <1>10, <1>11, <1>12, <1>13,
     <1>14, <1>15, <1>16, <1>17, <1>18, <1>19 DEF Next

-----------------------------------------------------------------------------
\* The strengthened invariant holds of every behaviour.
LEMMA Inductive == Spec => []IInv
<1>1. Init => IInv
  <2> SUFFICES ASSUME Init PROVE IInv
    OBVIOUS
  <2>1. ControlOK /\ \A t \in Threads : pc[t] = Due(t) /\ pc[t] \in {"off", "idle"}
    BY DEF Init, ControlOK, Labels, Due
  <2>2. DraftsOK
    BY <2>1 DEF Init, DraftsOK, Records, Owners, None
  <2>3. Fresh /\ Starting /\ Archiving
    BY <2>1 DEF Init, Fresh, Starting, Makes, Archiving
  <2>4. Answered /\ Listed /\ OneAnswers
    BY DEF Init, Answered, Listed, OneAnswers
  <2>5. Ranges /\ Kept
    <3>1. history = <<>> /\ <<>> \in Seq(Records)
      BY DEF Init
    <3>2. Ranges
      BY <3>1 DEF Init, Ranges
    <3>3. Kept
      BY DEF Init, Kept
    <3> QED BY <3>2, <3>3
  <2>6. Saved /\ Landed
    BY <2>1 DEF Init, Saved, Landed, Due
  <2> QED BY <2>1, <2>2, <2>3, <2>4, <2>5, <2>6 DEF IInv
<1>2. IInv /\ [Next]_vars => IInv'
  BY ControlNext, DraftsNext, FreshNext, StartingNext, ArchivingNext, AnsweredNext,
     OneAnswersNext, ListedNext, RangesNext, KeptNext, SavedNext, LandedNext DEF IInv
<1> QED BY <1>1, <1>2, PTL DEF Spec

\* However many operators accept a call at once, and the auto-answer with them,
\* AcceptCall succeeds for one thread only.
THEOREM OneAnswersCorrect == Spec => []OneAnswers
<1>1. IInv => OneAnswers
  BY DEF IInv
<1> QED BY <1>1, Inductive, PTL

\* A call the session can still route to has a record when nothing is in
\* flight: neither endCall nor a late upsert leaves a live call unlisted.
THEOREM LiveCallListedCorrect == Spec => []LiveCallListed
<1>1. IInv => LiveCallListed
  BY DEF IInv, Listed, LiveCallListed, AtRest, ControlOK, Labels
<1> QED BY <1>1, Inductive, PTL

\* Every variable keeps its type, the queues of the persister and the history
\* included, and no write reaches the database that was not issued.
THEOREM TypeCorrect == Spec => []TypeOK
<1>1. IInv => TypeOK
  BY DEF IInv, Ranges, ControlOK, DraftsOK, TypeOK
<1> QED BY <1>1, Inductive, PTL

\* Once the ended handler has run the history has a row of the call with its
\* recording, whoever archived the call and whatever a late listener wrote.
THEOREM RecordingListedCorrect == Spec => []RecordingListed
<1>1. IInv => RecordingListed
  <2> SUFFICES ASSUME IInv, closed PROVE \E i \in DOMAIN history : history[i].url
    BY DEF RecordingListed
  <2>1. history \in Seq(Records) /\ history # <<>> /\ history[1].url
    BY DEF IInv, Ranges, Saved
  <2>2. 1 \in DOMAIN history
    BY <2>1
  <2> QED BY <2>1, <2>2
<1> QED BY <1>1, Inductive, PTL

\* A recording is missing from the database only if its call was archived without it
\* and the UPDATE of pgHistoryPersister overtook the INSERT (sessionstore.go).
THEOREM RecordingStoredCorrect == Spec => []RecordingStored
<1>1. IInv => RecordingStored
  BY DEF IInv, Landed, RecordingStored
<1> QED BY <1>1, Inductive, PTL

\* The phases the handlers and listeners of a call see are those of CallLifecycle: no
\* order of operators, events and relays makes the engine take another path.
THEOREM EngineFollowsLifecycleCorrect == Spec => EngineFollowsLifecycle
<1> USE DEF Lifecycle!Next, Lifecycle!Transitions, Lifecycle!Valid, Lifecycle!Edge,
            Lifecycle!Phases
<1>1. ASSUME IInv, [Next]_vars PROVE [Lifecycle!Next \/ OfferPlaced]_phase
  <2> USE <1>1 DEF IInv, Ranges
  <2>1. ASSUME NEW t \in Threads, Listener(t) \/ EndedHandler(t) PROVE phase' = phase
    BY <2>1 DEF Listener, ListenerReturns, LookUpPhone, BuildRecord, UpsertRecord,
         EndedHandler, CloseRecorder, Unregister, ArchiveEnded, SaveUrl
  <2>2. ASSUME NEW t \in Threads, AcceptCall(t) PROVE [Lifecycle!Next]_phase
    BY <2>2 DEF AcceptCall, Lifecycle!Proceed
  <2>3. ASSUME NEW o \in Operators, StartCall(o) PROVE OfferPlaced
    BY <2>3 DEF StartCall, OfferPlaced
  <2>4. ASSUME NEW o \in Operators, Request(o) PROVE phase' = phase
    BY <2>4 DEF Request
  <2>5. ASSUME NEW o \in Operators, Handler(o) PROVE [Lifecycle!Next]_phase
    <3>1. CASE RejectCall(o)
      BY <3>1 DEF RejectCall, Lifecycle!Proceed
    <3>2. CASE EndByOperator(o)
      <4>1. phase # "none"
        BY <3>2 DEF EndByOperator, Fresh
      <4> QED BY <3>2, <4>1 DEF EndByOperator, Lifecycle!Proceed
    <3> QED BY <2>5, <3>1, <3>2 DEF Handler, SpawnAck, StoreOutgoing, Claim, RemoveCall, Archive
  <2>6. CASE HandleCallOffer
    BY <2>6 DEF HandleCallOffer, Lifecycle!Begin
  <2>7. CASE HandleCallAccept
    BY <2>7 DEF HandleCallAccept, Lifecycle!Proceed
  <2>8. CASE HandleCallTerminate
    <3>1. phase # "none"
      BY <2>8 DEF HandleCallTerminate, Fresh
    <3> QED BY <2>8, <3>1 DEF HandleCallTerminate, Lifecycle!Proceed
  <2>9. CASE ActivateAccepted \/ OnRelayConnected
    BY <2>9 DEF ActivateAccepted, OnRelayConnected, Lifecycle!Establish
  <2>10. CASE EngineEnds
    BY <2>10 DEF EngineEnds, Lifecycle!Proceed
  <2>11. CASE OnIncoming \/ ScheduleAutoAnswer \/ Route \/ AutoAnswerWakes \/ AutoClaim
              \/ Persist \/ UNCHANGED vars
    BY <2>11 DEF OnIncoming, ScheduleAutoAnswer, Route, AutoAnswerWakes, AutoClaim, Persist, vars
  <2> QED BY <2>1, <2>2, <2>3, <2>4, <2>5, <2>6, <2>7, <2>8, <2>9, <2>10, <2>11 DEF Next
<1> QED BY <1>1, Inductive, PTL DEF Spec, EngineFollowsLifecycle
==============================================================================
