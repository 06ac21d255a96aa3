----------------------------- MODULE CallRecords -----------------------------
(***************************************************************************)
(* The broker's record of one call (cmd/server/broker.go) and everybody    *)
(* who writes it: the state listener and the ended handler that wireCall   *)
(* hangs on the call engine, the HTTP handlers of the operators, and the   *)
(* goroutine that answers for the server's AI.  The broker is locked, but  *)
(* most writers look, go away (a phone number is looked up for up to three *)
(* seconds) and write later.                                               *)
(*                                                                         *)
(* The engine is seen from outside, as the phases of CallLifecycle; what   *)
(* counts is which goroutine its listeners and handlers run on.  The       *)
(* history goes to the database by goroutines nobody orders.               *)
(***************************************************************************)
EXTENDS Sequences

CONSTANT Operators     \* HTTP clients, each with one request at a time

Workers == {"events", "media", "auto"}
Threads == Workers \union Operators
Owners  == Operators \union {"none", "server"}

ASSUME OperatorsAssumption ==
  Operators \intersect (Workers \union {"none", "server"}) = {}

VARIABLES
  phase,       \* currentCall.StateData.State
  direction,   \* "inbound" or "outbound"
  registered,  \* the session's registry has the call
  record,      \* broker.calls[id]
  history,     \* the rows of broker.history for the call, oldest first
  issued,      \* the writes handed to the HistoryPersister
  landed,      \* those that reached the database
  stored,      \* the row of call_history
  early,       \* (history) the UPDATE of the recording landed before any row was there
  pc,          \* what each thread does next
  after,       \* what it does once the listeners have returned
  draft,       \* the record its listener has built
  accepters,   \* (history) the threads whose AcceptCall succeeded
  closed       \* (history) the ended handler ran to its end

call == <<phase, direction, registered>>
database == <<issued, landed, stored, early>>
vars == <<call, record, history, database, pc, after, draft, accepters, closed>>

None == [owner |-> "none", status |-> "none", url |-> FALSE]
Rec(owner, status, url) == [owner |-> owner, status |-> status, url |-> url]

CallWrite(r) == [kind |-> "call", url |-> r.url]
RecordingWrite == [kind |-> "recording", url |-> TRUE]

Labels == {"off", "idle", "listen", "build", "upsert", "incoming", "spawnAuto",
           "spawnAck", "store", "routed", "activate", "wait", "claim", "accept",
           "reject", "end", "close", "unregister", "archiveEnded", "saveUrl", "remove", "archive"}

Records == [owner : Owners, status : {"none", "ringing", "connected", "ended"},
            url : BOOLEAN]
Writes == [kind : {"call", "recording"}, url : BOOLEAN]

TypeOK ==
  /\ phase \in {"none", "Ringing", "IncomingRinging", "Connecting", "Active", "Ended"}
  /\ direction \in {"none", "inbound", "outbound"}
  /\ registered \in BOOLEAN /\ closed \in BOOLEAN /\ early \in BOOLEAN
  /\ record \in Records
  /\ history \in Seq(Records)
  /\ issued \subseteq Writes /\ landed \subseteq issued
  /\ stored \in {"none", "withoutUrl", "withUrl"}
  /\ pc \in [Threads -> Labels] /\ after \in [Threads -> Labels]
  /\ draft \in [Threads -> Records]
  /\ accepters \subseteq Threads

Init ==
  /\ phase = "none" /\ direction = "none" /\ registered = FALSE
  /\ record = None /\ history = <<>>
  /\ issued = {} /\ landed = {} /\ stored = "none" /\ early = FALSE
  /\ pc = [t \in Threads |-> IF t \in {"media", "auto"} THEN "off" ELSE "idle"]
  /\ after = [t \in Threads |-> "idle"]
  /\ draft = [t \in Threads |-> None]
  /\ accepters = {} /\ closed = FALSE

-----------------------------------------------------------------------------
Goto(t, label) == pc' = [pc EXCEPT ![t] = label] /\ UNCHANGED after

\* The engine has moved the call: its listeners run on t, which goes on at label.
NotifyThen(t, label) == /\ pc' = [pc EXCEPT ![t] = "listen"]
                        /\ after' = [after EXCEPT ![t] = label]

Resume(t) == pc' = [pc EXCEPT ![t] = after[t]] /\ UNCHANGED after

\* (mutant) the engine's own names reach the clients
mapStatusRaw(p) == p

mapStatus(p) == CASE p = "Active" -> "connected"
                  [] p = "Ended"  -> "ended"
                  [] OTHER        -> "ringing"

(* The state listener of wireCall. *)

\* A call that has ended is left alone...
ListenerReturns(t) ==
  /\ pc[t] = "listen" /\ phase = "Ended"
  /\ Resume(t)
  /\ UNCHANGED <<call, record, history, database, draft, accepters, closed>>

\* ...any other has the peer's phone number looked up...
LookUpPhone(t) ==
  /\ pc[t] = "listen" /\ phase # "Ended"
  /\ Goto(t, "build")
  /\ UNCHANGED <<call, record, history, database, draft, accepters, closed>>

\* ...then a new record is built on the one there is (getCall)...
BuildRecord(t) ==
  /\ pc[t] = "build"
  /\ draft' = [draft EXCEPT ![t] = Rec(record.owner, mapStatus(phase), record.url)]
  /\ Goto(t, "upsert")
  /\ UNCHANGED <<call, record, history, database, accepters, closed>>

\* ...and written over whatever is there by now (upsertCall).
UpsertRecord(t) ==
  /\ pc[t] = "upsert"
  /\ record' = draft[t]
  /\ draft' = [draft EXCEPT ![t] = None]
  /\ Resume(t)
  /\ UNCHANGED <<call, history, database, accepters, closed>>

-----------------------------------------------------------------------------
(* The engine's goroutines. *)

\* onIncomingOffer: the call is registered before its record exists.
HandleCallOffer ==
  /\ pc["events"] = "idle" /\ phase = "none"
  /\ phase' = "IncomingRinging" /\ direction' = "inbound" /\ registered' = TRUE
  /\ Goto("events", "incoming")
  /\ UNCHANGED <<record, history, database, draft, accepters, closed>>

OnIncoming ==
  /\ pc["events"] = "incoming"
  /\ record' = Rec("none", "ringing", FALSE)
  /\ NotifyThen("events", "spawnAuto")
  /\ UNCHANGED <<call, history, database, draft, accepters, closed>>

\* The AI may be configured to answer, after a delay that may be zero.
ScheduleAutoAnswer ==
  /\ pc["events"] = "spawnAuto"
  /\ \E label \in {"off", "wait", "claim"} :
       pc' = [pc EXCEPT !["events"] = "idle", !["media"] = "idle", !["auto"] = label]
  /\ UNCHANGED <<call, record, history, database, after, draft, accepters, closed>>

\* callForEvent finds the call in the registry.
Route ==
  /\ pc["events"] = "idle" /\ registered /\ pc["media"] # "off"
  /\ Goto("events", "routed")
  /\ UNCHANGED <<call, record, history, database, draft, accepters, closed>>

HandleCallAccept ==
  /\ pc["events"] = "routed" /\ direction = "outbound"
  /\ phase' = IF phase = "Ringing" THEN "Connecting" ELSE phase
  /\ NotifyThen("events", "activate")
  /\ UNCHANGED <<direction, registered, record, history, database, draft, accepters, closed>>

\* The accept came after the relays, or it leaves the activation to them.
ActivateAccepted ==
  /\ pc["events"] = "activate"
  /\ \/ phase = "Connecting" /\ phase' = "Active" /\ NotifyThen("events", "idle")
     \/ UNCHANGED phase /\ Goto("events", "idle")
  /\ UNCHANGED <<direction, registered, record, history, database, draft, accepters, closed>>

HandleCallTerminate ==
  /\ pc["events"] = "routed"
  /\ phase' = "Ended"
  /\ NotifyThen("events", "close")
  /\ UNCHANGED <<direction, registered, record, history, database, draft, accepters, closed>>

\* A relay opens.
OnRelayConnected ==
  /\ pc["media"] = "idle" /\ phase = "Connecting"
  /\ phase' = "Active"
  /\ NotifyThen("media", "idle")
  /\ UNCHANGED <<direction, registered, record, history, database, draft, accepters, closed>>

\* The ack of the offer is an error, or the relays have been gone for too long.
EngineEnds ==
  /\ pc["media"] = "idle"
  /\ \/ direction = "outbound" /\ phase \notin {"none", "Ended"}
     \/ phase = "Active"
  /\ phase' = "Ended"
  /\ NotifyThen("media", "close")
  /\ UNCHANGED <<direction, registered, record, history, database, draft, accepters, closed>>

-----------------------------------------------------------------------------
(* The ended handler of wireCall, on the thread that ended the call. *)

\* The recorder is closed, and its URL goes to the live record (updateCall).
CloseRecorder(t) ==
  /\ pc[t] = "close"
  /\ record' = IF record = None THEN record ELSE [record EXCEPT !.url = TRUE]
  /\ Goto(t, "unregister")
  /\ UNCHANGED <<call, history, database, draft, accepters, closed>>

Unregister(t) ==
  /\ pc[t] = "unregister"
  /\ registered' = FALSE
  /\ Goto(t, "archiveEnded")
  /\ UNCHANGED <<phase, direction, record, history, database, draft, accepters, closed>>

\* endCall moves the live record, if there is one, to the history.
EndCall ==
  IF record = None
    THEN UNCHANGED <<record, history, issued>>
    ELSE /\ history' = Append(history, [record EXCEPT !.status = "ended"])
         /\ record' = None
         /\ issued' = issued \union {CallWrite(record)}

ArchiveEnded(t) ==
  /\ pc[t] = "archiveEnded"
  /\ EndCall
  /\ Goto(t, "saveUrl")
  /\ UNCHANGED <<call, landed, stored, early, draft, accepters, closed>>

\* (mutant) saveRecording looks for the live record only
saveRecordingLive ==
  /\ record' = IF record = None THEN record ELSE [record EXCEPT !.url = TRUE]
  /\ UNCHANGED history

\* saveRecording: the oldest row of the call in the history, and the live record.
saveRecording ==
  /\ history' = IF history = <<>> THEN history ELSE [history EXCEPT ![1].url = TRUE]
  /\ record' = IF record = None THEN record ELSE [record EXCEPT !.url = TRUE]

SaveUrl(t) ==
  /\ pc[t] = "saveUrl"
  /\ saveRecording
  /\ issued' = issued \union {RecordingWrite}
  /\ closed' = TRUE
  /\ Goto(t, IF t \in Operators THEN "remove" ELSE "idle")
  /\ UNCHANGED <<call, landed, stored, early, draft, accepters>>

-----------------------------------------------------------------------------
(* The HTTP handlers.  Operators learn of a call from its record. *)

\* doStartCall.  The offer is sent, and announced, before StartCall returns; a
\* StartCall that fails leaves nothing behind.
StartCall(o) ==
  /\ pc[o] = "idle" /\ phase = "none"
  /\ phase' = "Ringing" /\ direction' = "outbound" /\ registered' = TRUE
  /\ NotifyThen(o, "spawnAck")
  /\ UNCHANGED <<record, history, database, draft, accepters, closed>>

SpawnAck(o) ==
  /\ pc[o] = "spawnAck"
  /\ pc' = [pc EXCEPT ![o] = "store", !["media"] = "idle"]
  /\ UNCHANGED <<call, record, history, database, after, draft, accepters, closed>>

\* The handler then writes the record whatever has become of the call.
StoreOutgoing(o) ==
  /\ pc[o] = "store"
  /\ record' = Rec(o, "ringing", FALSE)
  /\ Goto(o, "idle")
  /\ UNCHANGED <<call, history, database, draft, accepters, closed>>

\* A request arrives; handlers of calls that are not registered do less.
Request(o) ==
  /\ pc[o] = "idle" /\ record # None
  /\ \E label \in IF registered THEN {"claim", "reject", "end"} ELSE {"remove"} :
       Goto(o, label)
  /\ UNCHANGED <<call, record, history, database, draft, accepters, closed>>

\* setOwner refuses a record that is gone, or is another's.
MayOwn(owner) == record # None /\ record.owner \in {"none", owner}

\* doAccept: an operator who cannot claim the call is told so.
Claim(o) ==
  /\ o \in Operators /\ pc[o] = "claim"
  /\ \/ /\ MayOwn(o)
        /\ record' = [record EXCEPT !.owner = o]
        /\ Goto(o, "accept")
     \/ ~MayOwn(o) /\ Goto(o, "idle") /\ UNCHANGED record
  /\ UNCHANGED <<call, history, database, draft, accepters, closed>>

\* After its delay the auto-answer looks again at registry, engine and broker.
AutoAnswerWakes ==
  /\ pc["auto"] = "wait"
  /\ \/ /\ registered /\ phase = "IncomingRinging"
        /\ record.owner \in {"none", "server"}
        /\ Goto("auto", "claim")
     \/ /\ ~registered \/ phase # "IncomingRinging" \/ record.owner \notin {"none", "server"}
        /\ Goto("auto", "off")
  /\ UNCHANGED <<call, record, history, database, draft, accepters, closed>>

\* It then claims the call, and does not ask whether it got it.
AutoClaim ==
  /\ pc["auto"] = "claim"
  /\ record' = IF MayOwn("server") THEN [record EXCEPT !.owner = "server"] ELSE record
  /\ Goto("auto", "accept")
  /\ UNCHANGED <<call, history, database, draft, accepters, closed>>

\* (mutant) AcceptCall does not ask CanAccept
AcceptCallAgain(t) ==
  /\ pc[t] = "accept"
  /\ \/ /\ phase # "Ended"
        /\ phase' = "Connecting"
        /\ accepters' = accepters \union {t}
        /\ NotifyThen(t, "idle")
     \/ /\ phase = "Ended"
        /\ Goto(t, "idle") /\ UNCHANGED <<phase, accepters>>
  /\ UNCHANGED <<direction, registered, record, history, database, draft, closed>>

\* The engine's AcceptCall, for an operator or for the AI.
AcceptCall(t) ==
  /\ pc[t] = "accept"
  /\ \/ /\ phase = "IncomingRinging"
        /\ phase' = "Connecting"
        /\ accepters' = accepters \union {t}
        /\ NotifyThen(t, "idle")
     \/ /\ phase # "IncomingRinging"
        /\ Goto(t, "idle") /\ UNCHANGED <<phase, accepters>>
  /\ UNCHANGED <<direction, registered, record, history, database, draft, closed>>

\* doReject: the engine refuses a ringing call, and calls no ended handler.
RejectCall(o) ==
  /\ pc[o] = "reject"
  /\ phase' = IF phase = "IncomingRinging" THEN "Ended" ELSE phase
  /\ NotifyThen(o, "remove")
  /\ UNCHANGED <<direction, registered, record, history, database, draft, accepters, closed>>

\* doEndCall: the engine ends a call once.
EndByOperator(o) ==
  /\ pc[o] = "end"
  /\ \/ phase # "Ended" /\ NotifyThen(o, "close")
     \/ phase = "Ended" /\ Goto(o, "remove")
  /\ phase' = "Ended"
  /\ UNCHANGED <<direction, registered, record, history, database, draft, accepters, closed>>

\* (mutant) the handler leaves the call in the registry
RemoveCallForgets(o) ==
  /\ pc[o] = "remove"
  /\ Goto(o, "archive")
  /\ UNCHANGED <<call, record, history, database, draft, accepters, closed>>

RemoveCall(o) ==
  /\ pc[o] = "remove"
  /\ registered' = FALSE
  /\ Goto(o, "archive")
  /\ UNCHANGED <<phase, direction, record, history, database, draft, accepters, closed>>

\* (mutant) the handler relies on the ended handler to archive the call
ArchiveNothing(o) ==
  /\ pc[o] = "archive"
  /\ Goto(o, "idle")
  /\ UNCHANGED <<call, record, history, database, draft, accepters, closed>>

Archive(o) ==
  /\ pc[o] = "archive"
  /\ EndCall
  /\ Goto(o, "idle")
  /\ UNCHANGED <<call, landed, stored, early, draft, accepters, closed>>

-----------------------------------------------------------------------------
(* The goroutines of pgHistoryPersister. *)

\* (mutant) an upsert takes the URL it is given, empty or not
UpsertRowBlindly(w) == IF w.url THEN "withUrl" ELSE "withoutUrl"

\* saveCallHistory inserts the row, or keeps the URL of the one that is there.
UpsertRow(w) == IF w.url \/ stored = "withUrl" THEN "withUrl" ELSE "withoutUrl"

\* An UPDATE of the URL does nothing to a row that is not there yet.
UpdateRow == IF stored = "none" THEN "none" ELSE "withUrl"

Persist ==
  /\ \E w \in issued \ landed :
       /\ landed' = landed \union {w}
       /\ stored' = IF w.kind = "call" THEN UpsertRow(w) ELSE UpdateRow
       /\ early' = (early \/ (w.kind = "recording" /\ stored = "none"))
  /\ UNCHANGED <<call, record, history, issued, pc, after, draft, accepters, closed>>

-----------------------------------------------------------------------------
Listener(t) == ListenerReturns(t) \/ LookUpPhone(t) \/ BuildRecord(t) \/ UpsertRecord(t)

EndedHandler(t) == CloseRecorder(t) \/ Unregister(t) \/ ArchiveEnded(t) \/ SaveUrl(t)

Handler(o) == \/ SpawnAck(o) \/ StoreOutgoing(o) \/ Claim(o) \/ RejectCall(o)
              \/ EndByOperator(o) \/ RemoveCall(o) \/ Archive(o)

Next ==
  \/ \E t \in Threads : Listener(t) \/ EndedHandler(t) \/ AcceptCall(t)
  \/ \E o \in Operators : StartCall(o) \/ Request(o) \/ Handler(o)
  \/ HandleCallOffer \/ OnIncoming \/ ScheduleAutoAnswer
  \/ Route \/ HandleCallAccept \/ ActivateAccepted \/ HandleCallTerminate
  \/ OnRelayConnected \/ EngineEnds
  \/ AutoAnswerWakes \/ AutoClaim
  \/ Persist

\* Goroutines go on when they can; nobody has to call, answer or hang up.
Fairness ==
  /\ \A t \in Threads : WF_vars(Listener(t) \/ EndedHandler(t) \/ AcceptCall(t))
  /\ \A o \in Operators : WF_vars(Handler(o))
  /\ WF_vars(OnIncoming \/ ScheduleAutoAnswer \/ ActivateAccepted)
  /\ WF_vars(AutoAnswerWakes \/ AutoClaim)
  /\ WF_vars(Persist)

Spec == Init /\ [][Next]_vars /\ Fairness
-----------------------------------------------------------------------------
(* Properties. *)

AtRest == \A t \in Threads : pc[t] \in {"off", "idle", "routed"}

\* However many operators, and the AI, claim a call at once, one of them answers
\* it: AcceptCall succeeds for one thread only.
OneAnswers == \A t, u \in accepters : t = u

\* A call the session can still route to has a record, so the operators see it
\* and can end it: no listener, handler or clean-up in flight takes it away.
LiveCallListed ==
  AtRest /\ registered /\ phase \notin {"none", "Ended"} => record # None

\* Once the ended handler has run the call is in the history with its recording,
\* whoever archived it first and whatever a late listener wrote in between.
RecordingListed ==
  AtRest /\ closed => \E i \in DOMAIN history : history[i].url

\* When all is written, the recording of an ended call is in the database, in
\* whatever order the persister's goroutines got there, unless two things came
\* together: the call was archived before its recorder was closed, and the UPDATE
\* of the recording overtook the INSERT of the call.  It is lost then.
RecordingStored ==
  closed /\ landed = issued =>
    stored = "withUrl" \/ (early /\ CallWrite([url |-> TRUE]) \notin issued)

\* Every call that ends is archived.
EndedCallArchived == (phase = "Ended") ~> (history # <<>>)

\* The engine of the call, whose media are not seen here.
Lifecycle == INSTANCE CallLifecycle WITH codec <- FALSE, watchdog <- FALSE

\* A call that is placed is "Initiating" only until its offer has been sent, which
\* StartCall does in one step.
OfferPlaced == phase = "none" /\ phase' = "Ringing"

\* What the handlers and listeners are given for an engine is one: in whatever order
\* operators, events and relays come, the call goes through the phases that
\* CallLifecycle allows (and CallManager is shown to keep to).
EngineFollowsLifecycle == [][Lifecycle!Next \/ OfferPlaced]_phase

\* (does not hold) updateCall came to replace the pattern getCall, change,
\* upsertCall "que perdia atualizacoes concorrentes": a claim is never lost.
ClaimKept ==
  [][record.owner # "none" /\ record' # None => record'.owner = record.owner]_vars

\* (does not hold) an operator whose call has ended owns no active call, as
\* TestOwnerActiveCall expects of endCall.
OwnerFreed ==
  AtRest /\ phase = "Ended" => record.owner \notin Operators \/ record.status = "ended"
==============================================================================
