------------------------------ MODULE VoiceAgent ------------------------------
(***************************************************************************)
(* The voice AI of one call in the operator's browser (client/src/lib/ai): *)
(* GeminiLiveAgents are created for the call by useAICallHandler and by    *)
(* the button of its CallCard, they start over several awaits, take the    *)
(* audio sender's track and mute the microphone, and are detached by the   *)
(* button, by the end of the call, by the hangup tool and by a session     *)
(* that closes on its own.                                                 *)
(*                                                                         *)
(* Changes of the sender's track are chained by the browser: replaceTrack  *)
(* resolves in the order of the calls, and may never resolve once the      *)
(* connection is closed.                                                   *)
(***************************************************************************)
EXTENDS Naturals, SequencesExt

CONSTANTS Agents, \* the agents that may be created for the call
          NoAgent

ASSUME VoiceAgentsAssumption == NoAgent \notin Agents

VARIABLES
  call,       \* "connected", or "ended" once the browser has handled call-ended
  registered, \* activeAgents.get(callId)
  active,     \* activeAgentCalls.has(callId)
  starting,   \* startingAgentsRef.current.has(callId)
  asking,     \* answers to getAIConfig the handler awaits
  toggle,     \* toggleAI: "idle", "starting", "detaching" or "cleanup" (busyAI)
  awaited,    \* the agent whose detach toggleAI awaits
  by,         \* who created each agent
  phase,      \* how far the agent's start() is
  session,    \* its Gemini session
  det,        \* its detach(): "no", "restoring" or "done"
  hangup,     \* its hangup tool: "no", "timer" or "speaking"
  chain,      \* changes of the sender's track under way
  track,      \* the sender's track: NoAgent is the microphone's, else the agent's
  micOn,      \* the microphone's track is enabled
  early       \* (history) agents detached before their start() returned

store == <<call, registered, active>>
handler == <<starting, asking>>
button == <<toggle, awaited>>
agent == <<by, phase, session, det, hangup>>
audio == <<chain, track, micOn>>
voiceVars == <<store, handler, button, agent, audio, early>>

MaxAsking == 2

VoiceTypeOK ==
  /\ call \in {"connected", "ended"}
  /\ registered \in Agents \union {NoAgent} /\ awaited \in Agents \union {NoAgent}
  /\ active \in BOOLEAN /\ starting \in BOOLEAN /\ micOn \in BOOLEAN
  /\ asking \in 0 .. MaxAsking
  /\ toggle \in {"idle", "starting", "detaching", "cleanup"}
  /\ by \in [Agents -> {"nobody", "handler", "button"}]
  /\ phase \in [Agents -> {"none", "preparing", "connecting", "swapping", "live", "failed"}]
  /\ session \in [Agents -> {"none", "opening", "ready", "closed"}]
  /\ det \in [Agents -> {"no", "restoring", "done"}]
  /\ hangup \in [Agents -> {"no", "timer", "speaking"}]
  /\ \A a \in Agents : phase[a] \in {"none", "preparing"} => session[a] = "none"
  /\ \A i \in DOMAIN chain : chain[i] \in {"take", "restore"} \X Agents
  /\ track \in Agents \union {NoAgent}
  /\ early \subseteq Agents

VoiceInit ==
  /\ call = "connected" /\ registered = NoAgent /\ active = FALSE
  /\ starting = FALSE /\ asking = 0
  /\ toggle = "idle" /\ awaited = NoAgent
  /\ by = [a \in Agents |-> "nobody"]
  /\ phase = [a \in Agents |-> "none"]
  /\ session = [a \in Agents |-> "none"]
  /\ det = [a \in Agents |-> "no"]
  /\ hangup = [a \in Agents |-> "no"]
  /\ chain = <<>> /\ track = NoAgent /\ micOn = TRUE
  /\ early = {}

-----------------------------------------------------------------------------
(* Creating and detaching. *)

Create(a, who) ==
  /\ phase[a] = "none"
  /\ phase' = [phase EXCEPT ![a] = "preparing"]
  /\ by' = [by EXCEPT ![a] = who]
  /\ registered' = a

Starting(a) == phase[a] \in {"preparing", "connecting", "swapping"}

Closed(a) == [session EXCEPT ![a] = IF @ = "none" THEN @ ELSE "closed"]

\* (mutant) what is left of detach once the microphone's track is back
RestoreTrackOnly(a) ==
  /\ det' = [det EXCEPT ![a] = "done"]
  /\ session' = Closed(a)
  /\ active' = FALSE
  /\ UNCHANGED micOn

Restore(a) ==
  /\ det' = [det EXCEPT ![a] = "done"]
  /\ session' = Closed(a)
  /\ active' = FALSE
  /\ micOn' = TRUE

\* detach() up to its await.  (The summary of the call and its messages are sent
\* meanwhile.)  Where the connection is closed there is no sender to wait for, and
\* the rest follows.
Detach(a) ==
  IF a # NoAgent /\ det[a] = "no"
  THEN /\ det' = [det EXCEPT ![a] = "restoring"]
       /\ hangup' = [hangup EXCEPT ![a] = IF @ = "timer" THEN "no" ELSE @]
       /\ chain' = Append(chain, <<"restore", a>>)
       /\ early' = IF Starting(a) THEN early \union {a} ELSE early
  ELSE UNCHANGED <<det, hangup, chain, early>>

\* replaceTrack resolves, and start() or detach() goes on.
TrackReplaced ==
  /\ chain # <<>>
  /\ chain' = Tail(chain)
  /\ LET a == Head(chain)[2]
     IN \/ /\ Head(chain)[1] = "restore"
           /\ track' = NoAgent
           /\ Restore(a)
           /\ UNCHANGED <<phase, toggle>>
        \/ /\ Head(chain)[1] = "take"
           /\ track' = a
           /\ phase' = [phase EXCEPT ![a] = "live"]
           /\ micOn' = FALSE
           /\ active' = TRUE
           /\ toggle' = IF by[a] = "button" THEN "idle" ELSE toggle
           /\ UNCHANGED <<det, session>>
  /\ UNCHANGED <<call, registered, handler, awaited, by, hangup, early>>

-----------------------------------------------------------------------------
(* start() *)

\* (mutant) the session is opened while the ticket is on its way
PreparedEarly(a) ==
  /\ phase[a] = "preparing"
  /\ session' = [session EXCEPT ![a] = "opening"]
  /\ UNCHANGED <<store, handler, button, by, phase, det, hangup, audio, early>>

\* The contact, Chatwoot and the ticket have been asked for; a call that is gone
\* from the list needs none of them. connect() opens the session.
Prepared(a) ==
  /\ phase[a] = "preparing"
  /\ phase' = [phase EXCEPT ![a] = "connecting"]
  /\ session' = [session EXCEPT ![a] = "opening"]
  /\ UNCHANGED <<store, handler, button, by, det, hangup, audio, early>>

\* setupComplete: the greeting is sent, the voice is captured, and the agent's
\* track replaces the microphone's.
SetupComplete(a) ==
  /\ phase[a] = "connecting" /\ session[a] = "opening"
  /\ session' = [session EXCEPT ![a] = "ready"]
  /\ phase' = [phase EXCEPT ![a] = "swapping"]
  /\ chain' = Append(chain, <<"take", a>>)
  /\ UNCHANGED <<store, handler, button, by, det, hangup, track, micOn, early>>

\* (mutant) a session that closes before setupComplete leaves connect() pending
SessionClosesSilently(a) ==
  /\ phase[a] = "connecting" /\ session[a] = "opening"
  /\ session' = Closed(a)
  /\ UNCHANGED <<store, handler, button, by, phase, det, hangup, audio, early>>

\* The ticket is refused, or the session fails or is closed before setupComplete.
\* The catch of useAICallHandler forgets the agent without detaching it.
StartFails(a) ==
  /\ phase[a] \in {"preparing", "connecting"}
  /\ phase' = [phase EXCEPT ![a] = "failed"]
  /\ session' = Closed(a)
  /\ IF by[a] = "handler"
     THEN registered' = NoAgent /\ starting' = FALSE
     ELSE UNCHANGED <<registered, starting>>
  /\ UNCHANGED <<call, active, asking, button, by, det, hangup, audio, early>>

-----------------------------------------------------------------------------
(* useAICallHandler *)

\* The effect sees a connected call with audio and no AI, and locks the call.
NoticeConnected ==
  /\ call = "connected" /\ ~active /\ registered = NoAgent /\ ~starting
  /\ asking < MaxAsking
  /\ starting' = TRUE
  /\ asking' = asking + 1
  /\ UNCHANGED <<store, button, agent, audio, early>>

\* A list of calls that is older than the last one takes the lock away.
OldList ==
  /\ starting
  /\ starting' = FALSE
  /\ UNCHANGED <<store, asking, button, agent, audio, early>>

\* The configuration has the AI answer this call.  Nothing is looked at again.
HandlerCreates(a) ==
  /\ asking > 0
  /\ asking' = asking - 1
  /\ Create(a, "handler")
  /\ UNCHANGED <<call, active, starting, button, session, det, hangup, audio, early>>

\* It does not, or could not be had.
HandlerDeclines ==
  /\ asking > 0
  /\ asking' = asking - 1
  /\ starting' = FALSE
  /\ UNCHANGED <<store, button, agent, audio, early>>

-----------------------------------------------------------------------------
(* toggleAI of the call's card, which is there while the call is. *)

ToggleOn(a) ==
  /\ call = "connected" /\ toggle = "idle" /\ ~active
  /\ toggle' = "starting" /\ awaited' = a
  /\ Create(a, "button")
  /\ UNCHANGED <<call, active, handler, session, det, hangup, audio, early>>

\* What toggleAI awaits: a detach it has begun, not one that was under way.
Await(a) == awaited' = IF a # NoAgent /\ det[a] = "no" THEN a ELSE NoAgent

ToggleOff ==
  /\ call = "connected" /\ toggle = "idle" /\ active
  /\ toggle' = "detaching" /\ Await(registered)
  /\ Detach(registered)
  /\ UNCHANGED <<store, handler, by, phase, session, track, micOn>>

\* start() has failed: toggleAI detaches the registered agent, whichever it is.
ToggleCatches ==
  /\ toggle = "starting" /\ phase[awaited] = "failed"
  /\ toggle' = "cleanup" /\ Await(registered)
  /\ Detach(registered)
  /\ UNCHANGED <<store, handler, by, phase, session, track, micOn>>

ToggleDone ==
  /\ toggle \in {"detaching", "cleanup"}
  /\ awaited = NoAgent \/ (awaited \in Agents /\ det[awaited] = "done")
  /\ toggle' = "idle" /\ awaited' = NoAgent
  /\ registered' = NoAgent
  /\ UNCHANGED <<call, active, handler, agent, audio, early>>

-----------------------------------------------------------------------------
(* The other ends of an agent. *)

\* call-ended: detach, forget, close the connection.
CallEnded ==
  /\ call = "connected"
  /\ call' = "ended"
  /\ starting' = FALSE
  /\ Detach(registered)
  /\ registered' = NoAgent /\ active' = FALSE
  /\ UNCHANGED <<asking, button, by, phase, session, track, micOn>>

\* onClose of a session that was up: the agent is detached, not forgotten.
SessionDies(a) ==
  /\ session[a] = "ready"
  /\ session' = Closed(a)
  /\ Detach(a)
  /\ UNCHANGED <<store, handler, button, by, phase, track, micOn>>

\* The hangup tool; asked for again, it starts its timer anew.
HangupTool(a) ==
  /\ session[a] = "ready" /\ hangup[a] = "no"
  /\ hangup' = [hangup EXCEPT ![a] = "timer"]
  /\ UNCHANGED <<store, handler, button, by, phase, session, det, audio, early>>

\* (mutant) the farewell is not waited for by anybody
HangupForgets(a) ==
  /\ hangup[a] = "timer"
  /\ hangup' = [hangup EXCEPT ![a] = "no"]
  /\ UNCHANGED <<store, handler, button, by, phase, session, det, audio, early>>

\* After 100 ms: waitForAudioFinish.
HangupTimer(a) ==
  /\ hangup[a] = "timer"
  /\ hangup' = [hangup EXCEPT ![a] = "speaking"]
  /\ UNCHANGED <<store, handler, button, by, phase, session, det, audio, early>>

\* The AI has said goodbye, or is detached: detach, and ask for the end of the
\* call (CallEnded, if that request gets through).
Farewell(a) ==
  /\ hangup[a] = "speaking"
  /\ IF det[a] = "no"
     THEN /\ det' = [det EXCEPT ![a] = "restoring"]
          /\ chain' = Append(chain, <<"restore", a>>)
          /\ early' = IF Starting(a) THEN early \union {a} ELSE early
     ELSE UNCHANGED <<det, chain, early>>
  /\ hangup' = [hangup EXCEPT ![a] = "no"]
  /\ UNCHANGED <<store, handler, button, by, phase, session, track, micOn>>

-----------------------------------------------------------------------------
Start(a) == Prepared(a) \/ SetupComplete(a) \/ StartFails(a)
Hangup(a) == HangupTimer(a) \/ Farewell(a)

VoiceNext ==
  \/ TrackReplaced
  \/ NoticeConnected \/ OldList \/ HandlerDeclines
  \/ ToggleOff \/ ToggleCatches \/ ToggleDone
  \/ CallEnded
  \/ \E a \in Agents : \/ Start(a) \/ Hangup(a)
                       \/ HandlerCreates(a) \/ ToggleOn(a)
                       \/ SessionDies(a) \/ HangupTool(a)

\* Requests and sockets are answered or fail, timers fire, speech ends, and the
\* browser replaces the tracks of a connection that is open.
Fairness ==
  /\ WF_voiceVars(call = "connected" /\ TrackReplaced)
  /\ WF_voiceVars(ToggleCatches) /\ WF_voiceVars(ToggleDone)
  /\ \A a \in Agents : WF_voiceVars(Start(a)) /\ WF_voiceVars(Hangup(a))

VoiceSpec == VoiceInit /\ [][VoiceNext]_voiceVars /\ Fairness

-----------------------------------------------------------------------------
(* Properties. *)

\* No agent is being started, talks or is being detached.
Settled(a) == \/ phase[a] \in {"none", "failed"} /\ det[a] # "restoring"
              \/ phase[a] = "live" /\ det[a] = "done"

\* Once no agent is at work, whichever way each of them ended - a start that
\* failed, the button, a dead session, the hangup tool - the operator is heard:
\* the microphone is enabled, it is what the call hears, and the card does not say
\* that the AI is on.  (Agents detached before they had started are an exception:
\* their start() goes on and takes the audio all the same.)
OperatorHeard ==
  early = {} /\ (\A a \in Agents : Settled(a)) => micOn /\ track = NoAgent /\ ~active

\* The button is usable again after every click: start() always settles, however
\* its session ends, and detach() too.
ButtonReturns == toggle # "idle" ~> toggle = "idle" \/ call = "ended"

\* When the AI asks to hang up, it is taken off the call in the end, whatever it
\* is saying and whatever else happens to its session.
HangupHonoured ==
  \A a \in Agents : hangup[a] = "timer" ~> det[a] # "no"
=============================================================================
