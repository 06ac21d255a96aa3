----------------------------- MODULE ChatDebounce -----------------------------
(***************************************************************************)
(* The chat agent of one WhatsApp conversation (chat_debounce.go and       *)
(* chat_ai_engine.go).  Every message of the client is ingested by a       *)
(* goroutine of its own, which buffers it and restarts the conversation's  *)
(* timer; when the timer fires, the buffered messages become the batch of  *)
(* one turn of the AI.  An operator who writes to the client cancels all   *)
(* that and pauses the AI.                                                 *)
(*                                                                         *)
(* What a message starts is named after it: its ingestion, the debounce    *)
(* state it created, its timer, and the turn that timer led to.            *)
(***************************************************************************)
EXTENDS Naturals, Sequences, SequencesExt

CONSTANTS Messages,    \* what the client writes
          Operators,   \* each writes to the client once
          MaxBubbles   \* ChatAgent.MaxBubbles

ASSUME ConstantsAssumption ==
  /\ "none" \notin Messages
  /\ MaxBubbles \in Nat \ {0}

VARIABLES
  aiActive,   \* conversations.ai_active
  pc,         \* the ingestion of each message
  knew,       \* the messages whose ingestion read ai_active = true
  holds,      \* the state EnqueueMessage found for it
  current,    \* ChatDebounceManager.states[convID]
  buffer,     \* state.messages
  timer,      \* state.timer, as the message that set it
  cancelGen,  \* state.cancelGen, as the turn it cancels; isGenerating goes with it
  clock,      \* the timer of each message, and the processConversation it runs
  target,     \* the state that processConversation found
  turn,       \* the turn of each message's timer
  batch,      \* accumulated
  left,       \* the bubbles the turn has yet to send
  cancelled,  \* the turns whose context is cancelled
  human,      \* the HTTP handler of each operator
  found,      \* the state its Cancel took out of the map
  silenced    \* (history) the turns in progress when an operator cancelled

ingestion == <<pc, knew, holds>>
state == <<buffer, timer, cancelGen>>
process == <<clock, target>>
turns == <<turn, batch, left>>
handler == <<human, found>>
vars == <<aiActive, ingestion, current, state, process, turns, cancelled, handler,
          silenced>>

Running == {t \in Messages : turn[t] \in {"check", "generate", "typing", "send"}}

TypeOK ==
  /\ aiActive \in BOOLEAN
  /\ pc \in [Messages -> {"new", "read", "stored", "enqueue", "append", "done"}]
  /\ current \in Messages \union {"none"}
  /\ {holds, timer, cancelGen, target} \subseteq [Messages -> Messages \union {"none"}]
  /\ {buffer, batch} \subseteq [Messages -> Seq(Messages)]
  /\ clock \in [Messages -> {"off", "armed", "fired", "take", "reset"}]
  /\ turn \in [Messages -> {"none", "check", "generate", "typing", "send", "done"}]
  /\ left \in [Messages -> 0..MaxBubbles] /\ \A t \in Messages : turn[t] = "send" => left[t] > 0
  /\ {knew, cancelled, silenced} \subseteq SUBSET Messages
  /\ human \in [Operators -> {"idle", "cancel", "clear", "pause", "done"}]
  /\ found \in [Operators -> Messages \union {"none"}]

Init ==
  /\ aiActive \in BOOLEAN
  /\ pc = [m \in Messages |-> "new"] /\ knew = {}
  /\ holds = [m \in Messages |-> "none"] /\ current = "none"
  /\ buffer = [m \in Messages |-> <<>>]
  /\ timer = [m \in Messages |-> "none"] /\ cancelGen = [m \in Messages |-> "none"]
  /\ clock = [m \in Messages |-> "off"] /\ target = [m \in Messages |-> "none"]
  /\ turn = [m \in Messages |-> "none"] /\ batch = [m \in Messages |-> <<>>]
  /\ left = [m \in Messages |-> 0] /\ cancelled = {}
  /\ human = [o \in Operators |-> "idle"] /\ found = [o \in Operators |-> "none"]
  /\ silenced = {}

-----------------------------------------------------------------------------
(* pgIngestWhatsAppMessage, in a goroutine for each message. *)

\* The conversation is read, and ai_active with it...
ReadConversation(m) ==
  /\ pc[m] = "new"
  /\ pc' = [pc EXCEPT ![m] = "read"]
  /\ knew' = IF aiActive THEN knew \union {m} ELSE knew
  /\ UNCHANGED <<aiActive, holds, current, state, process, turns, cancelled, handler,
                 silenced>>

\* ...before the message is stored (pgCreateMessage).
StoreMessage(m) ==
  /\ pc[m] = "read"
  /\ pc' = [pc EXCEPT ![m] = IF m \in knew THEN "enqueue" ELSE "stored"]
  /\ UNCHANGED <<aiActive, knew, holds, current, state, process, turns, cancelled,
                 handler, silenced>>

\* Where the AI was off it is turned on, if the workspace has an active agent.
Reactivate(m) ==
  /\ pc[m] = "stored"
  /\ \/ aiActive' = TRUE /\ pc' = [pc EXCEPT ![m] = "enqueue"]
     \/ UNCHANGED aiActive /\ pc' = [pc EXCEPT ![m] = "done"]
  /\ UNCHANGED <<knew, holds, current, state, process, turns, cancelled, handler,
                 silenced>>

\* (mutant) the new state is not put in the map
FindStateForgets(m) ==
  /\ pc[m] = "enqueue"
  /\ holds' = [holds EXCEPT ![m] = IF current = "none" THEN m ELSE current]
  /\ pc' = [pc EXCEPT ![m] = "append"]
  /\ UNCHANGED <<aiActive, knew, current, state, process, turns, cancelled, handler,
                 silenced>>

\* EnqueueMessage finds the state of the conversation, or makes it (under m.mu)...
FindState(m) ==
  /\ pc[m] = "enqueue"
  /\ current' = IF current = "none" THEN m ELSE current
  /\ holds' = [holds EXCEPT ![m] = current']
  /\ pc' = [pc EXCEPT ![m] = "append"]
  /\ UNCHANGED <<aiActive, knew, state, process, turns, cancelled, handler,
                 silenced>>

\* Timer.Stop does nothing to a timer that has fired.
Stop(t) == IF t # "none" /\ clock[t] = "armed" THEN [clock EXCEPT ![t] = "off"] ELSE clock

Cancelled(s) == IF cancelGen[s] = "none" THEN cancelled ELSE cancelled \union {cancelGen[s]}

\* (mutant) a timer that was set is left to run, fired or not
EnqueueMessageLate(m) ==
  LET s == holds[m] IN
  /\ pc[m] = "append"
  /\ buffer' = [buffer EXCEPT ![s] = Append(@, m)]
  /\ cancelled' = Cancelled(s)
  /\ cancelGen' = [cancelGen EXCEPT ![s] = "none"]
  /\ IF timer[s] = "none"
       THEN /\ clock' = [clock EXCEPT ![m] = "armed"]
            /\ timer' = [timer EXCEPT ![s] = m]
       ELSE UNCHANGED <<clock, timer>>
  /\ pc' = [pc EXCEPT ![m] = "done"]
  /\ UNCHANGED <<aiActive, knew, holds, current, target, turns, handler, silenced>>

\* ...and buffers the message, cancels the turn and restarts the timer (under
\* state.mu).
EnqueueMessage(m) ==
  LET s == holds[m] IN
  /\ pc[m] = "append"
  /\ buffer' = [buffer EXCEPT ![s] = Append(@, m)]
  /\ cancelled' = Cancelled(s)
  /\ cancelGen' = [cancelGen EXCEPT ![s] = "none"]
  /\ clock' = [Stop(timer[s]) EXCEPT ![m] = "armed"]
  /\ timer' = [timer EXCEPT ![s] = m]
  /\ pc' = [pc EXCEPT ![m] = "done"]
  /\ UNCHANGED <<aiActive, knew, holds, current, target, turns, handler, silenced>>

-----------------------------------------------------------------------------
(* processConversation, in the goroutine of a timer. *)

Fire(m) ==
  /\ clock[m] = "armed"
  /\ clock' = [clock EXCEPT ![m] = "fired"]
  /\ UNCHANGED <<aiActive, ingestion, current, state, target, turns, cancelled, handler,
                 silenced>>

\* The state is looked up by conversation: it need not be the timer's own.
LookUpState(m) ==
  /\ clock[m] = "fired"
  /\ clock' = [clock EXCEPT ![m] = IF current = "none" THEN "off" ELSE "take"]
  /\ target' = [target EXCEPT ![m] = current]
  /\ UNCHANGED <<aiActive, ingestion, current, state, turns, cancelled, handler,
                 silenced>>

NothingBuffered(m) ==
  /\ clock[m] = "take" /\ buffer[target[m]] = <<>>
  /\ clock' = [clock EXCEPT ![m] = "off"]
  /\ UNCHANGED <<aiActive, ingestion, current, state, target, turns, cancelled, handler,
                 silenced>>

\* (mutant) the buffer is copied, and kept
TakeBatchKeeps(m) ==
  LET s == target[m] IN
  /\ clock[m] = "take" /\ buffer[s] # <<>>
  /\ batch' = [batch EXCEPT ![m] = buffer[s]]
  /\ cancelGen' = [cancelGen EXCEPT ![s] = m]
  /\ turn' = [turn EXCEPT ![m] = "check"]
  /\ clock' = [clock EXCEPT ![m] = "reset"]
  /\ UNCHANGED <<aiActive, ingestion, current, buffer, timer, target, left, cancelled,
                 handler, silenced>>

\* The buffer becomes the batch of a turn, which onAction starts in a goroutine
\* of its own (server.go)...
TakeBatch(m) ==
  LET s == target[m] IN
  /\ clock[m] = "take" /\ buffer[s] # <<>>
  /\ batch' = [batch EXCEPT ![m] = buffer[s]]
  /\ buffer' = [buffer EXCEPT ![s] = <<>>]
  /\ cancelGen' = [cancelGen EXCEPT ![s] = m]
  /\ turn' = [turn EXCEPT ![m] = "check"]
  /\ clock' = [clock EXCEPT ![m] = "reset"]
  /\ UNCHANGED <<aiActive, ingestion, current, timer, target, left, cancelled, handler,
                 silenced>>

\* ...so that the deferred reset comes while the turn is running, and it resets
\* whatever turn the state has by now.
ResetGeneration(m) ==
  /\ clock[m] = "reset"
  /\ cancelGen' = [cancelGen EXCEPT ![target[m]] = "none"]
  /\ clock' = [clock EXCEPT ![m] = "off"]
  /\ UNCHANGED <<aiActive, ingestion, current, buffer, timer, target, turns, cancelled,
                 handler, silenced>>

-----------------------------------------------------------------------------
(* executeChatAgentTurn.  It may fail at any call, as it does when cancelled. *)

Advance(t, label) == turn' = [turn EXCEPT ![t] = label]

TurnFails(t) ==
  /\ t \in Running /\ turn[t] # "send"
  /\ Advance(t, "done")
  /\ UNCHANGED <<aiActive, ingestion, current, state, process, batch, left, cancelled,
                 handler, silenced>>

CheckActive(t) ==
  /\ turn[t] = "check" /\ t \notin cancelled
  /\ Advance(t, IF aiActive THEN "generate" ELSE "done")
  /\ UNCHANGED <<aiActive, ingestion, current, state, process, batch, left, cancelled,
                 handler, silenced>>

\* (mutant) the split of the answer does not stop at the limit
GenerateLong(t) ==
  /\ turn[t] = "generate" /\ t \notin cancelled
  /\ \E n \in 1..(MaxBubbles + 1) : left' = [left EXCEPT ![t] = n]
  /\ Advance(t, "typing")
  /\ UNCHANGED <<aiActive, ingestion, current, state, process, batch, cancelled, handler,
                 silenced>>

\* The model answers, and splitIntoNaturalBubbles cuts the answer up.
Generate(t) ==
  /\ turn[t] = "generate" /\ t \notin cancelled
  /\ \E n \in 1..MaxBubbles : left' = [left EXCEPT ![t] = n]
  /\ Advance(t, "typing")
  /\ UNCHANGED <<aiActive, ingestion, current, state, process, batch, cancelled, handler,
                 silenced>>

\* Before it answers it may call transfer_to_human.
TransferToHuman(t) ==
  /\ turn[t] = "generate" /\ t \notin cancelled
  /\ aiActive' = FALSE
  /\ UNCHANGED <<ingestion, current, state, process, turns, cancelled, handler,
                 silenced>>

TypeBubble(t) ==
  /\ turn[t] = "typing" /\ t \notin cancelled
  /\ Advance(t, "send")
  /\ UNCHANGED <<aiActive, ingestion, current, state, process, batch, left, cancelled,
                 handler, silenced>>

\* A turn that is cancelled here does not send the bubble, but it stores it.
SendBubble(t) ==
  /\ turn[t] = "send"
  /\ left' = [left EXCEPT ![t] = @ - 1]
  /\ Advance(t, IF left[t] > 1 THEN "typing" ELSE "done")
  /\ UNCHANGED <<aiActive, ingestion, current, state, process, batch, cancelled, handler,
                 silenced>>

-----------------------------------------------------------------------------
(* The handler of an operator's message, once it has been sent and stored. *)

SendManualMessage(o) ==
  /\ human[o] = "idle"
  /\ human' = [human EXCEPT ![o] = "cancel"]
  /\ UNCHANGED <<aiActive, ingestion, current, state, process, turns, cancelled, found,
                 silenced>>

\* Cancel takes the state out of the map (under m.mu)...
RemoveState(o) ==
  /\ human[o] = "cancel"
  /\ found' = [found EXCEPT ![o] = current]
  /\ current' = "none"
  /\ human' = [human EXCEPT ![o] = IF current = "none" THEN "pause" ELSE "clear"]
  /\ silenced' = IF current = "none" THEN silenced \union Running ELSE silenced
  /\ UNCHANGED <<aiActive, ingestion, state, process, turns, cancelled>>

\* ...and then stops what it finds in it (under state.mu)...
Cancel(o) ==
  LET s == found[o] IN
  /\ human[o] = "clear"
  /\ clock' = Stop(timer[s])
  /\ timer' = [timer EXCEPT ![s] = "none"]
  /\ cancelled' = Cancelled(s)
  /\ cancelGen' = [cancelGen EXCEPT ![s] = "none"]
  /\ buffer' = [buffer EXCEPT ![s] = <<>>]
  /\ silenced' = silenced \union Running
  /\ human' = [human EXCEPT ![o] = "pause"]
  /\ UNCHANGED <<aiActive, ingestion, current, target, turns, found>>

\* ...before the AI is paused.
PauseAI(o) ==
  /\ human[o] = "pause"
  /\ aiActive' = FALSE
  /\ human' = [human EXCEPT ![o] = "done"]
  /\ UNCHANGED <<ingestion, current, state, process, turns, cancelled, found,
                 silenced>>

\* An operator turns the AI on or off in the panel (handleUpdateConversation).
UpdateConversation ==
  /\ aiActive' = ~aiActive
  /\ UNCHANGED <<ingestion, current, state, process, turns, cancelled, handler,
                 silenced>>

-----------------------------------------------------------------------------
Ingest(m) == \/ StoreMessage(m) \/ Reactivate(m) \/ FindState(m) \/ EnqueueMessage(m)

Process(m) == \/ Fire(m) \/ LookUpState(m) \/ NothingBuffered(m) \/ TakeBatch(m)
              \/ ResetGeneration(m)

Turn(t) == \/ TurnFails(t) \/ CheckActive(t) \/ TransferToHuman(t) \/ Generate(t)
           \/ TypeBubble(t) \/ SendBubble(t)

Handle(o) == RemoveState(o) \/ Cancel(o) \/ PauseAI(o)

Next == \/ \E m \in Messages : ReadConversation(m) \/ Ingest(m) \/ Process(m) \/ Turn(m)
        \/ \E o \in Operators : SendManualMessage(o) \/ Handle(o)
        \/ UpdateConversation

\* Goroutines and timers go on; nobody has to write.
Fairness == /\ \A m \in Messages : WF_vars(Ingest(m)) /\ WF_vars(Process(m)) /\ WF_vars(Turn(m))
            /\ \A o \in Operators : WF_vars(Handle(o))

Spec == Init /\ [][Next]_vars /\ Fairness
-----------------------------------------------------------------------------
(* Properties. *)

Waiting == UNION {ToSet(buffer[s]) : s \in Messages}
Taken == UNION {ToSet(batch[t]) : t \in Messages}

\* What ChatAnswers sees of the agent: which messages were enqueued, how far a turn
\* is, and whether the Cancel of an operator has done its work.
Enqueued == {m \in Messages : pc[m] = "done" /\ holds[m] # "none"}

TurnSeen(t) ==
  CASE turn[t] \in {"check", "generate"} -> "thinking"
    [] turn[t] \in {"typing", "send"} -> "saying"
    [] turn[t] = "done" -> "over" [] OTHER -> "none"

CancelSeen(o) ==
  CASE human[o] = "idle" -> "none" [] human[o] \in {"cancel", "clear"} -> "under way"
    [] OTHER -> "over"

Answers == INSTANCE ChatAnswers WITH
  heard <- Enqueued, waiting <- Waiting,
  answers <- [t \in Messages |-> ToSet(batch[t])],
  turn <- [t \in Messages |-> TurnSeen(t)],
  call <- [o \in Operators |-> CancelSeen(o)]

\* The agent keeps its promise step by step: what is enqueued leaves the buffers
\* only into one turn, or because an operator's Cancel threw it away, whichever
\* state the timer, the ingestion and the Cancel have in hand.
ImplementsAnswers == Answers!Spec

\* However the ingestions, the timers and the operators interleave, a message
\* goes to one turn, once: the client gets no two answers to it.
NothingAnsweredTwice ==
  /\ Waiting \intersect Taken = {}
  /\ \A t \in Messages : IsInjective(batch[t])
  /\ \A t, u \in Messages : t # u => ToSet(batch[t]) \intersect ToSet(batch[u]) = {}

\* A message that waits in the conversation's state has a timer to wait for, or
\* a processConversation that is about to take it: stopping the timer of an older
\* message, or one that fires too early or finds another state, strands nothing.
BufferedHasTimer ==
  current # "none" /\ buffer[current] # <<>> =>
    \E m \in Messages : \/ clock[m] \in {"armed", "fired"}
                        \/ clock[m] = "take" /\ target[m] = current

\* What is enqueued goes to a turn of the AI in the end, unless an operator has
\* written to the client.
AnsweredUnlessHuman ==
  \A m \in Messages :
    pc[m] = "append" ~> (m \in Taken \/ \E o \in Operators : human[o] # "idle")

Sends(t) == turn[t] = "send" /\ turn'[t] # "send" /\ t \notin cancelled

\* (does not hold) "Cancel interrompe qualquer debounce ou geracao em andamento":
\* the AI does not talk over an operator, once Cancel has returned.
HumanSilencesAI == [][\A t \in silenced : ~Sends(t)]_vars
==============================================================================
