-------------------------- MODULE ChatDebounceProofs --------------------------
(***************************************************************************)
(* Proofs about ChatDebounce, for every set of messages and of operators   *)
(* and every number of bubbles: a message of the client goes to one turn   *)
(* of the AI, once, and a message that is buffered has a timer to wait     *)
(* for.                                                                    *)
(***************************************************************************)
EXTENDS ChatDebounce, TLAPS

USE DEF ingestion, state, process, turns, handler

\* Every message of the client has its own ingestion, and the state that one
\* found is a state that was made.
IngestTypes ==
  /\ pc \in [Messages -> {"new", "read", "stored", "enqueue", "append", "done"}]
  /\ knew \subseteq Messages
  /\ holds \in [Messages -> Messages \union {"none"}]
  /\ \A m \in Messages : pc[m] = "append" => holds[m] # "none"

StateTypes ==
  /\ current \in Messages \union {"none"}
  /\ buffer \in [Messages -> Seq(Messages)]
  /\ timer \in [Messages -> Messages \union {"none"}]
  /\ cancelGen \in [Messages -> Messages \union {"none"}]

\* A processConversation past its look-up works on a state.
ProcessTypes ==
  /\ clock \in [Messages -> {"off", "armed", "fired", "take", "reset"}]
  /\ target \in [Messages -> Messages \union {"none"}]
  /\ \A m \in Messages : clock[m] \in {"take", "reset"} => target[m] # "none"

\* A turn that types or sends has a bubble left.
TurnTypes ==
  /\ turn \in [Messages -> {"none", "check", "generate", "typing", "send", "done"}]
  /\ batch \in [Messages -> Seq(Messages)]
  /\ left \in [Messages -> 0..MaxBubbles]
  /\ \A t \in Messages : turn[t] \in {"typing", "send"} => left[t] > 0
  /\ cancelled \subseteq Messages /\ silenced \subseteq Messages

\* A Cancel that is about to stop what it found has found a state.
HandlerTypes ==
  /\ aiActive \in BOOLEAN
  /\ human \in [Operators -> {"idle", "cancel", "clear", "pause", "done"}]
  /\ found \in [Operators -> Messages \union {"none"}]
  /\ \A o \in Operators : human[o] = "clear" => found[o] # "none"

Types == IngestTypes /\ StateTypes /\ ProcessTypes /\ TurnTypes /\ HandlerTypes

Entered == {m \in Messages : pc[m] \in {"append", "done"}}

\* A state is made by the message it is named after, and has a timer only from a
\* message that holds it: the timers of two states are not the same.
Placed ==
  /\ current # "none" => current \in Entered
  /\ \A m \in Messages : holds[m] # "none" => holds[m] \in Entered
  /\ \A s \in Messages : buffer[s] # <<>> => s \in Entered
  /\ \A s \in Messages :
       timer[s] # "none" => pc[timer[s]] = "done" /\ holds[timer[s]] = s

\* The last timer set for the state in the map is the one its buffer waits for.
Timed ==
  current # "none" /\ buffer[current] # <<>> =>
    /\ timer[current] # "none"
    /\ \/ clock[timer[current]] \in {"armed", "fired"}
       \/ clock[timer[current]] = "take" /\ target[timer[current]] = current

Buffered(s) == ToSet(buffer[s])
Batched(t) == ToSet(batch[t])

\* What is buffered was ingested, and is buffered once.
OnceBuffered ==
  /\ \A s \in Messages : IsInjective(buffer[s])
  /\ \A s \in Messages : \A m \in Buffered(s) : pc[m] = "done"
  /\ \A s, u \in Messages : s # u => Buffered(s) \intersect Buffered(u) = {}

\* What was taken was ingested, is taken once, and is not buffered any more.
OnceTaken ==
  /\ \A t \in Messages : IsInjective(batch[t])
  /\ \A t \in Messages : \A m \in Batched(t) : pc[m] = "done"
  /\ \A t, u \in Messages : t # u => Batched(t) \intersect Batched(u) = {}
  /\ \A s, t \in Messages : Buffered(s) \intersect Batched(t) = {}

\* A message that is still being ingested holds no state, has no timer and leads
\* to no turn; a timer that has led to a turn is not armed again.
Begun ==
  \A m \in Messages :
    /\ pc[m] \notin {"append", "done"} => holds[m] = "none"
    /\ clock[m] # "off" => pc[m] = "done"
    /\ turn[m] # "none" => pc[m] = "done" /\ clock[m] \in {"reset", "off"}

IInv == Types /\ Placed /\ Timed /\ OnceBuffered /\ OnceTaken /\ Begun

-----------------------------------------------------------------------------
\* What Append does to a sequence of messages.
LEMMA AppendShape ==
  ASSUME NEW q \in Seq(Messages), NEW m \in Messages
  PROVE /\ DOMAIN Append(q, m) = 1..(Len(q) + 1) /\ DOMAIN q = 1..Len(q) /\ Len(q) \in Nat
        /\ \A i \in DOMAIN q : Append(q, m)[i] = q[i]
        /\ Append(q, m)[Len(q) + 1] = m
OBVIOUS

\* Appending a message adds it to the messages of a sequence.
LEMMA ToSetAppend ==
  ASSUME NEW q \in Seq(Messages), NEW m \in Messages
  PROVE ToSet(Append(q, m)) = ToSet(q) \union {m}
<1>1. ASSUME NEW x \in ToSet(Append(q, m)) PROVE x \in ToSet(q) \union {m}
  BY <1>1, AppendShape DEF ToSet
<1>2. ASSUME NEW x \in ToSet(q) \union {m} PROVE x \in ToSet(Append(q, m))
  <2>1. CASE x = m
    BY <2>1, AppendShape DEF ToSet
  <2>2. CASE x \in ToSet(q)
    <3>1. PICK i \in DOMAIN q : x = q[i]
      BY <2>2 DEF ToSet
    <3> QED BY <3>1, AppendShape DEF ToSet
  <2> QED BY <1>2, <2>1, <2>2
<1> QED BY <1>1, <1>2

\* Appending a message that is not there yet repeats none.
LEMMA AppendInjective ==
  ASSUME NEW q \in Seq(Messages), NEW m \in Messages,
         \A i \in DOMAIN q : q[i] # m,
         \A i, j \in DOMAIN q : q[i] = q[j] => i = j
  PROVE \A i, j \in DOMAIN Append(q, m) : Append(q, m)[i] = Append(q, m)[j] => i = j
BY AppendShape

\* The messages of a sequence of messages are messages.
LEMMA ToSetType ==
  ASSUME NEW q \in Seq(Messages)
  PROVE ToSet(q) \subseteq Messages
BY DEF ToSet

\* There is no message in the empty sequence, and none twice.
LEMMA EmptySequence == ToSet(<<>>) = {} /\ IsInjective(<<>>)
BY DEF ToSet, IsInjective

\* Every step keeps IngestTypes.
LEMMA IngestTypesNext ==
  StateTypes /\ IngestTypes /\ [Next]_vars => IngestTypes'
<1> SUFFICES ASSUME StateTypes, IngestTypes, [Next]_vars PROVE IngestTypes'
  OBVIOUS
<1> USE DEF StateTypes, IngestTypes
<1>1. ASSUME NEW m \in Messages, ReadConversation(m) PROVE IngestTypes'
  BY <1>1 DEF ReadConversation
<1>2. ASSUME NEW m \in Messages, Ingest(m) PROVE IngestTypes'
  <2>1. CASE StoreMessage(m)
    BY <2>1 DEF StoreMessage
  <2>2. CASE Reactivate(m)
    BY <2>2 DEF Reactivate
  <2>3. CASE FindState(m)
    BY <2>3, ConstantsAssumption DEF FindState
  <2>4. CASE EnqueueMessage(m)
    BY <2>4 DEF EnqueueMessage, Stop, Cancelled
  <2> QED BY <1>2, <2>1, <2>2, <2>3, <2>4 DEF Ingest
<1>3. ASSUME NEW m \in Messages, Process(m) PROVE IngestTypes'
  BY <1>3 DEF Process, Fire, LookUpState, NothingBuffered, TakeBatch, ResetGeneration
<1>4. ASSUME NEW t \in Messages, Turn(t) PROVE IngestTypes'
  BY <1>4 DEF Turn, TurnFails, CheckActive, TransferToHuman, Generate, TypeBubble, SendBubble,
       Advance
<1>5. ASSUME NEW o \in Operators, SendManualMessage(o) PROVE IngestTypes'
  BY <1>5 DEF SendManualMessage
<1>6. ASSUME NEW o \in Operators, Handle(o) PROVE IngestTypes'
  BY <1>6 DEF Handle, RemoveState, Cancel, PauseAI, Running, Stop, Cancelled
<1>7. ASSUME UpdateConversation PROVE IngestTypes'
  BY <1>7 DEF UpdateConversation
<1>8. CASE UNCHANGED vars
  BY <1>8 DEF vars
<1> QED BY <1>1, <1>2, <1>3, <1>4, <1>5, <1>6, <1>7, <1>8 DEF Next

\* Every step keeps StateTypes.
LEMMA StateTypesNext ==
  Types /\ [Next]_vars => StateTypes'
<1> SUFFICES ASSUME Types, [Next]_vars PROVE StateTypes'
  OBVIOUS
<1> USE DEF Types, IngestTypes, StateTypes, ProcessTypes, HandlerTypes
<1>1. ASSUME NEW m \in Messages, ReadConversation(m) PROVE StateTypes'
  BY <1>1 DEF ReadConversation
<1>2. ASSUME NEW m \in Messages, Ingest(m) PROVE StateTypes'
  <2>1. CASE StoreMessage(m)
    BY <2>1 DEF StoreMessage
  <2>2. CASE Reactivate(m)
    BY <2>2 DEF Reactivate
  <2>3. CASE FindState(m)
    BY <2>3 DEF FindState
  <2>4. CASE EnqueueMessage(m)
    BY <2>4 DEF EnqueueMessage, Stop, Cancelled
  <2> QED BY <1>2, <2>1, <2>2, <2>3, <2>4 DEF Ingest
<1>3. ASSUME NEW m \in Messages, Process(m) PROVE StateTypes'
  <2>1. CASE Fire(m)
    BY <2>1 DEF Fire
  <2>2. CASE LookUpState(m)
    BY <2>2 DEF LookUpState
  <2>3. CASE NothingBuffered(m)
    BY <2>3 DEF NothingBuffered
  <2>4. CASE TakeBatch(m)
    BY <2>4 DEF TakeBatch
  <2>5. CASE ResetGeneration(m)
    BY <2>5 DEF ResetGeneration
  <2> QED BY <1>3, <2>1, <2>2, <2>3, <2>4, <2>5 DEF Process
<1>4. ASSUME NEW t \in Messages, Turn(t) PROVE StateTypes'
  BY <1>4 DEF Turn, TurnFails, CheckActive, TransferToHuman, Generate, TypeBubble, SendBubble,
       Advance
<1>5. ASSUME NEW o \in Operators, SendManualMessage(o) PROVE StateTypes'
  BY <1>5 DEF SendManualMessage
<1>6. ASSUME NEW o \in Operators, Handle(o) PROVE StateTypes'
  <2>1. CASE RemoveState(o)
    BY <2>1 DEF RemoveState, Running
  <2>2. CASE Cancel(o)
    BY <2>2 DEF Cancel, Stop, Cancelled, Running
  <2>3. CASE PauseAI(o)
    BY <2>3 DEF PauseAI
  <2> QED BY <1>6, <2>1, <2>2, <2>3 DEF Handle
<1>7. ASSUME UpdateConversation PROVE StateTypes'
  BY <1>7 DEF UpdateConversation
<1>8. CASE UNCHANGED vars
  BY <1>8 DEF vars
<1> QED BY <1>1, <1>2, <1>3, <1>4, <1>5, <1>6, <1>7, <1>8 DEF Next

\* Every step keeps ProcessTypes.
LEMMA ProcessTypesNext ==
  StateTypes /\ ProcessTypes /\ [Next]_vars => ProcessTypes'
<1> SUFFICES ASSUME StateTypes, ProcessTypes, [Next]_vars PROVE ProcessTypes'
  OBVIOUS
<1> USE DEF StateTypes, ProcessTypes
<1>1. ASSUME NEW m \in Messages, ReadConversation(m) PROVE ProcessTypes'
  BY <1>1 DEF ReadConversation
<1>2. ASSUME NEW m \in Messages, Ingest(m) PROVE ProcessTypes'
  <2>1. CASE StoreMessage(m)
    BY <2>1 DEF StoreMessage
  <2>2. CASE Reactivate(m)
    BY <2>2 DEF Reactivate
  <2>3. CASE FindState(m)
    BY <2>3 DEF FindState
  <2>4. CASE EnqueueMessage(m)
    BY <2>4 DEF EnqueueMessage, Stop, Cancelled
  <2> QED BY <1>2, <2>1, <2>2, <2>3, <2>4 DEF Ingest
<1>3. ASSUME NEW m \in Messages, Process(m) PROVE ProcessTypes'
  <2>1. CASE Fire(m)
    BY <2>1 DEF Fire
  <2>2. CASE LookUpState(m)
    BY <2>2 DEF LookUpState
  <2>3. CASE NothingBuffered(m)
    BY <2>3 DEF NothingBuffered
  <2>4. CASE TakeBatch(m)
    BY <2>4 DEF TakeBatch
  <2>5. CASE ResetGeneration(m)
    BY <2>5 DEF ResetGeneration
  <2> QED BY <1>3, <2>1, <2>2, <2>3, <2>4, <2>5 DEF Process
<1>4. ASSUME NEW t \in Messages, Turn(t) PROVE ProcessTypes'
  BY <1>4 DEF Turn, TurnFails, CheckActive, TransferToHuman, Generate, TypeBubble, SendBubble,
       Advance
<1>5. ASSUME NEW o \in Operators, SendManualMessage(o) PROVE ProcessTypes'
  BY <1>5 DEF SendManualMessage
<1>6. ASSUME NEW o \in Operators, Handle(o) PROVE ProcessTypes'
  <2>1. CASE RemoveState(o)
    BY <2>1 DEF RemoveState, Running
  <2>2. CASE Cancel(o)
    BY <2>2 DEF Cancel, Stop, Cancelled, Running
  <2>3. CASE PauseAI(o)
    BY <2>3 DEF PauseAI
  <2> QED BY <1>6, <2>1, <2>2, <2>3 DEF Handle
<1>7. ASSUME UpdateConversation PROVE ProcessTypes'
  BY <1>7 DEF UpdateConversation
<1>8. CASE UNCHANGED vars
  BY <1>8 DEF vars
<1> QED BY <1>1, <1>2, <1>3, <1>4, <1>5, <1>6, <1>7, <1>8 DEF Next

\* Every step keeps TurnTypes.
LEMMA TurnTypesNext ==
  Types /\ [Next]_vars => TurnTypes'
<1> SUFFICES ASSUME Types, [Next]_vars PROVE TurnTypes'
  OBVIOUS
<1> USE DEF Types, IngestTypes, StateTypes, ProcessTypes, TurnTypes, HandlerTypes, Running
<1>1. ASSUME NEW m \in Messages, ReadConversation(m) PROVE TurnTypes'
  BY <1>1 DEF ReadConversation
<1>2. ASSUME NEW m \in Messages, Ingest(m) PROVE TurnTypes'
  <2>1. CASE StoreMessage(m)
    BY <2>1 DEF StoreMessage
  <2>2. CASE Reactivate(m)
    BY <2>2 DEF Reactivate
  <2>3. CASE FindState(m)
    BY <2>3 DEF FindState
  <2>4. CASE EnqueueMessage(m)
    BY <2>4 DEF EnqueueMessage, Stop, Cancelled
  <2> QED BY <1>2, <2>1, <2>2, <2>3, <2>4 DEF Ingest
<1>3. ASSUME NEW m \in Messages, Process(m) PROVE TurnTypes'
  <2>1. CASE Fire(m)
    BY <2>1 DEF Fire
  <2>2. CASE LookUpState(m)
    BY <2>2 DEF LookUpState
  <2>3. CASE NothingBuffered(m)
    BY <2>3 DEF NothingBuffered
  <2>4. CASE TakeBatch(m)
    BY <2>4 DEF TakeBatch
  <2>5. CASE ResetGeneration(m)
    BY <2>5 DEF ResetGeneration
  <2> QED BY <1>3, <2>1, <2>2, <2>3, <2>4, <2>5 DEF Process
<1>4. ASSUME NEW t \in Messages, Turn(t) PROVE TurnTypes'
  <2>1. CASE TurnFails(t)
    BY <2>1 DEF TurnFails, Advance
  <2>2. CASE CheckActive(t)
    BY <2>2 DEF CheckActive, Advance
  <2>3. CASE TransferToHuman(t)
    BY <2>3 DEF TransferToHuman
  <2>4. CASE Generate(t)
    BY <2>4 DEF Generate, Advance
  <2>5. CASE TypeBubble(t)
    BY <2>5 DEF TypeBubble, Advance
  <2>6. CASE SendBubble(t)
    <3>1. left[t] \in 0..MaxBubbles /\ left[t] > 0
      BY <2>6 DEF SendBubble
    <3>2. left[t] - 1 \in 0..MaxBubbles
      BY <3>1, ConstantsAssumption
    <3>3. left' \in [Messages -> 0..MaxBubbles] /\ left'[t] = left[t] - 1
      BY <2>6, <3>2 DEF SendBubble
    <3> QED BY <2>6, <3>1, <3>3 DEF SendBubble, Advance
  <2> QED BY <1>4, <2>1, <2>2, <2>3, <2>4, <2>5, <2>6 DEF Turn
<1>5. ASSUME NEW o \in Operators, SendManualMessage(o) PROVE TurnTypes'
  BY <1>5 DEF SendManualMessage
<1>6. ASSUME NEW o \in Operators, Handle(o) PROVE TurnTypes'
  <2>1. CASE RemoveState(o)
    BY <2>1 DEF RemoveState, Running
  <2>2. CASE Cancel(o)
    BY <2>2 DEF Cancel, Stop, Cancelled, Running
  <2>3. CASE PauseAI(o)
    BY <2>3 DEF PauseAI
  <2> QED BY <1>6, <2>1, <2>2, <2>3 DEF Handle
<1>7. ASSUME UpdateConversation PROVE TurnTypes'
  BY <1>7 DEF UpdateConversation
<1>8. CASE UNCHANGED vars
  BY <1>8 DEF vars
<1> QED BY <1>1, <1>2, <1>3, <1>4, <1>5, <1>6, <1>7, <1>8 DEF Next

\* Every step keeps HandlerTypes.
LEMMA HandlerTypesNext ==
  StateTypes /\ HandlerTypes /\ [Next]_vars => HandlerTypes'
<1> SUFFICES ASSUME StateTypes, HandlerTypes, [Next]_vars PROVE HandlerTypes'
  OBVIOUS
<1> USE DEF StateTypes, HandlerTypes
<1>1. ASSUME NEW m \in Messages, ReadConversation(m) PROVE HandlerTypes'
  BY <1>1 DEF ReadConversation
<1>2. ASSUME NEW m \in Messages, Ingest(m) PROVE HandlerTypes'
  BY <1>2 DEF Ingest, StoreMessage, Reactivate, FindState, EnqueueMessage, Stop, Cancelled
<1>3. ASSUME NEW m \in Messages, Process(m) PROVE HandlerTypes'
  BY <1>3 DEF Process, Fire, LookUpState, NothingBuffered, TakeBatch, ResetGeneration
<1>4. ASSUME NEW t \in Messages, Turn(t) PROVE HandlerTypes'
  BY <1>4 DEF Turn, TurnFails, CheckActive, TransferToHuman, Generate, TypeBubble, SendBubble,
       Advance
<1>5. ASSUME NEW o \in Operators, SendManualMessage(o) PROVE HandlerTypes'
  BY <1>5 DEF SendManualMessage
<1>6. ASSUME NEW o \in Operators, Handle(o) PROVE HandlerTypes'
  <2>1. CASE RemoveState(o)
    BY <2>1 DEF RemoveState, Running
  <2>2. CASE Cancel(o)
    BY <2>2 DEF Cancel, Stop, Cancelled, Running
  <2>3. CASE PauseAI(o)
    BY <2>3 DEF PauseAI
  <2> QED BY <1>6, <2>1, <2>2, <2>3 DEF Handle
<1>7. ASSUME UpdateConversation PROVE HandlerTypes'
  BY <1>7 DEF UpdateConversation
<1>8. CASE UNCHANGED vars
  BY <1>8 DEF vars
<1> QED BY <1>1, <1>2, <1>3, <1>4, <1>5, <1>6, <1>7, <1>8 DEF Next

\* Every step keeps Placed.
LEMMA PlacedNext ==
  Types /\ Placed /\ [Next]_vars => Placed'
<1> SUFFICES ASSUME Types, Placed, [Next]_vars PROVE Placed'
  OBVIOUS
<1> USE DEF Types, IngestTypes, StateTypes, ProcessTypes, HandlerTypes, Placed, Entered
<1>1. ASSUME NEW m \in Messages, ReadConversation(m) PROVE Placed'
  BY <1>1 DEF ReadConversation
<1>2. ASSUME NEW m \in Messages, Ingest(m) PROVE Placed'
  <2>1. CASE StoreMessage(m)
    BY <2>1 DEF StoreMessage
  <2>2. CASE Reactivate(m)
    <3>1. pc[m] = "stored" /\ \E label \in {"enqueue", "done"} : pc' = [pc EXCEPT ![m] = label]
      BY <2>2 DEF Reactivate
    <3> QED BY <2>2, <3>1 DEF Reactivate
  <2>3. CASE FindState(m)
    BY <2>3 DEF FindState
  <2>4. CASE EnqueueMessage(m)
    BY <2>4 DEF EnqueueMessage, Stop, Cancelled
  <2> QED BY <1>2, <2>1, <2>2, <2>3, <2>4 DEF Ingest
<1>3. ASSUME NEW m \in Messages, Process(m) PROVE Placed'
  <2>1. CASE Fire(m)
    BY <2>1 DEF Fire
  <2>2. CASE LookUpState(m)
    BY <2>2 DEF LookUpState
  <2>3. CASE NothingBuffered(m)
    BY <2>3 DEF NothingBuffered
  <2>4. CASE TakeBatch(m)
    BY <2>4 DEF TakeBatch
  <2>5. CASE ResetGeneration(m)
    BY <2>5 DEF ResetGeneration
  <2> QED BY <1>3, <2>1, <2>2, <2>3, <2>4, <2>5 DEF Process
<1>4. ASSUME NEW t \in Messages, Turn(t) PROVE Placed'
  BY <1>4 DEF Turn, TurnFails, CheckActive, TransferToHuman, Generate, TypeBubble, SendBubble,
       Advance
<1>5. ASSUME NEW o \in Operators, SendManualMessage(o) PROVE Placed'
  BY <1>5 DEF SendManualMessage
<1>6. ASSUME NEW o \in Operators, Handle(o) PROVE Placed'
  <2>1. CASE RemoveState(o)
    BY <2>1 DEF RemoveState, Running
  <2>2. CASE Cancel(o)
    BY <2>2 DEF Cancel, Stop, Cancelled, Running
  <2>3. CASE PauseAI(o)
    BY <2>3 DEF PauseAI
  <2> QED BY <1>6, <2>1, <2>2, <2>3 DEF Handle
<1>7. ASSUME UpdateConversation PROVE Placed'
  BY <1>7 DEF UpdateConversation
<1>8. CASE UNCHANGED vars
  BY <1>8 DEF vars
<1> QED BY <1>1, <1>2, <1>3, <1>4, <1>5, <1>6, <1>7, <1>8 DEF Next

\* Every step keeps Begun.
LEMMA BegunNext ==
  Types /\ Begun /\ [Next]_vars => Begun'
<1> SUFFICES ASSUME Types, Begun, [Next]_vars PROVE Begun'
  OBVIOUS
<1> USE DEF Types, IngestTypes, StateTypes, ProcessTypes, TurnTypes, HandlerTypes, Begun
<1>1. ASSUME NEW m \in Messages, ReadConversation(m) PROVE Begun'
  BY <1>1 DEF ReadConversation
<1>2. ASSUME NEW m \in Messages, Ingest(m) PROVE Begun'
  <2>1. CASE StoreMessage(m)
    BY <2>1 DEF StoreMessage
  <2>2. CASE Reactivate(m)
    <3>1. pc[m] = "stored" /\ \E label \in {"enqueue", "done"} : pc' = [pc EXCEPT ![m] = label]
      BY <2>2 DEF Reactivate
    <3> QED BY <2>2, <3>1 DEF Reactivate
  <2>3. CASE FindState(m)
    BY <2>3 DEF FindState
  <2>4. CASE EnqueueMessage(m)
    BY <2>4 DEF EnqueueMessage, Stop, Cancelled
  <2> QED BY <1>2, <2>1, <2>2, <2>3, <2>4 DEF Ingest
<1>3. ASSUME NEW m \in Messages, Process(m) PROVE Begun'
  <2>1. CASE Fire(m)
    BY <2>1 DEF Fire
  <2>2. CASE LookUpState(m)
    BY <2>2 DEF LookUpState
  <2>3. CASE NothingBuffered(m)
    BY <2>3 DEF NothingBuffered
  <2>4. CASE TakeBatch(m)
    <3>1. /\ clock[m] = "take" /\ UNCHANGED <<pc, holds>>
          /\ clock' = [clock EXCEPT ![m] = "reset"] /\ turn' = [turn EXCEPT ![m] = "check"]
      BY <2>4 DEF TakeBatch
    <3> QED BY <3>1
  <2>5. CASE ResetGeneration(m)
    BY <2>5 DEF ResetGeneration
  <2> QED BY <1>3, <2>1, <2>2, <2>3, <2>4, <2>5 DEF Process
<1>4. ASSUME NEW t \in Messages, Turn(t) PROVE Begun'
  <2>1. turn[t] # "none" /\ UNCHANGED <<ingestion, process>>
        /\ \A u \in Messages : u # t => turn'[u] = turn[u]
    BY <1>4 DEF Turn, TurnFails, CheckActive, TransferToHuman, Generate, TypeBubble, SendBubble,
         Advance, Running
  <2> QED BY <2>1
<1>5. ASSUME NEW o \in Operators, SendManualMessage(o) PROVE Begun'
  BY <1>5 DEF SendManualMessage
<1>6. ASSUME NEW o \in Operators, Handle(o) PROVE Begun'
  <2>1. CASE RemoveState(o)
    BY <2>1 DEF RemoveState, Running
  <2>2. CASE Cancel(o)
    BY <2>2 DEF Cancel, Stop, Cancelled, Running
  <2>3. CASE PauseAI(o)
    BY <2>3 DEF PauseAI
  <2> QED BY <1>6, <2>1, <2>2, <2>3 DEF Handle
<1>7. ASSUME UpdateConversation PROVE Begun'
  BY <1>7 DEF UpdateConversation
<1>8. CASE UNCHANGED vars
  BY <1>8 DEF vars
<1> QED BY <1>1, <1>2, <1>3, <1>4, <1>5, <1>6, <1>7, <1>8 DEF Next

\* Every step keeps Timed.
LEMMA TimedNext ==
  Types /\ Placed /\ Timed /\ [Next]_vars => Timed'
<1> SUFFICES ASSUME Types, Placed, Timed, [Next]_vars PROVE Timed'
  OBVIOUS
<1> USE DEF Types, IngestTypes, StateTypes, ProcessTypes, HandlerTypes, Placed, Entered, Timed
<1>1. ASSUME NEW m \in Messages, ReadConversation(m) PROVE Timed'
  BY <1>1 DEF ReadConversation
<1>2. ASSUME NEW m \in Messages, Ingest(m) PROVE Timed'
  <2>1. CASE StoreMessage(m)
    BY <2>1 DEF StoreMessage
  <2>2. CASE Reactivate(m)
    BY <2>2 DEF Reactivate
  <2>3. CASE FindState(m)
    BY <2>3 DEF FindState
  <2>4. CASE EnqueueMessage(m)
    BY <2>4, ConstantsAssumption DEF EnqueueMessage, Stop, Cancelled
  <2> QED BY <1>2, <2>1, <2>2, <2>3, <2>4 DEF Ingest
<1>3. ASSUME NEW m \in Messages, Process(m) PROVE Timed'
  <2>1. CASE Fire(m)
    BY <2>1 DEF Fire
  <2>2. CASE LookUpState(m)
    BY <2>2 DEF LookUpState
  <2>3. CASE NothingBuffered(m)
    BY <2>3 DEF NothingBuffered
  <2>4. CASE TakeBatch(m)
    BY <2>4 DEF TakeBatch
  <2>5. CASE ResetGeneration(m)
    BY <2>5 DEF ResetGeneration
  <2> QED BY <1>3, <2>1, <2>2, <2>3, <2>4, <2>5 DEF Process
<1>4. ASSUME NEW t \in Messages, Turn(t) PROVE Timed'
  BY <1>4 DEF Turn, TurnFails, CheckActive, TransferToHuman, Generate, TypeBubble, SendBubble,
       Advance
<1>5. ASSUME NEW o \in Operators, SendManualMessage(o) PROVE Timed'
  BY <1>5 DEF SendManualMessage
<1>6. ASSUME NEW o \in Operators, Handle(o) PROVE Timed'
  <2>1. CASE RemoveState(o)
    BY <2>1 DEF RemoveState, Running
  <2>2. CASE Cancel(o)
    BY <2>2 DEF Cancel, Stop, Cancelled, Running
  <2>3. CASE PauseAI(o)
    BY <2>3 DEF PauseAI
  <2> QED BY <1>6, <2>1, <2>2, <2>3 DEF Handle
<1>7. ASSUME UpdateConversation PROVE Timed'
  BY <1>7 DEF UpdateConversation
<1>8. CASE UNCHANGED vars
  BY <1>8 DEF vars
<1> QED BY <1>1, <1>2, <1>3, <1>4, <1>5, <1>6, <1>7, <1>8 DEF Next

\* Every step keeps OnceBuffered.
LEMMA OnceBufferedNext ==
  Types /\ OnceBuffered /\ [Next]_vars => OnceBuffered'
<1> SUFFICES ASSUME Types, OnceBuffered, [Next]_vars PROVE OnceBuffered'
  OBVIOUS
<1> USE DEF OnceBuffered, Buffered
<1>1. ASSUME NEW m \in Messages, ReadConversation(m) PROVE OnceBuffered'
  BY <1>1 DEF ReadConversation
<1>2. ASSUME NEW m \in Messages, Ingest(m) PROVE OnceBuffered'
  <2>1. CASE StoreMessage(m)
    BY <2>1 DEF StoreMessage
  <2>2. CASE Reactivate(m)
    <3>1. \A u \in Messages : pc[u] = "done" => pc'[u] = "done"
      BY <2>2 DEF Reactivate, Types, IngestTypes
    <3>2. \A u \in Messages : Buffered(u) \subseteq Messages /\ Batched(u) \subseteq Messages
      BY ToSetType DEF Types, StateTypes, TurnTypes, Buffered, Batched
    <3>3. buffer' = buffer /\ batch' = batch
      BY <2>2 DEF Reactivate
    <3> QED BY <3>1, <3>2, <3>3
  <2>3. CASE FindState(m)
    BY <2>3 DEF FindState
  <2>4. CASE EnqueueMessage(m)
    <3>1. PICK s \in Messages : s = holds[m] /\ pc[m] = "append"
      BY <2>4 DEF EnqueueMessage, Types, IngestTypes
    <3>2. /\ buffer[s] \in Seq(Messages) /\ buffer'[s] = Append(buffer[s], m)
          /\ \A u \in Messages : u # s => buffer'[u] = buffer[u]
      BY <2>4, <3>1 DEF EnqueueMessage, Types, StateTypes
    <3>3. \A u \in Messages : pc[u] = "done" \/ u = m => pc'[u] = "done"
      BY <2>4 DEF EnqueueMessage, Types, IngestTypes
    <3>4. \A u \in Messages : m \notin Buffered(u)
      BY <3>1
    <3>5. Buffered(s)' = Buffered(s) \union {m}
      BY <3>2, ToSetAppend
    <3>6. IsInjective(buffer'[s])
      <4>1. \A i \in DOMAIN buffer[s] : buffer[s][i] # m
        BY <3>4 DEF ToSet
      <4>2. \A i, j \in DOMAIN buffer[s] : buffer[s][i] = buffer[s][j] => i = j
        BY DEF IsInjective
      <4> HIDE DEF OnceBuffered, Buffered
      <4>3. \A i, j \in DOMAIN buffer'[s] : buffer'[s][i] = buffer'[s][j] => i = j
        BY <3>2, <4>1, <4>2, AppendInjective
      <4> QED BY <4>3, Zenon DEF IsInjective
    <3>7. \A u \in Messages : u # s => Buffered(u)' = Buffered(u)
      BY <3>2
    <3>8. \A u \in Messages : IsInjective(buffer'[u])
      BY <3>2, <3>6
    <3>9. \A u \in Messages : Buffered(u) \subseteq Messages
      BY ToSetType DEF Types, StateTypes
    <3>10. \A u \in Messages : \A x \in Buffered(u)' : pc'[x] = "done"
      <4> HIDE DEF Buffered
      <4> QED BY <3>3, <3>5, <3>7, <3>9 DEF OnceBuffered
    <3>11. \A u, v \in Messages : u # v => Buffered(u)' \intersect Buffered(v)' = {}
      <4> HIDE DEF Buffered
      <4> QED BY <3>4, <3>5, <3>7 DEF OnceBuffered
    <3> QED BY <3>8, <3>10, <3>11
  <2> QED BY <1>2, <2>1, <2>2, <2>3, <2>4 DEF Ingest
<1>3. ASSUME NEW m \in Messages, Process(m) PROVE OnceBuffered'
  <2>1. CASE Fire(m)
    BY <2>1 DEF Fire
  <2>2. CASE LookUpState(m)
    BY <2>2 DEF LookUpState
  <2>3. CASE NothingBuffered(m)
    BY <2>3 DEF NothingBuffered
  <2>4. CASE TakeBatch(m)
    <3>0. PICK s \in Messages : s = target[m]
      BY <2>4 DEF TakeBatch, Types, ProcessTypes
    <3>1. buffer'[s] = <<>> /\ \A u \in Messages : u # s => buffer'[u] = buffer[u]
      BY <2>4, <3>0 DEF TakeBatch, Types, StateTypes
    <3>2. ToSet(buffer'[s]) = {} /\ IsInjective(buffer'[s])
      BY <3>1, EmptySequence
    <3>3. \A u \in Messages : Buffered(u)' \subseteq Buffered(u) /\ IsInjective(buffer'[u])
      BY <3>1, <3>2
    <3> QED BY <2>4, <3>3 DEF TakeBatch
  <2>5. CASE ResetGeneration(m)
    BY <2>5 DEF ResetGeneration
  <2> QED BY <1>3, <2>1, <2>2, <2>3, <2>4, <2>5 DEF Process
<1>4. ASSUME NEW t \in Messages, Turn(t) PROVE OnceBuffered'
  BY <1>4 DEF Turn, TurnFails, CheckActive, TransferToHuman, Generate, TypeBubble, SendBubble,
       Advance
<1>5. ASSUME NEW o \in Operators, SendManualMessage(o) PROVE OnceBuffered'
  BY <1>5 DEF SendManualMessage
<1>6. ASSUME NEW o \in Operators, Handle(o) PROVE OnceBuffered'
  <2>1. CASE RemoveState(o)
    BY <2>1 DEF RemoveState, Running
  <2>2. CASE Cancel(o)
    <3>0. PICK s \in Messages : s = found[o]
      BY <2>2 DEF Cancel, Types, HandlerTypes
    <3>1. buffer'[s] = <<>> /\ \A u \in Messages : u # s => buffer'[u] = buffer[u]
      BY <2>2, <3>0 DEF Cancel, Types, StateTypes
    <3>2. ToSet(buffer'[s]) = {} /\ IsInjective(buffer'[s])
      BY <3>1, EmptySequence
    <3>3. \A u \in Messages : Buffered(u)' \subseteq Buffered(u) /\ IsInjective(buffer'[u])
      BY <3>1, <3>2
    <3> QED BY <2>2, <3>3 DEF Cancel
  <2>3. CASE PauseAI(o)
    BY <2>3 DEF PauseAI
  <2> QED BY <1>6, <2>1, <2>2, <2>3 DEF Handle
<1>7. ASSUME UpdateConversation PROVE OnceBuffered'
  BY <1>7 DEF UpdateConversation
<1>8. CASE UNCHANGED vars
  BY <1>8 DEF vars
<1> QED BY <1>1, <1>2, <1>3, <1>4, <1>5, <1>6, <1>7, <1>8 DEF Next

\* Every step keeps OnceTaken.
LEMMA OnceTakenNext ==
  Types /\ OnceBuffered /\ OnceTaken /\ [Next]_vars => OnceTaken'
<1> SUFFICES ASSUME Types, OnceBuffered, OnceTaken, [Next]_vars PROVE OnceTaken'
  OBVIOUS
<1> USE DEF OnceTaken, Buffered, Batched
<1>1. ASSUME NEW m \in Messages, ReadConversation(m) PROVE OnceTaken'
  BY <1>1 DEF ReadConversation
<1>2. ASSUME NEW m \in Messages, Ingest(m) PROVE OnceTaken'
  <2>1. CASE StoreMessage(m)
    BY <2>1 DEF StoreMessage
  <2>2. CASE Reactivate(m)
    <3>1. \A u \in Messages : pc[u] = "done" => pc'[u] = "done"
      BY <2>2 DEF Reactivate, Types, IngestTypes
    <3>2. \A u \in Messages : Buffered(u) \subseteq Messages /\ Batched(u) \subseteq Messages
      BY ToSetType DEF Types, StateTypes, TurnTypes, Buffered, Batched
    <3>3. buffer' = buffer /\ batch' = batch
      BY <2>2 DEF Reactivate
    <3> QED BY <3>1, <3>2, <3>3
  <2>3. CASE FindState(m)
    BY <2>3 DEF FindState
  <2>4. CASE EnqueueMessage(m)
    <3> HIDE DEF Buffered, Batched
    <3>1. PICK s \in Messages : s = holds[m] /\ pc[m] = "append"
      BY <2>4 DEF EnqueueMessage, Types, IngestTypes
    <3>2. /\ buffer[s] \in Seq(Messages) /\ buffer'[s] = Append(buffer[s], m)
          /\ \A u \in Messages : u # s => buffer'[u] = buffer[u]
      BY <2>4, <3>1 DEF EnqueueMessage, Types, StateTypes
    <3>3. \A u \in Messages : pc[u] = "done" => pc'[u] = "done"
      BY <2>4 DEF EnqueueMessage, Types, IngestTypes
    <3>4. \A u \in Messages : m \notin Batched(u)
      BY <3>1
    <3>5. \A u \in Messages : Buffered(u)' \subseteq Buffered(u) \union {m}
      <4>1. ToSet(buffer'[s]) = ToSet(buffer[s]) \union {m}
        BY <3>2, ToSetAppend
      <4> QED BY <3>2, <4>1 DEF Buffered
    <3>6. batch' = batch
      BY <2>4 DEF EnqueueMessage, turns
    <3>7. \A u \in Messages : Batched(u)' = Batched(u) /\ Batched(u) \subseteq Messages
      BY <3>6, ToSetType DEF Batched, Types, TurnTypes
    <3> QED BY <3>3, <3>4, <3>5, <3>6, <3>7
  <2> QED BY <1>2, <2>1, <2>2, <2>3, <2>4 DEF Ingest
<1>3. ASSUME NEW m \in Messages, Process(m) PROVE OnceTaken'
  <2>1. CASE Fire(m)
    BY <2>1 DEF Fire
  <2>2. CASE LookUpState(m)
    BY <2>2 DEF LookUpState
  <2>3. CASE NothingBuffered(m)
    BY <2>3 DEF NothingBuffered
  <2>4. CASE TakeBatch(m)
    <3> HIDE DEF Buffered, Batched
    <3>0. PICK s \in Messages : s = target[m]
      BY <2>4 DEF TakeBatch, Types, ProcessTypes
    <3>1. batch'[m] = buffer[s] /\ \A u \in Messages : u # m => batch'[u] = batch[u]
      BY <2>4, <3>0 DEF TakeBatch, Types, TurnTypes
    <3>2. buffer'[s] = <<>> /\ \A u \in Messages : u # s => buffer'[u] = buffer[u]
      BY <2>4, <3>0 DEF TakeBatch, Types, StateTypes
    <3>3. Batched(m)' = Buffered(s) /\ IsInjective(batch'[m])
      BY <3>1 DEF Batched, Buffered, OnceBuffered
    <3>4. \A u \in Messages : u # m => Batched(u)' = Batched(u)
      BY <3>1 DEF Batched
    <3>5. Buffered(s)' = {}
      BY <3>2, EmptySequence DEF Buffered
    <3>6. \A u \in Messages : u # s => Buffered(u)' = Buffered(u)
      BY <3>2 DEF Buffered
    <3>7. pc' = pc
      BY <2>4 DEF TakeBatch, ingestion
    <3>8. \A u \in Messages : IsInjective(batch'[u])
      BY <3>1, <3>3
    <3>9. \A u \in Messages : \A x \in Batched(u)' : pc'[x] = "done"
      BY <3>3, <3>4, <3>7 DEF OnceBuffered
    <3>10. \A u, v \in Messages : u # v => Batched(u)' \intersect Batched(v)' = {}
      BY <3>3, <3>4
    <3>11. \A u, v \in Messages : Buffered(u)' \intersect Batched(v)' = {}
      BY <3>3, <3>4, <3>5, <3>6 DEF OnceBuffered
    <3> QED BY <3>8, <3>9, <3>10, <3>11
  <2>5. CASE ResetGeneration(m)
    BY <2>5 DEF ResetGeneration
  <2> QED BY <1>3, <2>1, <2>2, <2>3, <2>4, <2>5 DEF Process
<1>4. ASSUME NEW t \in Messages, Turn(t) PROVE OnceTaken'
  BY <1>4 DEF Turn, TurnFails, CheckActive, TransferToHuman, Generate, TypeBubble, SendBubble,
       Advance
<1>5. ASSUME NEW o \in Operators, SendManualMessage(o) PROVE OnceTaken'
  BY <1>5 DEF SendManualMessage
<1>6. ASSUME NEW o \in Operators, Handle(o) PROVE OnceTaken'
  <2>1. CASE RemoveState(o)
    BY <2>1 DEF RemoveState, Running
  <2>2. CASE Cancel(o)
    <3> HIDE DEF Buffered, Batched
    <3>0. PICK s \in Messages : s = found[o]
      BY <2>2 DEF Cancel, Types, HandlerTypes
    <3>1. \A u \in Messages : Buffered(u)' \subseteq Buffered(u)
      BY <2>2, <3>0, EmptySequence DEF Cancel, Types, StateTypes, Buffered
    <3>2. \A u \in Messages : Batched(u)' = Batched(u) /\ batch'[u] = batch[u]
      BY <2>2 DEF Cancel, Batched
    <3> QED BY <2>2, <3>1, <3>2 DEF Cancel
  <2>3. CASE PauseAI(o)
    BY <2>3 DEF PauseAI
  <2> QED BY <1>6, <2>1, <2>2, <2>3 DEF Handle
<1>7. ASSUME UpdateConversation PROVE OnceTaken'
  BY <1>7 DEF UpdateConversation
<1>8. CASE UNCHANGED vars
  BY <1>8 DEF vars
<1> QED BY <1>1, <1>2, <1>3, <1>4, <1>5, <1>6, <1>7, <1>8 DEF Next

-----------------------------------------------------------------------------
\* The strengthened invariant holds of every behaviour.
LEMMA Inductive == Spec => []IInv
<1>1. Init => IInv
  <2> SUFFICES ASSUME Init PROVE IInv
    OBVIOUS
  <2> USE DEF Init
  <2>1. IngestTypes /\ ProcessTypes /\ HandlerTypes
    BY DEF IngestTypes, ProcessTypes, HandlerTypes
  <2>2. StateTypes /\ TurnTypes
    BY ConstantsAssumption DEF StateTypes, TurnTypes
  <2>3. Placed /\ Timed
    BY DEF Placed, Timed
  <2>4. OnceBuffered /\ OnceTaken
    BY EmptySequence DEF OnceBuffered, OnceTaken, Buffered, Batched
  <2>5. Begun
    BY DEF Begun
  <2> QED BY <2>1, <2>2, <2>3, <2>4, <2>5 DEF IInv, Types
<1>2. IInv /\ [Next]_vars => IInv'
  BY IngestTypesNext, StateTypesNext, ProcessTypesNext, TurnTypesNext, HandlerTypesNext,
     PlacedNext, BegunNext, TimedNext, OnceBufferedNext, OnceTakenNext DEF IInv, Types
<1> QED BY <1>1, <1>2, PTL DEF Spec

\* Every variable keeps its type: no ingestion, timer or operator works on a
\* state that was never made, and no turn sends a bubble it does not have.
THEOREM TypeCorrect == Spec => []TypeOK
<1>1. IInv => TypeOK
  BY DEF IInv, Types, IngestTypes, StateTypes, ProcessTypes, TurnTypes, HandlerTypes, TypeOK
<1> QED BY <1>1, Inductive, PTL

\* However ingestions, timers and operators interleave, a message of the client
\* is taken by one turn, once, and is not buffered after that.
THEOREM NothingAnsweredTwiceCorrect == Spec => []NothingAnsweredTwice
<1>1. IInv => NothingAnsweredTwice
  BY DEF IInv, OnceTaken, Buffered, Batched, NothingAnsweredTwice, Waiting, Taken
<1> QED BY <1>1, Inductive, PTL

\* A message in the conversation's state has a timer to wait for, or a
\* processConversation about to take it.
THEOREM BufferedHasTimerCorrect == Spec => []BufferedHasTimer
<1>1. IInv => BufferedHasTimer
  BY DEF IInv, Timed, Types, StateTypes, BufferedHasTimer
<1> QED BY <1>1, Inductive, PTL

-----------------------------------------------------------------------------
(* The promise of ChatAnswers. *)

\* What ChatAnswers sees, apart from the state of the turns and the operators.
Batches == [t \in Messages |-> ToSet(batch[t])]
Turns == [t \in Messages |-> TurnSeen(t)]
Calls == [o \in Operators |-> CancelSeen(o)]

\* Where the buffers stay what they are, so does what waits in them.
LEMMA WaitingIs ==
  /\ \A x : x \in Waiting <=> \E s \in Messages : x \in Buffered(s)
  /\ \A x : x \in Waiting' <=> \E s \in Messages : x \in Buffered(s)'
BY DEF Waiting, Buffered

\* An enqueued message waits, where it did not.
LEMMA HearImplements ==
  ASSUME IInv, NEW m \in Messages, EnqueueMessage(m)
  PROVE Answers!Hear(m)
<1> USE DEF IInv, Types, IngestTypes, StateTypes, ProcessTypes, TurnTypes
<1>0. PICK s \in Messages : s = holds[m]
  BY DEF EnqueueMessage
<1>1. m \notin Enqueued /\ Enqueued' = Enqueued \union {m}
  BY <1>0, ConstantsAssumption DEF EnqueueMessage, Enqueued
<1>2. Buffered(s)' = Buffered(s) \union {m} /\ \A u \in Messages : u # s => Buffered(u)' = Buffered(u)
  BY <1>0, ToSetAppend DEF EnqueueMessage, Buffered
<1>3. Waiting' = Waiting \union {m}
  <2> HIDE DEF Buffered
  <2>1. ASSUME NEW x \in Waiting' PROVE x \in Waiting \union {m}
    <3>1. PICK u \in Messages : x \in Buffered(u)'
      BY <2>1, WaitingIs
    <3>2. x \in Buffered(u) \union {m}
      <4>1. CASE u = s
        BY <1>2, <3>1, <4>1
      <4>2. CASE u # s
        BY <1>2, <3>1, <4>2
      <4> QED BY <4>1, <4>2
    <3> QED BY <3>2, WaitingIs
  <2>2. ASSUME NEW x \in Waiting PROVE x \in Waiting'
    <3>1. PICK u \in Messages : x \in Buffered(u)
      BY <2>2, WaitingIs
    <3>2. x \in Buffered(u)'
      BY <1>2, <3>1
    <3> QED BY <3>2, WaitingIs
  <2>3. m \in Waiting'
    BY <1>2, WaitingIs
  <2> QED BY <2>1, <2>2, <2>3
<1>4. UNCHANGED <<Batches, Turns, left, Calls>>
  BY DEF EnqueueMessage, Batches, Turns, Calls, TurnSeen, CancelSeen
<1> QED BY <1>1, <1>3, <1>4 DEF Answers!Hear, Batches, Turns, Calls

\* A batch is taken from what waits, which it leaves.
LEMMA BeginImplements ==
  ASSUME IInv, NEW m \in Messages, TakeBatch(m)
  PROVE Answers!Begin(m)
<1> USE DEF IInv, Types, IngestTypes, StateTypes, ProcessTypes, TurnTypes
<1>0. PICK s \in Messages : s = target[m]
  BY DEF TakeBatch
<1>1. turn[m] = "none" /\ turn' = [turn EXCEPT ![m] = "check"]
  BY DEF TakeBatch, Begun
<1>2. Turns[m] = "none" /\ Turns' = [Turns EXCEPT ![m] = "thinking"]
  BY <1>1 DEF Turns, TurnSeen
<1>3. Batches' = [Batches EXCEPT ![m] = Buffered(s)]
  BY <1>0 DEF TakeBatch, Batches, Buffered
<1>4. Buffered(s)' = {} /\ \A u \in Messages : u # s => Buffered(u)' = Buffered(u)
  BY <1>0, EmptySequence DEF TakeBatch, Buffered
<1>5. Buffered(s) # {}
  <2>1. buffer[s] \in Seq(Messages) /\ buffer[s] # <<>>
    BY <1>0 DEF TakeBatch
  <2>2. 1 \in DOMAIN buffer[s]
    BY <2>1
  <2>3. buffer[s][1] \in Buffered(s)
    BY <2>2 DEF Buffered, ToSet
  <2> QED BY <2>3
<1>6. Buffered(s) \subseteq Waiting /\ Waiting' = Waiting \ Buffered(s)
  <2>1. \A u \in Messages : u # s => Buffered(u) \intersect Buffered(s) = {}
    BY DEF OnceBuffered
  <2> HIDE DEF Buffered
  <2>2. \A x : x \in Buffered(s) => x \in Waiting
    BY WaitingIs
  <2>3. \A x : x \in Waiting' <=> x \in Waiting /\ x \notin Buffered(s)
    <3>1. ASSUME NEW x, NEW u \in Messages, x \in Buffered(u)'
          PROVE x \in Waiting /\ x \notin Buffered(s)
      <4>1. u # s /\ x \in Buffered(u)
        BY <1>4, <3>1
      <4> QED BY <2>1, <4>1, WaitingIs
    <3>2. ASSUME NEW x, NEW u \in Messages, x \in Buffered(u), x \notin Buffered(s)
          PROVE x \in Waiting'
      <4>1. x \in Buffered(u)'
        BY <1>4, <3>2
      <4> QED BY <4>1, WaitingIs
    <3> QED BY <3>1, <3>2, WaitingIs
  <2> QED BY <2>2, <2>3
<1>7. UNCHANGED <<Enqueued, left, Calls>>
  BY DEF TakeBatch, Enqueued, Calls, CancelSeen
<1> HIDE DEF Buffered
<1> HIDE DEF IInv, Types, IngestTypes, StateTypes, ProcessTypes, TurnTypes
<1>8. Buffered(s) \in (SUBSET Waiting) \ {{}}
  <2>1. Buffered(s) \in SUBSET Waiting
    BY <1>6
  <2> QED BY <1>5, <2>1
<1> QED BY <1>2, <1>3, <1>6, <1>7, <1>8 DEF Answers!Begin, Batches, Turns, Calls

\* A turn composes, says, gives up, or goes on unseen.
LEMMA TurnImplements ==
  ASSUME IInv, NEW t \in Messages, Turn(t)
  PROVE Answers!Compose(t) \/ Answers!Say(t) \/ Answers!GiveUp(t) \/ UNCHANGED Answers!vars
<1> USE DEF IInv, Types, TurnTypes
<1>1. UNCHANGED <<Enqueued, Waiting, Batches, Calls>>
  <2>1. UNCHANGED <<pc, holds, buffer, batch, human>>
    BY DEF Turn, TurnFails, CheckActive, TransferToHuman, Generate, TypeBubble, SendBubble
  <2> QED BY <2>1 DEF Enqueued, Waiting, Batches, Calls, CancelSeen
<1>2. turn[t] # "none"
  BY DEF Turn, TurnFails, CheckActive, TransferToHuman, Generate, TypeBubble, SendBubble, Running
<1>3. ASSUME NEW l \in {"check", "generate", "typing", "send", "done"},
             turn' = [turn EXCEPT ![t] = l]
      PROVE Turns' = [Turns EXCEPT ![t] = CASE l \in {"check", "generate"} -> "thinking"
                                            [] l \in {"typing", "send"} -> "saying"
                                            [] OTHER -> "over"]
  BY <1>3 DEF Turns, TurnSeen
<1>4. /\ turn[t] \in {"check", "generate"} => Turns[t] = "thinking"
      /\ turn[t] \in {"typing", "send"} => Turns[t] = "saying"
  BY DEF Turns, TurnSeen
<1>5. Turns = [Turns EXCEPT ![t] = Turns[t]]
  BY DEF Turns
<1>6. \/ Turns[t] = "thinking" /\ Turns' = [Turns EXCEPT ![t] = "saying"]
         /\ \E n \in 1..MaxBubbles : left' = [left EXCEPT ![t] = n]
      \/ /\ Turns[t] = "saying" /\ left[t] > 0 /\ left' = [left EXCEPT ![t] = @ - 1]
         /\ Turns' = [Turns EXCEPT ![t] = IF left[t] > 1 THEN "saying" ELSE "over"]
      \/ /\ Turns[t] \in {"thinking", "saying"} /\ left' = left
         /\ Turns' = [Turns EXCEPT ![t] = "over"]
      \/ Turns' = Turns /\ left' = left
  <2>1. CASE TurnFails(t)
    <3>1. turn[t] \in {"check", "generate", "typing", "send"}
          /\ turn' = [turn EXCEPT ![t] = "done"] /\ left' = left
      BY <2>1 DEF TurnFails, Advance, Running
    <3>2. Turns' = [Turns EXCEPT ![t] = "over"]
      BY <3>1, <1>3
    <3> QED BY <3>1, <3>2, <1>4
  <2>2. CASE CheckActive(t) /\ aiActive
    <3>1. turn[t] = "check" /\ turn' = [turn EXCEPT ![t] = "generate"] /\ left' = left
      BY <2>2 DEF CheckActive, Advance
    <3>2. Turns' = [Turns EXCEPT ![t] = "thinking"]
      BY <3>1, <1>3
    <3> QED BY <3>1, <3>2, <1>4, <1>5
  <2>3. CASE CheckActive(t) /\ ~aiActive
    <3>1. turn[t] = "check" /\ turn' = [turn EXCEPT ![t] = "done"] /\ left' = left
      BY <2>3 DEF CheckActive, Advance
    <3>2. Turns' = [Turns EXCEPT ![t] = "over"]
      BY <3>1, <1>3
    <3> QED BY <3>1, <3>2, <1>4
  <2>4. CASE TransferToHuman(t)
    <3>1. turn' = turn /\ left' = left
      BY <2>4 DEF TransferToHuman
    <3> QED BY <3>1 DEF Turns, TurnSeen
  <2>5. CASE Generate(t)
    <3>1. turn[t] = "generate" /\ turn' = [turn EXCEPT ![t] = "typing"]
          /\ \E n \in 1..MaxBubbles : left' = [left EXCEPT ![t] = n]
      BY <2>5 DEF Generate, Advance
    <3>2. Turns' = [Turns EXCEPT ![t] = "saying"]
      BY <3>1, <1>3
    <3> QED BY <3>1, <3>2, <1>4
  <2>6. CASE TypeBubble(t)
    <3>1. turn[t] = "typing" /\ turn' = [turn EXCEPT ![t] = "send"] /\ left' = left
      BY <2>6 DEF TypeBubble, Advance
    <3>2. Turns' = [Turns EXCEPT ![t] = "saying"]
      BY <3>1, <1>3
    <3> QED BY <3>1, <3>2, <1>4, <1>5
  <2>7. CASE SendBubble(t) /\ left[t] > 1
    <3>1. turn[t] = "send" /\ turn' = [turn EXCEPT ![t] = "typing"]
          /\ left' = [left EXCEPT ![t] = @ - 1]
      BY <2>7 DEF SendBubble, Advance
    <3>2. Turns' = [Turns EXCEPT ![t] = "saying"]
      BY <3>1, <1>3
    <3> QED BY <2>7, <3>1, <3>2, <1>4
  <2>8. CASE SendBubble(t) /\ ~(left[t] > 1)
    <3>1. turn[t] = "send" /\ turn' = [turn EXCEPT ![t] = "done"]
          /\ left' = [left EXCEPT ![t] = @ - 1]
      BY <2>8 DEF SendBubble, Advance
    <3>2. Turns' = [Turns EXCEPT ![t] = "over"]
      BY <3>1, <1>3
    <3> QED BY <2>8, <3>1, <3>2, <1>4
  <2> QED BY <2>1, <2>2, <2>3, <2>4, <2>5, <2>6, <2>7, <2>8 DEF Turn
<1>7. UNCHANGED <<Enqueued, Waiting, [u \in Messages |-> ToSet(batch[u])],
                  [o \in Operators |-> CancelSeen(o)]>>
  BY <1>1 DEF Batches, Calls
<1> HIDE DEF IInv, Types, TurnTypes
<1> QED
  BY <1>6, <1>7 DEF Turns, Answers!Compose, Answers!Say, Answers!GiveUp, Answers!vars

\* An operator's handler calls messages off once, if its Cancel finds any.
LEMMA HandleImplements ==
  ASSUME IInv, NEW o \in Operators, Handle(o)
  PROVE Answers!CallOff(o) \/ UNCHANGED Answers!vars
<1> USE DEF IInv, Types, IngestTypes, StateTypes, TurnTypes, HandlerTypes
<1>1. UNCHANGED <<Enqueued, [t \in Messages |-> ToSet(batch[t])],
                  [t \in Messages |-> TurnSeen(t)], left>>
  <2>1. UNCHANGED <<pc, holds, batch, turn, left>>
    BY DEF Handle, RemoveState, Cancel, PauseAI
  <2> QED BY <2>1 DEF Enqueued, TurnSeen
<1>2. CASE RemoveState(o) /\ current # "none"
  <2>1. Calls' = Calls
    BY <1>2 DEF RemoveState, Calls, CancelSeen
  <2>2. Waiting' = Waiting
    BY <1>2 DEF RemoveState, Waiting
  <2> QED BY <1>1, <2>1, <2>2 DEF Calls, Answers!vars
<1>3. CASE RemoveState(o) /\ current = "none"
  <2>1. Calls[o] = "under way" /\ Calls' = [Calls EXCEPT ![o] = "over"]
    BY <1>3 DEF RemoveState, Calls, CancelSeen
  <2>2. Waiting' = Waiting
    BY <1>3 DEF RemoveState, Waiting
  <2> QED BY <1>1, <2>1, <2>2 DEF Calls, Answers!CallOff
<1>4. CASE Cancel(o)
  <2>1. Calls[o] = "under way" /\ Calls' = [Calls EXCEPT ![o] = "over"]
    BY <1>4 DEF Cancel, Calls, CancelSeen
  <2>2. PICK s \in Messages : s = found[o]
    BY <1>4 DEF Cancel
  <2>3. \A u \in Messages : Buffered(u)' \subseteq Buffered(u)
    BY <1>4, <2>2, EmptySequence DEF Cancel, Buffered
  <2>4. Waiting' \subseteq Waiting
    <3> HIDE DEF Buffered
    <3> QED BY <2>3, WaitingIs
  <2> QED BY <1>1, <2>1, <2>4 DEF Calls, Answers!CallOff
<1>5. CASE PauseAI(o)
  <2>1. Calls' = Calls
    BY <1>5 DEF PauseAI, Calls, CancelSeen
  <2>2. Waiting' = Waiting
    BY <1>5 DEF PauseAI, Waiting
  <2> QED BY <1>1, <2>1, <2>2 DEF Calls, Answers!vars
<1> QED BY <1>2, <1>3, <1>4, <1>5 DEF Handle

\* The rest of ingestion and of processConversation, and the switch in the panel, are
\* not seen.
LEMMA UnseenImplements ==
  ASSUME IInv, NEW m \in Messages,
         \/ ReadConversation(m) \/ StoreMessage(m) \/ Reactivate(m) \/ FindState(m)
         \/ Fire(m) \/ LookUpState(m) \/ NothingBuffered(m) \/ ResetGeneration(m)
  PROVE UNCHANGED Answers!vars
<1> USE DEF IInv, Types, IngestTypes
<1>1. UNCHANGED <<buffer, batch, turn, left, human>>
  BY DEF ReadConversation, StoreMessage, Reactivate, FindState, Fire, LookUpState,
     NothingBuffered, ResetGeneration
<1>2. Enqueued' = Enqueued
  <2>1. CASE Fire(m) \/ LookUpState(m) \/ NothingBuffered(m) \/ ResetGeneration(m)
    BY <2>1 DEF Fire, LookUpState, NothingBuffered, ResetGeneration, Enqueued
  <2>2. CASE ReadConversation(m) \/ StoreMessage(m)
    BY <2>2 DEF ReadConversation, StoreMessage, Enqueued
  <2>3. CASE Reactivate(m)
    <3>1. pc[m] = "stored" /\ holds' = holds
          /\ \E label \in {"enqueue", "done"} : pc' = [pc EXCEPT ![m] = label]
      BY <2>3 DEF Reactivate
    <3>2. holds[m] = "none"
      BY <3>1 DEF Begun
    <3> QED BY <3>1, <3>2 DEF Enqueued
  <2>4. CASE FindState(m)
    BY <2>4 DEF FindState, Enqueued
  <2> QED BY <2>1, <2>2, <2>3, <2>4
<1> QED BY <1>1, <1>2 DEF Answers!vars, Waiting, TurnSeen, CancelSeen

\* The chat agent keeps the promise of ChatAnswers, step by step: an enqueued
\* message leaves the buffers only into the one turn that answers it, or because an
\* operator's Cancel threw it away; a turn begins once and says MaxBubbles at most.
THEOREM ImplementsAnswersCorrect == Spec => ImplementsAnswers
<1>1. Init => Answers!Init
  BY EmptySequence DEF Init, Answers!Init, Enqueued, Waiting, TurnSeen, CancelSeen
<1>2. ASSUME IInv, [Next]_vars PROVE [Answers!Next]_(Answers!vars)
  <2>1. ASSUME NEW m \in Messages, ReadConversation(m) \/ Ingest(m) \/ Process(m)
        PROVE [Answers!Next]_(Answers!vars)
    BY <1>2, <2>1, HearImplements, BeginImplements, UnseenImplements
       DEF Ingest, Process, Answers!Next
  <2>2. ASSUME NEW t \in Messages, Turn(t) PROVE [Answers!Next]_(Answers!vars)
    BY <1>2, <2>2, TurnImplements DEF Answers!Next
  <2>3. ASSUME NEW o \in Operators, SendManualMessage(o) PROVE [Answers!Next]_(Answers!vars)
    <3>1. Calls[o] = "none" /\ Calls' = [Calls EXCEPT ![o] = "under way"]
      BY <1>2, <2>3 DEF SendManualMessage, Calls, CancelSeen, IInv, Types, HandlerTypes
    <3>2. UNCHANGED <<Enqueued, Waiting, [t \in Messages |-> ToSet(batch[t])],
                      [t \in Messages |-> TurnSeen(t)], left>>
      BY <2>3 DEF SendManualMessage, Enqueued, Waiting, TurnSeen
    <3> QED BY <3>1, <3>2 DEF Calls, Answers!Interrupt, Answers!Next
  <2>4. ASSUME NEW o \in Operators, Handle(o) PROVE [Answers!Next]_(Answers!vars)
    BY <1>2, <2>4, HandleImplements DEF Answers!Next
  <2>5. CASE UpdateConversation \/ UNCHANGED vars
    BY <2>5 DEF UpdateConversation, vars, Answers!vars, Enqueued, Waiting, TurnSeen, CancelSeen
  <2> QED BY <1>2, <2>1, <2>2, <2>3, <2>4, <2>5 DEF Next
<1> QED BY <1>1, <1>2, Inductive, PTL DEF Spec, ImplementsAnswers, Answers!Spec
==============================================================================
