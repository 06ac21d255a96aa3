----------------------------- MODULE ChatAnswers -----------------------------
(***************************************************************************)
(* What the chat agent promises the client and the operators of one        *)
(* conversation.  A message it has taken in waits until one turn of the AI *)
(* takes it, with all that turn answers, or until an operator who writes   *)
(* to the client calls it off; nothing else makes it go away, and it never *)
(* comes back.  A turn answers something, begins once, and sends at most   *)
(* MaxBubbles bubbles.                                                     *)
(*                                                                         *)
(* The agent itself, with its goroutines, states and timers, is            *)
(* ChatDebounce, which is shown to implement this module.                  *)
(***************************************************************************)
EXTENDS Naturals

CONSTANTS Messages, Operators, MaxBubbles

VARIABLES heard,   \* the messages the agent was ever given
          waiting, \* those that no turn has taken
          answers, \* the messages each turn answers
          turn,    \* of each turn: "none", "thinking", "saying" or "over"
          left,    \* the bubbles it has yet to send
          call     \* of each operator: "none", "under way" or "over"

vars == <<heard, waiting, answers, turn, left, call>>

Init ==
  /\ heard = {} /\ waiting = {} /\ answers = [t \in Messages |-> {}]
  /\ turn = [t \in Messages |-> "none"] /\ left = [t \in Messages |-> 0]
  /\ call = [o \in Operators |-> "none"]

\* The client's message m reaches the agent.
Hear(m) ==
  /\ m \notin heard
  /\ heard' = heard \union {m} /\ waiting' = waiting \union {m}
  /\ UNCHANGED <<answers, turn, left, call>>

\* Turn t begins, for some of the messages that wait.
Begin(t) ==
  /\ turn[t] = "none" /\ turn' = [turn EXCEPT ![t] = "thinking"]
  /\ \E S \in (SUBSET waiting) \ {{}} :
       /\ answers' = [answers EXCEPT ![t] = S]
       /\ waiting' = waiting \ S
  /\ UNCHANGED <<heard, left, call>>

\* The model has answered.
Compose(t) ==
  /\ turn[t] = "thinking" /\ turn' = [turn EXCEPT ![t] = "saying"]
  /\ \E n \in 1..MaxBubbles : left' = [left EXCEPT ![t] = n]
  /\ UNCHANGED <<heard, waiting, answers, call>>

\* A bubble goes out; the turn is over with its last.
Say(t) ==
  /\ turn[t] = "saying" /\ left[t] > 0
  /\ left' = [left EXCEPT ![t] = @ - 1]
  /\ turn' = [turn EXCEPT ![t] = IF left[t] > 1 THEN "saying" ELSE "over"]
  /\ UNCHANGED <<heard, waiting, answers, call>>

\* The turn fails, is cancelled, or finds the AI paused.
GiveUp(t) ==
  /\ turn[t] \in {"thinking", "saying"} /\ turn' = [turn EXCEPT ![t] = "over"]
  /\ UNCHANGED <<heard, waiting, answers, left, call>>

\* An operator writes to the client...
Interrupt(o) ==
  /\ call[o] = "none" /\ call' = [call EXCEPT ![o] = "under way"]
  /\ UNCHANGED <<heard, waiting, answers, turn, left>>

\* ...which calls messages off, once.
CallOff(o) ==
  /\ call[o] = "under way" /\ call' = [call EXCEPT ![o] = "over"]
  /\ waiting' \subseteq waiting
  /\ UNCHANGED <<heard, answers, turn, left>>

Next ==
  \/ \E m \in Messages :
       Hear(m) \/ Begin(m) \/ Compose(m) \/ Say(m) \/ GiveUp(m)
  \/ \E o \in Operators : Interrupt(o) \/ CallOff(o)

Spec == Init /\ [][Next]_vars
==============================================================================
