SPECIFICATION VoiceSpec
CONSTANTS
  a1 = a1
  a2 = a2
  Agents = {a1, a2}
  NoAgent = NoAgent
INVARIANTS VoiceTypeOK OperatorHeard
PROPERTIES ButtonReturns HangupHonoured
CHECK_DEADLOCK FALSE
