SPECIFICATION Spec
CONSTANTS
  Operators = {o1}
  Relays = {r1}
INVARIANTS
  TypeOK
  WatchdogArmedExactly
  NoLostActivation
  StateReachesListeners
  AudioReady
  EndedIsClean
PROPERTIES
  ImplementsLifecycle
  DeadCallEnds
  OpenRelayActivates
CHECK_DEADLOCK FALSE
