SPECIFICATION Spec
CONSTANTS
  MaxClients = 2
  MaxSignals = 4
INVARIANTS
  TypeOK
  UnixBindFails
  LoopNeverResumes
PROPERTIES
  SignalEnds
CHECK_DEADLOCK FALSE
