SPECIFICATION Spec
CONSTANTS
  Peer       = {p1, p2, p3}
  MaxFd      = 2
  MaxPending = 1
  MaxSent    = 2
INVARIANTS
  TypeOK
  ReadyStaysReady
PROPERTIES
  InputServed
  LeaverRemoved
  ConnectorAccepted
CHECK_DEADLOCK FALSE
