SPECIFICATION SessionSpec
CONSTANTS
  Client   = {c1, c2}
  Event   <- MCEvent
  Counter  = {k}
  NsName   = {A, B}
  NsObj    = {o1, o2, o3}
  None     = None
  Absent   = Absent
  MaxCalls = 5
INVARIANTS
  SessionTypeOK
  QuietMeansCurrent
PROPERTIES
  AllLearn
CHECK_DEADLOCK FALSE
