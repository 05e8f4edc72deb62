SPECIFICATION Spec
CONSTANTS
  Event        = {m}
  Counter      = {n}
  Space        = Space
  Callback     = {f}
  NoName       = NoName
  MaxListeners = 2
  MaxOnWay     = 2
  MaxNotices   = 2
PROPERTIES
  RunCallsListeners
CHECK_DEADLOCK FALSE
