SPECIFICATION Spec
CONSTANTS
  Event        = {e}
  Counter      = {k}
  Space        = Space
  Callback     = {f}
  NoName       = NoName
  MaxListeners = 1
  MaxOnWay     = 2
INVARIANTS
  StopsAfterNext
CHECK_DEADLOCK FALSE
