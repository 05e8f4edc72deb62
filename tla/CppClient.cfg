SPECIFICATION Spec
CONSTANTS
  Event        = {e}
  Counter      = {k}
  Space        = Space
  Callback     = {f, g}
  NoName       = NoName
  MaxListeners = 2
  MaxOnWay     = 2
SYMMETRY Symmetric
INVARIANTS
  TypeOK
  SubscriptionsAgree
  CountersTold
  EachCalledOnce
  StopsInRun
CHECK_DEADLOCK FALSE
