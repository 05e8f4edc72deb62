SPECIFICATION Spec
CONSTANTS
  Event        = {m}
  Counter      = {n}
  Space        = Space
  Callback     = {f, g}
  NoName       = NoName
  MaxListeners = 2
  MaxOnWay     = 2
  MaxNotices   = 2
INVARIANTS
  TypeOK
  AgreeUnlessRefused
  SpinsOnlyAfterRemoval
PROPERTIES
  ListenersCalled
CHECK_DEADLOCK FALSE
