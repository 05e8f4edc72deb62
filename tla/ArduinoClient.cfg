SPECIFICATION Spec
CONSTANTS
  Event       <- MCEvent
  Counter     <- MCCounter
  Space        = Space
  Callback     = {f}
  MaxListeners = 2
  MaxOnWay     = 2
  Notice      <- MCNotices
  Window       = 4
  MaxNotices   = 2
  MaxDepth     = 2
INVARIANTS
  TypeOK
  SubscriptionsAgree
  NoticesInOrder
PROPERTIES
  NoticesProcessed
