SPECIFICATION Spec
CONSTANTS
  Byte        = {0, 1, 2, 3, 4, 5, 6, 7, 8, 17, 24}
  Junk        = Junk
  InitialSize = 4
  Limit       = 4
  Streams    <- MCStreams
  Calls      <- MCCalls
INVARIANTS
  TypeOK
  UnreadIsNext
  OnlyLeaversDisconnected
  MemoryBounded
  FramingExact
  CallsUnderstood
  WaitsForMore
CHECK_DEADLOCK FALSE
