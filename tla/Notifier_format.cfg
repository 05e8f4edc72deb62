SPECIFICATION NotifierSpec
CONSTANTS
  Byte        = {0, 1, 2, 3, 4, 5, 6}
  Junk        = Junk
  InitialSize = 8
  Limit       = 65535
  Streams    <- MCStreams
  Notice     <- MCNotices
  Room        = 12
  MaxNotices  = 3
INVARIANTS
  FormatKept
CHECK_DEADLOCK FALSE
