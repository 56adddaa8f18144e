SPECIFICATION LiveSpec
CONSTANTS
  r1 = r1  r2 = r2  r3 = r3  f1 = f1  s1 = s1
  Rows <- ThreeRows
  Flushers <- OnlyF1
  Closers <- NoCall
  ChannelCapacity = 2
  StagingCapacity = 3
  FlushMaxRows = 2
  MaxMessageBytes = 1
  Timer = TRUE
  Attempts = 2
  DepthModulus = 4
  Bytes <- BigR2
  Poison <- OnlyR3
  Refused <- NoCall
  Faulty = FALSE
PROPERTY RowsLeaveBuffer
CHECK_DEADLOCK FALSE
