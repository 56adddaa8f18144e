SPECIFICATION LiveSpec
CONSTANTS
  r1 = r1  r2 = r2  r3 = r3  f1 = f1  s1 = s1
  Rows <- TwoRows
  Flushers <- OnlyF1
  Closers <- OnlyS1
  ChannelCapacity = 1
  StagingCapacity = 1
  FlushMaxRows = 1
  MaxMessageBytes = 2
  Timer = TRUE
  Attempts = 2
  DepthModulus = 4
  Bytes <- Even
  Poison <- NoCall
  Refused <- OnlyR1
  Faulty = TRUE
PROPERTY CallsReturn
CHECK_DEADLOCK FALSE
