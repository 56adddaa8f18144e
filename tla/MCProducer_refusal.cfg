SPECIFICATION Spec
CONSTANTS
  r1 = r1  r2 = r2  r3 = r3  f1 = f1  s1 = s1
  Rows <- TwoRows
  Flushers <- NoCall
  Closers <- OnlyS1
  ChannelCapacity = 2
  StagingCapacity = 2
  FlushMaxRows = 1
  MaxMessageBytes = 2
  Timer = FALSE
  Attempts = 3
  DepthModulus = 8
  Bytes <- Even
  Poison <- NoCall
  Refused <- OnlyR1
  Faulty = FALSE
INVARIANT RefusalHoldsUpNoOther
CHECK_DEADLOCK FALSE
