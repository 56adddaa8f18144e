SPECIFICATION Spec
CONSTANTS
  r1 = r1  r2 = r2  r3 = r3  f1 = f1  s1 = s1
  Rows <- ThreeRows
  Flushers <- OnlyF1
  Closers <- OnlyS1
  ChannelCapacity = 2
  StagingCapacity = 2
  FlushMaxRows = 2
  MaxMessageBytes = 2
  Timer = TRUE
  Attempts = 2
  DepthModulus = 8
  Bytes <- BigR2
  Poison <- OnlyR3
  Refused <- NoCall
  Faulty = TRUE
INVARIANTS TypeOK Conservation OneRequestPerBatch CountersBalance DepthLag HeldRowLands OkMeansDelivered
PROPERTY KeepsLedger
CHECK_DEADLOCK FALSE
