SPECIFICATION ComponentsSpec
CONSTANTS
  N = 4
  Services <- TheServices
  Submissions <- Requests
  Unpinned <- NoPin
  Malformed <- BadSpec
  References <- Graphs
  Largest = 2
  Authored <- Texts
  Base = 3
  MaxBytes = 2
  Top = 1
  Maximum = 4
  Messages <- SmallMessages
  MaxWire = 6
  m1 = m1
  m2 = m2
  pA = pA
  pB = pB
  a1 = a1
  a2 = a2
  b1 = b1
  Callers <- TheCallers
  Sessions <- TheSessions
  Processes <- TheProcesses
  PoolOf <- Pools
  MaxConnections = 2
  Options <- TheOptions
  LastMigration = 2
  MaxTask = 5
  Depends <- TaskMaps
  Words <- TheWords
  Height = 6
  Queries <- TheQueries
  MaxDepth = 4
  MaxPredicates = 8
  MaxInput = 30
  Length <- TextLength
INVARIANTS
  ComponentsTypeOK
  LeavesFirst CycleNamed LeastOrder RootCovers
  BoundsMatch LoosePartialKnown
  BuffersBounded RoundTrips AcceptsExactly
  OneMigrator FailsOnlyByFault OutcomeTells StrandedOnlyByDrop
  ServingConfirmed
  PlanLayered CycleLeast QueryRoundTrips
PROPERTIES SpentStaysSilent MigrationsReturn StatusFollows
CHECK_DEADLOCK FALSE
