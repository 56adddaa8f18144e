SPECIFICATION Spec
CONSTANTS
  q1 = q1  q2 = q2
  Requests <- Two
  Kind <- Mixed
  MaxTokens = 2
  Disk = FALSE
  MaxCrashes = 1
INVARIANTS TypeOK AtMostOnce SendsBounded RefusedTokenGone
PROPERTIES TokensMoveForward
CHECK_DEADLOCK FALSE
