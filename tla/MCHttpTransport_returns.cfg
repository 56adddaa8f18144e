SPECIFICATION LiveSpec
CONSTANTS
  q1 = q1  q2 = q2
  Requests <- Two
  Kind <- Streaming
  MaxTokens = 1
  Disk = TRUE
  MaxCrashes = 1
PROPERTIES RequestsReturn
CHECK_DEADLOCK FALSE
