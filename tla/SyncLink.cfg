SPECIFICATION LinkSpec
CONSTANTS
  MaxCalls = 2
  MaxRounds = 2
  MaxTime = 7
  Skew = 3
  Replay = 2
  ForceGap = 1
  FirstDelay = 3
  LastDelay = 4
  Cap = 2
INVARIANTS AcceptedOnce OverlapIsForced
CHECK_DEADLOCK FALSE
