CONSTANTS
  j1 = j1
  j2 = j2
  Jobs = {j1, j2}
  Shared = {j1}
  PUSH_JOBS = 2
  RETRY_LIMIT = 2
  MaxClock = 3
  Windows = {}
SPECIFICATION FairSpec
INVARIANTS
  AckedIsReplicated
  GoneIsGoneAtHome
PROPERTIES
  WorkIsKept
  ChangesArrive
