SPECIFICATION Spec
CONSTANTS
  LastRun = 2
  LastServer = 4
  LastTime = 2
  MaxRestarts = 1
  Span = 2
  Windows = {}
INVARIANTS StoppedMeansStopped RunningIsRecorded RestartsAreBounded
CHECK_DEADLOCK FALSE
