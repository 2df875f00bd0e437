SPECIFICATION Spec
CONSTANTS
  Pages <- GatePages
  Kind <- GateKind
  By <- GateBy
  Place <- GatePlace
  Step <- GateStep
  Host <- GateHost
  Known = {"ats"}
  JobHost = "ats"
  ApplyTo <- GateApplyTo
  SignedIn = {"made"}
  Fields = {"one", "bare"}
  Uploads = {"one"}
  Bare = {}
  Sends = {"draft"}
  Links <- GateLinks
  Opens = {"post"}
  Matched = {}
  InPlace = FALSE
  Thinks = TRUE
  Lossy = FALSE
  StepMax = 2
  MaxFix = 1
  MaxGoes = 0
  MaxResumes = 1
INVARIANT OneAttempt
PROPERTY DriveEnds
CHECK_DEADLOCK FALSE
