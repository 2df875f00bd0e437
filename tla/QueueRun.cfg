SPECIFICATION Spec
CONSTANTS
  Pages <- WizardPages
  Kind <- WizardKind
  By <- WizardBy
  Place <- WizardPlace
  Step <- WizardStep
  Host <- WizardHost
  Known = {"ats"}
  JobHost = "ats"
  ApplyTo <- WizardApplyTo
  SignedIn = {}
  Fields = {"one", "two", "last", "more"}
  Uploads = {"one"}
  Bare = {"two"}
  Sends = {"draft"}
  Links <- WizardLinks
  Opens = {"one"}
  Matched = {"one"}
  InPlace = FALSE
  Thinks = FALSE
  Lossy = FALSE
  StepMax = 2
  MaxFix = 1
  MaxGoes = 1
  MaxResumes = 1
INVARIANTS PressedIsFilled NeverSends
PROPERTIES ReadyIsBacked StopIsHonoured
CHECK_DEADLOCK FALSE
