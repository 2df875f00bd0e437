SPECIFICATION Spec
CONSTANTS
  TheJob = j
  Jobs <- OneJob
  Proposals = {p1, p2}
  Applications = {a1, a2}
  JobOf <- OfTheJob
  AgentJobs = {}
  Requests = {r1, r2}
  MaxPerDay = 1
  LastDay = 2
  Windows = {}
  NoApp = NoApp
  NoLock = NoLock
VIEW Matters
SYMMETRY Alike
INVARIANTS OneOpenProposalPerJob SubmittedIsConsented ReviewedIsLinked CapHolds
PROPERTY SentIsKept
CHECK_DEADLOCK FALSE
