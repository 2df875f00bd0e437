SPECIFICATION FairSpec
CONSTANTS
  TheJob = j
  Jobs <- OneJob
  Targets = {app}
  JobOf <- OfTheJob
  Proposals = {}
  MaxClicks = 3
  Windows = {}
INVARIANTS AppliedOnce AnsweredAsDone
PROPERTIES NewestStands RequestIsAnswered
