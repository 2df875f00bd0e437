CONSTANTS
  j1 = j1
  j2 = j2
  a1 = a1
  a2 = a2
  NoAsk = NoAsk
  Jobs = {j1, j2}
  Asks = {a1}
  JobOf <- OneJob
  MaxVersion = 1
  MaxOffers = 2
  MaxLate = 1
  Windows = {"guard", "commit"}
SPECIFICATION Spec
INVARIANTS
  SingleWriter
  NoOpenAskForAJobHere
