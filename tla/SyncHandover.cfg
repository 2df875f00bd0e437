CONSTANTS
  j1 = j1
  j2 = j2
  a1 = a1
  a2 = a2
  NoAsk = NoAsk
  Jobs = {j1}
  Asks = {a1, a2}
  JobOf <- OneJob
  MaxVersion = 2
  MaxOffers = 1
  MaxLate = 1
  Windows = {"peek"}
SPECIFICATION FairSpec
INVARIANTS
  TypeOK
  WriterIsCurrent
PROPERTIES
  NoHandBackMidApplication
  HandBackIsFrozen
  ImplementsOwnership
  AskIsAnswered
  SomeoneMayWrite
