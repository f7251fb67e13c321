SPECIFICATION FairSpec
CONSTANTS
  MaxLen = 3
  MaxOff = 4
  MaxSlip = 2
  MaxAddr = 6
  Files <- OrderedFiles
  Addrs <- McAddrs
INVARIANTS StaysInside AnswersRight SearchAgrees
PROPERTIES ImplementsOracle EveryCallReturns
