SPECIFICATION FairSpec

CONSTANTS
  RcvCap = 1
  IdSpace = 2
  MaxDup = 1
  NsPerUs = 2
  UsPerMs = 2
  MsPerSec = 2
  StatusPeriod = 4
  ULongSize = 256
  IntMax = 8
  StartDate = 1
  Counts = {3}
  Rates <- EveryRate
  KernelErrors <- EveryCall
  MaxIntr = 1
  MaxLag = 1

INVARIANTS
  TypeOK
  OneSecondAhead
  VerdictIsComplete

PROPERTIES
  ImplementsLoadTest
  EndsWhenAnswered

\* A drain that misses an answer polls for ever.
CHECK_DEADLOCK FALSE
