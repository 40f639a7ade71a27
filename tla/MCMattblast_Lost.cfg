SPECIFICATION FairSpec

CONSTANTS
  RcvCap = 2
  IdSpace = 2
  MaxDup = 0
  NsPerUs = 2
  UsPerMs = 2
  MsPerSec = 2
  StatusPeriod = 4
  ULongSize = 256
  IntMax = 8
  StartDate = 1
  Counts = {1}
  Rates = {1}
  KernelErrors <- NoCall
  MaxIntr = 0
  MaxLag = 1

PROPERTIES
  Termination

\* What the run is about: the program stops for good.
CHECK_DEADLOCK FALSE
