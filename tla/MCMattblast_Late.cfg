SPECIFICATION Spec

CONSTANTS
  RcvCap = 2
  IdSpace = 2
  MaxDup = 0
  NsPerUs = 2
  UsPerMs = 2
  MsPerSec = 2
  StatusPeriod = 4
  ULongSize = 256
  IntMax = 8
  StartDate = 1
  Counts = {2}
  Rates = {10}
  KernelErrors <- NoCall
  MaxIntr = 0
  MaxLag = 1

INVARIANTS
  LateMeansNoWait
