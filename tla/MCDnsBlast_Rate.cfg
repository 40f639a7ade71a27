SPECIFICATION Spec

CONSTANTS
  RcvCap = 2
  IdSpace = 4
  MaxDup = 0
  MsPerSec = 4
  StatusPeriod = 3
  Slots = 4
  IntMax = 64
  StartDate = 1
  Counts = {2}
  Rates <- NoLimit
  Timeouts = {2}
  FuzzModes = {FALSE}
  KernelErrors <- NoCall
  MaxIntr = 0
  MaxLag = 0

INVARIANTS
  RateIsMeasured
