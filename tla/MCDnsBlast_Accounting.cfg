SPECIFICATION FairSpec

CONSTANTS
  RcvCap = 2
  IdSpace = 2
  MaxDup = 1
  MsPerSec = 4
  StatusPeriod = 3
  Slots = 2
  IntMax = 64
  StartDate = 1
  Counts = {3}
  Rates <- NoLimit
  Timeouts = {2}
  FuzzModes = {FALSE}
  KernelErrors <- NoCall
  MaxIntr = 1
  MaxLag = 1

INVARIANTS
  TypeOK
  Conservation
  FullRatioMeansAllAnswered
  QueryTimeSound
  DrainBounded
PROPERTIES
  Termination
