SPECIFICATION Spec

CONSTANTS
  RcvCap = 1
  IdSpace = 4
  MaxDup = 0
  MsPerSec = 4
  StatusPeriod = 3
  Slots = 4
  IntMax = 64
  StartDate = 1
  Counts = {3}
  Rates <- EveryRate
  Timeouts = {1}
  FuzzModes = {FALSE}
  KernelErrors <- NoCall
  MaxIntr = 1
  MaxLag = 1

INVARIANTS
  Paced
  WaitFitsInt
  KeepsUp
