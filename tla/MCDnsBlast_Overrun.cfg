SPECIFICATION Spec

CONSTANTS
  RcvCap = 2
  IdSpace = 8
  MaxDup = 0
  MsPerSec = 4
  StatusPeriod = 3
  Slots = 1
  IntMax = 6
  StartDate = 5
  Counts = {2, 4, 5}
  Rates = {0, 3, 4}
  Timeouts = {2}
  FuzzModes = {FALSE}
  KernelErrors <- EveryCall
  MaxIntr = 1
  MaxLag = 0

PROPERTIES
  ImplementsLoadTest

\* A drain whose timeout was overwritten may poll for ever.
CHECK_DEADLOCK FALSE
