SPECIFICATION Spec

CONSTANTS
  Conns = {1}
  BufSize = 2
  MAX_FRAG = 1
  In4Len = 1
  In6Len = 2
  Requests <- SomeRequests
  Timeout = 1
  MaxBytes <- Two
  CommandLines <- OneCli
  ConfFiles <- SomeConf

INVARIANTS
  IgnoresWhenStopped
