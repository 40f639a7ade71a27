SPECIFICATION FairSpec

CONSTANTS
  Conns = {1}
  BufSize = 2
  MAX_FRAG = 1
  In4Len = 1
  In6Len = 2
  Requests <- SomeRequests
  Timeout = 1
  MaxBytes <- Three
  CommandLines <- SomeCli
  ConfFiles <- SomeConf

INVARIANTS
  TypeOK
  NothingDangles
  ContextSound
  TakeTurns
  StreamIntact
  OnlyStoppedOrphans
  ServesWhatWasAsked
  CleanExit
PROPERTIES
  StopIsFinal
  ImplementsTunnel
  HandshakeEnds
