SPECIFICATION Spec

CONSTANTS
  RandMax = 12
  Weights <- Table6
  RepeatMax = 2
  RefuzzMax = 2
  Chars = {97}
  OctetValues = {255}
  DataSize = 21
  PointerSize = 8
  SizeSpace = 65536
  IdSpace = 2
  FuzzValues = {0}
  SeedModes = {TRUE, FALSE}
  FuzzModes = {TRUE, FALSE}

INVARIANTS
  TypeOK
  ReadAsDrawn
  FuzzStaysInHeader
  FuzzBounded
  SharesAreWeights
