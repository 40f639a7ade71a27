SPECIFICATION Spec

CONSTANTS
  CommandLines <- SomeLines
  ULongMax = 255
  MaxArgs = 10

INVARIANTS
  AsDocumented
