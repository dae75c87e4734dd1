CONSTANTS
  Handle = {h1}
  Name = {"a"}
  Fold <- MCFold
  Path <- MCPath
  Byte = {b0, b1}
  ReadAhead = 2
  PutMax = 2
  MaxLen = 2
  Faults = {"lost"}
SPECIFICATION Spec
PROPERTIES
  FlushComposes
