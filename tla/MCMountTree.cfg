CONSTANTS
  Dir1 = d1
  Dir2 = d2
  Leaf = x
  Handle = {h1}
  Name <- MCName
  Fold <- MCFold
  Path <- MCPath
  Byte = {b0}
  ReadAhead = 1
  PutMax = 0
  MaxLen = 0
  Faults = {"noreply"}
SPECIFICATION Spec
INVARIANTS
  OwnChangesListed
SYMMETRY DirSymmetry
VIEW Namespace
CONSTRAINT WritableAndShallow
