CONSTANTS
  Handle = {h1}
  Name = {"a"}
  Fold <- MCFold
  Path <- MCPath
  Byte = {b0, b1}
  ReadAhead = 2
  PutMax = 2
  MaxLen = 2
  Faults = {"lost", "noreply", "refused", "cut", "garbled", "memory"}
SPECIFICATION Spec
INVARIANTS
  TypeOK
  NoFalseAlarm
  CorruptionCaught
  ReadAheadCoherent
PROPERTIES
  FlushedWhole
SYMMETRY ByteSymmetry
VIEW AllButReply
