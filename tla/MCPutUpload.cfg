CONSTANTS
  Request = {r1, r2}
  NoRequest = NoRequest
  Path = {p, q}
  TheDir = d
  Dir <- MCDir
  NoDir = NoDir
  ParentDir <- MCParentDir
  Chunk1 = c1
  Chunk2 = c2
  Chunk <- MCChunk
  MaxChunks = 2
  Claims <- MCClaims
  Foreign <- MCForeign
  InPlace <- Temps
  Fails = {"mkdir", "open", "hash", "write", "commit"}
SPECIFICATION Spec
INVARIANTS
  HeldByTheSender
  TempIsSent
PROPERTIES
  KeepsPromise
  FailedLeavesNoDirectory
SYMMETRY PutSymmetry
