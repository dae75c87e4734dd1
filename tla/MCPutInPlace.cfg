CONSTANTS
  Request = {r1, r2}
  NoRequest = NoRequest
  Path = {p}
  TheDir = d
  Dir <- MCDir
  NoDir = NoDir
  ParentDir <- MCParentDir
  Chunk1 = c1
  Chunk2 = c2
  Chunk <- MCChunk
  MaxChunks = 2
  Claims <- MCClaims
  Foreign <- MCForeign
  InPlace <- AnyPlace
  Fails = {"mkdir", "open", "hash", "write", "commit", "discard"}
SPECIFICATION FairSpec
PROPERTIES
  PartialIsTold
  StateFreed
