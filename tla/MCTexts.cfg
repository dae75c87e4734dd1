SPECIFICATION Spec
CONSTANTS
  Name = {"v", "d", "t", "T", "u"}
  Fold <- MCFold
  TempName = {"t", "T", "u"}
  Volume <- MCVolume
  Rooted <- MCRooted
  PathMax = 7
  VolMax = 3
  Present <- MCPresent
  Live <- MCLive
  Word = {"sha-512", "sha-256", "x", "y"}
  Sha512 = "sha-512"
  Sha256 = "sha-256"
  Readable = {"x"}
  BufSize = 12
  Margin = 5
  Opening = 2
  Comma = 1
  Closing = 2
  MaxEntries = 2
  Chunk = {"s", "x", "h"}
  Http = "http:"
  Scheme = {"http:", "dav:"}
  OwnHost = "h"
  MaxPath = 5
  MaxBase = 5
  Share <- MCShare
  Directory <- MCDirectory
  Child <- MCChild
INVARIANTS
  SurfacesAgreeOnPaths
  PathsNameWhatTheySpell
  LiveTempsAreTold
  StrongestClaimIsChecked
  ListingsAreWhole
  HrefsAreResolved
  AcceptedSharesAreFound
CHECK_DEADLOCK FALSE
