CONSTANTS
  Place = {root}
  Leaf = {a, b}
  Movable = {}
  Case = {lower}
  Byte = {x, y}
  MaxLen = 2
  Upload = {u}
  Stream = {k}
  NoPath = NoPath
  Rooms = {1, 2}
  InPlace <- Temps
  HalfMoves <- NoHalfMove
  Local <- NoLocal
SPECIFICATION Spec
INVARIANTS
  DigestIsOfFile
  BodyIsTheSlice
SYMMETRY DigestSymmetry
