CONSTANTS
  Place = {d1, d2}
  Leaf = {a}
  Movable = {d1, d2}
  Case = {lower}
  Byte = {x}
  MaxLen = 2
  Upload = {u}
  Stream = {k}
  NoPath = NoPath
  Rooms = {1, 2}
  InPlace <- AnyPlace
  HalfMoves <- AnyMove
  Local <- AnyLocal
SPECIFICATION Spec
INVARIANTS
  BodyFitsLength
  DigestFitsSize
SYMMETRY PlaceSymmetry
