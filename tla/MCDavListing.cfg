CONSTANTS
  Self = self
  Child = {a}
  Elsewhere = {near}
  Foreign = {far}
  TooLong = {long}
  Unreadable = {bad}
  Held = {}
  NoHref = NoHref
  Size = {s, t}
  Split <- SplitNames
  MaxEntries = 2
SPECIFICATION Spec
INVARIANTS
  ListingIsTheAnswer
  RefusedForCause
