SPECIFICATION Spec
CONSTANTS
  File = {f1, f2}
INVARIANTS
  CallsFindTheMount
  MountedOrClean
PROPERTIES
  ProtocolAnswered
  CommandsEnd
