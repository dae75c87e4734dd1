SPECIFICATION ServeSpec
CONSTANTS
  Path <- MCPath
  TempName = {"t"}
  DavUpload = {"dav"}
  CarriesOpen = FALSE
INVARIANTS
  TempsStay
  TempsAreNoResource
  NothingIsLeft
  StoppedIsClean
PROPERTIES
  UploadsAreServed
  
  StopEnds
