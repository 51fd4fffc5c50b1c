CONSTANT NumTerm = 2
SPECIFICATION FairSpec
INVARIANTS
  NeverAnotherBuffer
PROPERTIES
  OutputOnOwnScreen
  SwitchKeepsPictures
  MappingSettles
