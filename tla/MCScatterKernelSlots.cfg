CONSTANTS
  BlockSize = 2
  AivCoreNum = 2
  Launches <- SlotLaunches
SPECIFICATION FairSpec
INVARIANTS
  Provenance
PROPERTIES
  WrittenOnce
  ImplementsScatterCopy
