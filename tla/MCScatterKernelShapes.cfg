CONSTANTS
  BlockSize = 2
  AivCoreNum = 3
  Launches <- ShapeLaunches
SPECIFICATION FairSpec
INVARIANTS
  TypeOK
  CacheCoherent
  QueueHoldsCurrent
  AllocCompletes
  NoPairSkipped
  FinalContents
PROPERTIES
  Termination
