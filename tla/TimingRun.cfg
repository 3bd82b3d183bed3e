SPECIFICATION FairSpec
CONSTANTS
  Workers = 3
  Timeout = 2
INVARIANTS
  PhasesTogether
  PassedMeansAllTimed
  NoneLeftRunning
PROPERTIES
  EveryRunEnds
  OnlyHungWorkRemains
