SPECIFICATION Spec
CONSTANTS
  Threads = {t1, t2}
  Consumer = consumer
  Streams = {s1, s2}
  None = none
  MaxCalls = 3
SYMMETRY Alike
INVARIANTS
  MemoryHeld
  LaunchedInCallOrder
  ReleasedByLaunch
  LocalsLeakOnlyOnRaise
PROPERTIES
  LaunchedOnItsCores
