SPECIFICATION DeviceSpec
CONSTANTS
  Threads = {t1, t2}
  Consumer = consumer
  Streams = {s1, s2}
  None = none
  MaxCalls = 2
INVARIANT
  KernelMemoryUntouched
PROPERTY
  ImplementsOrderedCalls
