CONSTANTS
  BlockSize = 2
  KRopeDim = 1
  KvCacheDim = 4
  MaxCopyCap = 3
  MaxSourceCapacity = 5
  Uint32Mod = 8
  AivCoreNum = 3
  Requests <- MCRequests
SPECIFICATION Spec
CHECK_DEADLOCK FALSE
INVARIANTS
  TilingSound
  LateFailureOnlyWhenEmpty
  RaiseIsJustified
  KernelGetsItsTensors
  OutputsAgree
