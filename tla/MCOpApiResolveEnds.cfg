SPECIFICATION FairSpec
CONSTANTS
  own = own
  site = site
  loose = loose
  Threads = {t1, t2}
  Vendors = {own}
  LocalVendors = {own}
  DefaultVendors <- OwnDefault
  Loose = {}
  Home <- OwnHome
  Exports <- OwnExports
  Loadable <- OwnLoadable
  Paths <- OwnPaths
  Apis <- OwnApis
  Required <- Both
  CannApis = {"InitHugeMemThreadLocal"}
  Cann = cann
  Program = program
  None = none
  MaxCalls = 2
PROPERTY
  CallsEnd
