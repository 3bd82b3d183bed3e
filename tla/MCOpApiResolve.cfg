SPECIFICATION Spec
CONSTANTS
  own = own
  site = site
  loose = loose
  Threads = {t1, t2}
  Vendors = {own, site}
  LocalVendors = {own, site}
  DefaultVendors <- MCDefaultVendors
  Loose = {loose}
  Home <- MCHome
  Exports <- MCExports
  Loadable <- MCLoadable
  Paths <- MCPaths
  Apis <- MCApis
  Required <- Both
  CannApis = {}
  Cann = cann
  Program = program
  None = none
  MaxCalls = 1
SYMMETRY Alike
INVARIANTS
  RunsReportedLibrary
  OneLibraryPerCall
  NoFallback
PROPERTIES
  RetryKeepsLibrary
