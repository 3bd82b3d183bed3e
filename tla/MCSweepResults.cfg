SPECIFICATION Spec
CONSTANTS
  a = a
  b = b
  Cases <- TwoCases
  Plans <- AllPlans
  OldRuns = 2
  MaxRuns = 5
SYMMETRY SwapCases
INVARIANTS
  ManifestTruthful
  StartedCasesFresh
  SummaryFromOneRun
  
