CONSTANTS
  Calls <- MCCalls
  Lacking <- MCLacking
SPECIFICATION Spec
CHECK_DEADLOCK FALSE
INVARIANTS
  HandlesAccountedFor
  UsesWhatWasGiven
