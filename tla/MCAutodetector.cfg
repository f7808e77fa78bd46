SPECIFICATION Spec
CONSTANTS
  None = "none"
  Name <- MCName
  Lower <- MCLower
  App = {1, 2, 3}
  AppOf <- MCAppOf
  Alphabet <- MCAlphabet
  Real = {3}
  Before <- MCBefore
  Models <- MCModels
  Labels = {{}, {1}, {2}}
INVARIANTS AlwaysNext EveryOrderRuns ReachesModels
PROPERTIES TurnsEnd
