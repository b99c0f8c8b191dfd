CONSTANTS
  p1 = p1
  p2 = p2
  None = None
  Profiles <- TwoProfiles
  MaxUser = 2
  MaxCrash = 1
  MaxExit = 2
SPECIFICATION Spec
CHECK_DEADLOCK FALSE
SYMMETRY Symmetry
INVARIANTS
  StartWaitsForStop
  CoreRunsShown
  CrashKeepsProfile
  ProxyNeedsProfile
