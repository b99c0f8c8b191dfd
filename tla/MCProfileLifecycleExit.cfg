CONSTANTS
  p1 = p1
  p2 = p2
  None = None
  Profiles <- OneProfile
  MaxUser = 1
  MaxCrash = 0
  MaxExit = 2
SPECIFICATION Spec
CHECK_DEADLOCK FALSE
INVARIANT SecondExitIsIgnored
