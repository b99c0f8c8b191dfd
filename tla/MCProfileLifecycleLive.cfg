CONSTANTS
  p1 = p1
  p2 = p2
  None = None
  Profiles <- OneProfile
  MaxUser = 1
  MaxCrash = 1
  MaxExit = 0
SPECIFICATION FairSpec
CHECK_DEADLOCK FALSE
PROPERTIES
  StartResolves
  StopResolves
  CoreIsRestarted
