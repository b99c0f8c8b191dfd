CONSTANTS
  u1 = u1
  u2 = u2
  a = a
  b = b
  Updaters <- TwoUpdaters
  Keys <- TwoKeys
  Remotes <- SomeRemotes
  None = None
  MaxId = 3
  MaxUpdates = 2
  MaxUi = 2
  MaxCrash = 1
SPECIFICATION Spec
CHECK_DEADLOCK FALSE
SYMMETRY Symmetry
INVARIANTS
  
  MirrorsRemote
