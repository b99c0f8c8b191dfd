CONSTANTS
  h1 = h1
  Handlers <- OneHandler
  MaxObj = 1
  Darwin = TRUE
SPECIFICATION Spec
CHECK_DEADLOCK FALSE
INVARIANTS
  ConfigIsBound
  
PROPERTIES
  ConfigGoes
