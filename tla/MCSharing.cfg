SPECIFICATION Spec
CONSTANTS
  None = None
  Edited <- MCEdited
  Texts <- MCTexts
  Settings <- MCSettings
INVARIANTS
  
  UpdateRecognises
  
  AskedTLSIsBuilt
CHECK_DEADLOCK FALSE
