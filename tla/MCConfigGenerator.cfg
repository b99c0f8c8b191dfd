SPECIFICATION Spec
CONSTANTS
  None = None
  Profile <- MCProfile
  Main <- MCMain
  Helpers <- MCHelpers
  Deletable <- MCDeletable
  Routes <- MCRoutes
  Settings <- MCSettings
  KnownSets <- MCKnownSets
  Batches <- MCBatches
  WalkLimit = 12
INVARIANTS
  
  PathIsChain
  
  TrafficIsCredited
  TestTakesTheWay
