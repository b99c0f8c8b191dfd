CONSTANTS
  k1 = k1
  k2 = k2
  k3 = k3
  Conns <- ThreeConns
  RingSize = 2
  MaxBytes = 2
  MaxFail = 1
  MaxStops = 1
SPECIFICATION ConnSpec
CHECK_DEADLOCK FALSE
SYMMETRY Symmetry
INVARIANTS
  CountedOnce
  TailIsCounted
