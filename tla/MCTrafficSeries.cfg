CONSTANTS
  c1 = c1
  a1 = a1
  looper = looper
  tester = tester
  ui = ui
  Configs <- OneConfig
  Apps <- OneApp
  Creditors <- TwoCreditors
  Ui = ui
  HourLen = 2
  Window = 0
  Retention = 1
  None = None
  MaxNow = 2
  MaxAdds = 2
  MaxTrouble = 1
SPECIFICATION Spec
CHECK_DEADLOCK FALSE
SYMMETRY Symmetry
INVARIANTS
  EveryByteInItsMinute
  TiersAddUp
PROPERTIES
  RefinesLedger
