SPECIFICATION MonitorSpec
CHECK_DEADLOCK FALSE
CONSTANTS
  NumStocks = 2
  WeightUnit = 1
  Prices = {2, 3}
  InitialCash = 7
  Garbage = {9}
  Exact = 55
  NaNPossible = TRUE
  MaxFrames = 2
  OrderWords = 2
  MinNewRows = 2
INVARIANTS
  MonitorTypeOK
  CashNeverNegative
  AccountBalances
  MonitorAgrees
  RowsGenuine
PROPERTIES
  GuiCatchesUp
