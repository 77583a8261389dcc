SPECIFICATION MCSpec
CONSTANTS
  NumStocks = 2
  MaxOrderNum = 2
  MaxLevels = 4
  CacheSize = 2
  PublishPeriod = 2
  WordSize = 12
  MaxWords = 5
  MinPrice <- MCMinPrice
  TickSize <- MCTickSize
  Inputs <- MCInputs
INVARIANTS
  TypeOK
  TreesConsistent
  RootIsBest
PROPERTIES
  FramesShowBestRows
  PublishRestoresBooks
CHECK_DEADLOCK FALSE
