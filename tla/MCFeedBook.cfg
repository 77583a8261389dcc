SPECIFICATION SoftSpec
CHECK_DEADLOCK FALSE
CONSTANTS
  NumStocks = 2
  MaxOrderNum = 3
  MaxLevels = 4
  CacheSize = 2
  PublishPeriod = 2
  WordSize = 16
  MinPrice <- MCMinPrice
  TickSize <- MCTickSize
  Inputs = {}
  MaxRef = 3
  MaxPrice <- MCMaxPrice
  RawPrices <- MCRawPrices
  AddShares = {2}
INVARIANTS
  BookIsMarket
  LevelsRankAsPrices
  BooksAgree
PROPERTIES
  ImplementsMarketByPrice
  SnapshotIsFrame
