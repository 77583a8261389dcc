SPECIFICATION FairSpec
CONSTANTS
  NumStocks = 2
  BookWords = 4
  OrderWords = 2
  StreamDepth = 1
  CounterSize = 8
  MaxFaults = 1
  Window = 6
INVARIANTS
  TypeOK
  PathsAligned
  MessagesWhole
PROPERTIES
  ImplementsOrderPerFrame
