SPECIFICATION FairSpec
CONSTANTS
  MaxOrders = 2
  SndBuf = 2
  RTO = 1
  TCP_MAXRTX = 1
  TCP_SYNMAXRTX = 1
INVARIANTS
  TypeOK
  OrdersKept
  EndAfterOrders
PROPERTIES
  EveryOrderArrives
