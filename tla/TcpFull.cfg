SPECIFICATION FairSpec
CONSTANTS
  MaxOrders = 2
  SndBuf = 1
  RTO = 1
  TCP_MAXRTX = 1
  TCP_SYNMAXRTX = 1
PROPERTIES
  EveryOrderArrives
  ClosedBlockFreed
