SPECIFICATION FairSpec
CONSTANTS
  MaxOrders = 3
  SndBuf = 2
  RTO = 1
  TCP_MAXRTX = 2
  TCP_SYNMAXRTX = 1
PROPERTIES
  RoomComes
