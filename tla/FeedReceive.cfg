SPECIFICATION Spec
CONSTANTS
  FeedLen = 10
  TCP_WND = 7
  mss = 5
INVARIANTS
  TypeOK
  OoseqOrdered
  WindowStaysOpen
PROPERTIES
  FeedReassembled
