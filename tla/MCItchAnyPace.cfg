SPECIFICATION LinkSpec
CONSTANTS
  Messages <- MCMessages
  Paced = FALSE
  IdleBytes = {0, 67}
  StallLimit = 0
INVARIANTS
  TypeOK
  NoWordOverrun
  OffsetInMessage
