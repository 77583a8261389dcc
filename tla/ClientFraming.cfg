SPECIFICATION Spec
CHECK_DEADLOCK FALSE
CONSTANTS
  Start <- MCStart
  PUBLISH_THRESHOLD = 2
  MaxGarbage = 5
INVARIANTS
  FramingKept
  WholeMessagesHandled
  PublishesInStep
