SPECIFICATION Spec
CONSTANTS
  FeedLen = 4
  TCP_WND = 4
  mss = 3
INVARIANTS
  NothingSkipped
