SPECIFICATION FairLinkSpec
CONSTANTS
  Events <- MCEvents
  Messages <- MCFeed
  Paced = TRUE
  IdleBytes = {0}
  StallLimit = 39
INVARIANTS
  WordsAreTheFeed
  NoOrderLost
  AddsAndReferencesArrive
PROPERTIES
  EveryOrderTaken
