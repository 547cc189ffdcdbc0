SPECIFICATION FairSpec
INVARIANTS
  InfoExchanged
  NoMismatch
  CleanStart
PROPERTY
  ExchangeEnds
CHECK_DEADLOCK FALSE
