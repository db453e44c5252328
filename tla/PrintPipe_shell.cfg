SPECIFICATION FairSpec
CONSTANTS
  JobLength = 2
  MaxSaid = 1
  OpenBefore <- SomeOpen
INVARIANT
  NoPartialJob
