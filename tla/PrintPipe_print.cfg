SPECIFICATION FairSpec
CONSTANTS
  JobLength = 2
  MaxSaid = 2
  OpenBefore <- SomeOpen
INVARIANTS
  TypeOK
  NoPartialJobUnlessShell
  ErrorsSeen
  RightDescriptors
PROPERTY
  AllEnd
