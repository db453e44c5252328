SPECIFICATION FairSpec
CONSTANT
  Documents <- UpToTwoCopies
INVARIANTS
  TypeOK
  DataOwnedOnce
PROPERTIES
  InOrderAll
  BackendEnds
