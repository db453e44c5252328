SPECIFICATION FairSpec
CONSTANTS
  Exchanges = 2
  MaxTroubles = 4
INVARIANTS
  TypeOK
  InStep
  OnCredit
PROPERTIES
  ExecutedOnce
  SessionEnds
