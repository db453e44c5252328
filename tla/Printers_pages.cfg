SPECIFICATION FairSpec
CONSTANT
  Copies = {1, 2}
  MaxJobId = 5
  MaxDeckJobId = 4
  MaxTroubles = 2
  Hitches <- NoHitches
INVARIANTS
  TypeOK
  InTurn
  WaitedFor
  JobIdsApart
PROPERTIES
  CopyPromise
  LoopEnds
