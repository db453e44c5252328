SPECIFICATION FairSpec
CONSTANT
  Copies = {1}
  MaxJobId = 5
  MaxDeckJobId = 4
  MaxTroubles = 1
  Hitches <- NoHitches
PROPERTY RefusalRetried
