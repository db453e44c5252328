SPECIFICATION FairSpec
CONSTANT
  Jobs <- PrintedPages
INVARIANTS
  TypeOK
  LineInItsPass
  RasterMatchesCount
  BufferFits
  NoLateLine
  EveryLinePrinted
PROPERTIES
  SentInOrder
  PagePromise
  PageEnds
