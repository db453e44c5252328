SPECIFICATION FairSpec
CONSTANT
  Jobs <- ShortImages
INVARIANT
  EveryLinePrinted
