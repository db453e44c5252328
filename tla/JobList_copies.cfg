SPECIFICATION FairSpec
CONSTANT
  Documents <- ThreeCopies
INVARIANT
  EveryCopyPrinted
