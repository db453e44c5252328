SPECIFICATION Spec
CONSTANT
  Requests <- PageRequests
INVARIANTS
  RowOnItsJet
  PassAgrees
  LinesApart
  StartsForward
  BankFreeInTime
  RawHalvesAgree
CHECK_DEADLOCK FALSE
