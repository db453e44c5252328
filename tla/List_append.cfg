SPECIFICATION Spec
CONSTANTS
  Items = {1, 2, 3, 4, 5, 6, 7, 8}
  Names = {a, b}
  NULL = NULL
  InsertsBefore = FALSE
  Ambiguous = FALSE
CONSTRAINT FirstItems
INVARIANTS
  TypeOK
  WellLinked
PROPERTY
  IsItemList
