CONSTANTS
  MaxRows = 2
  MaxFields = 2
  IntBits = 3
  RowNumbers <- SomeNumbers
SPECIFICATION Spec
INVARIANTS
  TypeOK
  CellAsAsked
  OnlyWhatExists
PROPERTIES
  ImplementsCursor
