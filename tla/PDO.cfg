CONSTANTS
  Statements = {s1, s2}
  Writers = {s2}
  NoStatement = NoStatement
  MaxName = 2
  MaxRows = 2
SPECIFICATION FairSpec
INVARIANTS
  TypeOK
  TransactionKnown
  PreparedIsThere
  OwnQuery
  NothingLeftBehind
PROPERTIES
  CommitKeeps
  RetryEnds
