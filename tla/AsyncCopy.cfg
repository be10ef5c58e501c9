CONSTANTS
  Borrowers = {b1, b2}
  NoBorrower = NoBorrower
  MaxQueries = 3
  MaxResults = 2
  CopyAllowed = TRUE
SPECIFICATION FairSpec
PROPERTIES
  SendReturns
