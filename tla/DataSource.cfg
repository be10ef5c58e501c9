CONSTANTS
  Chars <- SomeChars
  Options <- SomeOptions
  OptionName <- SomeNames
  Default <- SomeDefaults
  OtherNames <- SomeOthers
  Values <- SomeValues
  MaxPairs = 2
  Absent = Absent
SPECIFICATION Spec
INVARIANTS
  ParsesDocumentedForm
  ConninfoReadsBack
CHECK_DEADLOCK FALSE
