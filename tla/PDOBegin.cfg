CONSTANTS
  Statements = {s1, s2}
  Writers = {s2}
  NoStatement = NoStatement
  MaxName = 2
  MaxRows = 1
SPECIFICATION Spec
PROPERTIES
  BeginBegins
