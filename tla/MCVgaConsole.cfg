CONSTANTS
  Lines = 3
  Columns = 3
  Tab = 2
  Char = {"a", "b"}
  Blank = " "
SPECIFICATION Spec
INVARIANT TypeOK
PROPERTY Refinement
