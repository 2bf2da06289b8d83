CONSTANTS
  Lines = 2
  Columns = 3
  Tab = 2
  Char = {"a", "b"}
  Blank = " "
SPECIFICATION Spec
INVARIANT NeverAborts
PROPERTY FaithfulConsole
