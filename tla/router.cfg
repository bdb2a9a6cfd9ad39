SPECIFICATION Spec
CONSTANTS
  None = None
  Letter <- Letters
  Digit <- Digits
  Name = {"v", "w"}
  MaxPattern = 5
  MaxPath = 3
  Tables <- MCTables
  Paths <- MCPaths
  Args <- MCArgs
CHECK_DEADLOCK FALSE
INVARIANTS
  FoundIsFirst ParamsAreThePieces ReversedLeadsBack
  PatternsReadBack
PROPERTY NeverBack
