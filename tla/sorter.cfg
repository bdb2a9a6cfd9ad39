SPECIFICATION FairSpec
CONSTANTS
  App = {1, 2}
  Name = {1, 2, 3}
  Model = {"m", "n"}
  Inputs <- AllInputs
CHECK_DEADLOCK FALSE
INVARIANTS
  SortedIsTopological
  DependenciesFirst
  RefusedForAReason
  IndependentByName
PROPERTY Ends
