SPECIFICATION Spec
CONSTANTS
  a = a
  b = b
  c = c
  Model <- ThreeModels
  External = {"user"}
  Plain = {"data"}
  TableName <- NamedAfterType
  DerivedName <- NamedAfterType
  CrateName = "crate"
  AppName = "crate"
  MaxEdits = 6
  MaxMigrations = 2
CHECK_DEADLOCK FALSE
SYMMETRY Symmetry
INVARIANTS
  Replayable
  FilesLeadToSource
  PanicsAreKnown
  DependenciesDeclared
