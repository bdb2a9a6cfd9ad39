SPECIFICATION Spec
CONSTANTS
  Table <- Tables
  Column <- Columns
  StrictForeignKeys = TRUE
  Available <- PlainOperations
  MaxHistory = 8
INVARIANT LastCanBeUndone
PROPERTY BackwardsUndoes
