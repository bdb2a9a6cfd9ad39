SPECIFICATION QuerySpec
CONSTANTS
  None = None
  AutoValue = AutoValue
  t1 = t1
  t2 = t2
  Task = {t1, t2}
  Value <- Values
  Fields = {"$id", "$of"}
  Unsigned = {"$of"}
  Width = 3
  Keys = {1, 2, 3, 4, 5}
  GivenKeys = {2}
  Numbers = {0, 5}
  Texts <- ConstantQueries
  Policies <- SomePolicies
  Starts <- Shelves
  Library <- SmallLibrary
  MaxCalls = 2
CHECK_DEADLOCK FALSE
PROPERTY ParenthesesAreKept
