SPECIFICATION Spec
CONSTANTS
  s1 = s1
  s2 = s2
  s3 = s3
  Server = {s1}
  Table <- Tables
  Column <- Columns
  StrictForeignKeys = FALSE
  Histories <- OneHistory
  MigrationsTable = "cot__migrations"
  ZeroIsGenerated = FALSE
  Crashes = FALSE
INVARIANT NoFailure
