SPECIFICATION FairSpec
CONSTANTS
  s1 = s1
  s2 = s2
  s3 = s3
  Server = {s1, s2, s3}
  Table <- Tables
  Column <- Columns
  StrictForeignKeys = TRUE
  Histories <- AllHistories
  MigrationsTable = "cot__migrations"
  ZeroIsGenerated = TRUE
  Crashes = TRUE
INVARIANTS
  RecordedInEffect
  ServingMeansRecorded
  FailedForAReason
PROPERTIES
  NoChangeOnceRecorded
  OrphanIsPermanent
  ImplementsLog
  StartedServes
