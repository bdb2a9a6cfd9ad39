SPECIFICATION FairSpec
CONSTANTS
  None = None
  t1 = t1
  t2 = t2
  r1 = r1
  r2 = r2
  c1 = c1
  c2 = c2
  Thread = {t1, t2}
  Request = {r1, r2}
  Client = {c1, c2}
  Text <- Strings
  Names = {"s", "n", "b", "x", "username", "password"}
  Apps <- TwoApps
  Files = {"a.css", "b.css", "c.css"}
  Models = {"user", "nothing"}
  Configs <- SomeConfigs
  Inputs <- SmallInputs
  Users <- Passwords
  MaxWaits = 1
CHECK_DEADLOCK FALSE
INVARIANTS
  ServedAfterStart
  OwnLocation
  DroppedForAReason
  BrowserIsHeard
  AdminNeedsLogin
PROPERTY EveryRequestEnds
