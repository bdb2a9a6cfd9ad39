SPECIFICATION Spec
CONSTANTS
  k1 = k1
  k2 = k2
  k3 = k3
  c1 = c1
  r1 = r1
  r2 = r2
  x1 = x1
  x2 = x2
  None = None
  Anonymous = Anonymous
  Client = {c1}
  Request = {r1, r2}
  SessionId = {x1, x2}
  UserId = {1, 2}
  Username <- Names
  InitialNames <- OnlyBob
  ObsoleteUsers = {1}
  Configs <- Rotation
  MaxHashes = 3
  MaxPasswords = 2
  MaxCalls = 2
SYMMETRY Symmetry
INVARIANTS
  SessionsAreWhole
  ExtensionAgrees
PROPERTIES
  ServedKnowsPassword
  RejectedForAReason
  DeletedStaysDeleted
