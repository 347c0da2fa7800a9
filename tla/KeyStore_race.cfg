SPECIFICATION FairSpec
CONSTANTS
  Servers = {s1, s2}
  Callers = {c1, c3}
  Names = {n1}
  Home <- MCHome
  Watchers = {s1}
  AskedTypes = {"RSA", "UNKNOWN"}
  MaxVersions = 4
  MaxKeys = 3
  MaxRestarts = 1
  s1 = s1
  s2 = s2
  c1 = c1
  c2 = c2
  c3 = c3
  n1 = n1
  n2 = n2
  NoName = NoName
INVARIANTS KeyAgreement LaterHoldersVerify MissingOnlyIfTakenAway BehindOnlyOnMissedDelete
PROPERTIES NeverHandedOlder RegistrySpec WatchConverges
