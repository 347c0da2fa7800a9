SPECIFICATION FairSpec
CONSTANTS
  Callers = {c1, c2}
  Accounts = {a, b}
  NoAccount = NoAccount
  UserIDs = {1, 2, 3, 4, 5}
  shared = shared
  NamespaceFor <- MCSingleNamespace
  MaxFaults = 2
INVARIANTS UsersDoNotAccumulate
PROPERTIES SettledForever RetriesSucceed
