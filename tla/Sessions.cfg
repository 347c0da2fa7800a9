SPECIFICATION Spec
CONSTANTS
  b1 = b1
  b2 = b2
  r1 = r1
  r2 = r2
  r3 = r3
  Browsers = {b1, b2}
  Requests = {r1, r2, r3}
  Home <- MCHome
  SIDs = {s1, s2}
  NoSID = NoSID
  Values = {e, v}
  Empty = e
  Unknown = Unknown
  MaxWrites <- MCMaxWrites
INVARIANTS OnlyStoredSessions OneBrowserPerSession
PROPERTIES ReadsOwnWrites
