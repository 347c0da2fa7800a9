SPECIFICATION Spec
CONSTANTS
  b1 = b1
  r1 = r1
  r2 = r2
  Browsers = {b1}
  Requests = {r1}
  Home <- MCHome
  SIDs = {s1}
  NoSID = NoSID
  Unknown = Unknown
  MaxWrites <- MCMoreWrites
  Values <- SessionData
  Empty <- EmptyData
  Users = {u, v}
  NoUser = NoUser
  Nonces = {n1, n2}
  NoNonce = NoNonce
  Redirects = {}
  MaxLogouts = 0
PROPERTIES LoginSetsToken
