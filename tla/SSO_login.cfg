SPECIFICATION Spec
CONSTANTS
  b1 = b1
  r1 = r1
  r2 = r2
  Browsers = {b1}
  Requests = {r1, r2}
  Home <- MCHome
  SIDs = {s1}
  NoSID = NoSID
  Unknown = Unknown
  MaxWrites <- MCMaxWrites
  Values <- SessionData
  Empty <- EmptyData
  Users = {u, v}
  NoUser = NoUser
  Nonces = {n1}
  NoNonce = NoNonce
  Redirects = {TRUE}
  MaxLogouts = 1
INVARIANTS IdentityEarned
PROPERTIES IdentitiesAgree SignInAndOutTakeEffect CompletedOnce
SYMMETRY Alike
