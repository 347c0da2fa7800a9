SPECIFICATION FairSpec
CONSTANTS
  c1 = c1
  c2 = c2
  r1 = r1
  r2 = r2
  Calls = {c1, c2}
  Requests = {r1, r2}
  Environments <- MCEnvironments
  Extensions <- MCExtensions
  Pages = {"/", "/about"}
  NoMux = NoMux
  Nobody = Nobody
INVARIANTS ServesEverything CutOffOnlyLate
PROPERTIES EndsCompletely
CHECK_DEADLOCK FALSE
