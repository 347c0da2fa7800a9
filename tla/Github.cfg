SPECIFICATION Spec
CONSTANTS
  Replicas = {r1, r2}
  Installations = {1, 2, 3}
  AccountOf <- MCAccountOf
  PerPage = 1
  MaxStarts = 2
  MaxChanges = 1
  MaxFaults = 1
  Goroutines = {g1, g2}
  Held = {1, 2}
  Skews <- MCSkews
  TokenLife = 4
  JwtLife = 3
  Backdating = 1
  OwnMargin = 2
  ReuseMargin = 1
  MaxNow = 8
  Callers = {c1, c2}
  Users = {u1, u2}
  Names = {1, 2}
  Lifetimes = {1, 2}
  NeverExpires <- MCNeverExpires
  MaxTime = 3
  MaxIssued = 3
INVARIANTS SyncCovers FailsOnlyForCause CreationsSpaced RefusedOnlyIfSkewed
PROPERTIES SyncEnds LiveSessionPreferred RefreshNeverFallsBack
CHECK_DEADLOCK FALSE
