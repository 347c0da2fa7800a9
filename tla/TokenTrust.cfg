SPECIFICATION FairSpec
CONSTANTS
  Names = {"oidc-keys"}
  Keyset = "oidc-keys"
  Replicas = {r1, r2}
  Requests = {q1, q2}
  MaxKeys = 2
  MaxTokens = 1
  MaxStarts = 3
INVARIANTS RefusedForCause Revoked
PROPERTIES EveryRequestAnswered
CHECK_DEADLOCK FALSE
