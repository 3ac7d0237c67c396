SPECIFICATION FairSpec
CONSTANTS
  None = None
  Pub = {a, b}
  Key = {k1, k2}
  LateMutable = FALSE
  Reproducible = TRUE
  Retried = {b}
  MaxLate = 1
CHECK_DEADLOCK FALSE
PROPERTY Converges
