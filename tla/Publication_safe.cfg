SPECIFICATION Spec
CONSTANTS
  None = None
  Pub = {a, b, c}
  Key = {k1, k2}
  LateMutable = FALSE
  Reproducible = FALSE
  Retried = {}
  MaxLate = 1
SYMMETRY Symmetry
CHECK_DEADLOCK FALSE
INVARIANT TypeOK
INVARIANT ClientComplete
INVARIANT StateComplete
INVARIANT StateNeverAhead
INVARIANT TombstonesArePermanent
PROPERTY CommitFollows
PROPERTY DeletesTombstonesOnly
PROPERTY ImplementsRepository
