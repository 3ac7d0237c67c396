SPECIFICATION Spec
CONSTANTS
  p1 = p1
  p2 = p2
  q = q
  s = s
  lifecycle = lifecycle
  later = later
  site = site
  Worker = {p1, s}
  Nobody = Nobody
  Run = {lifecycle, site}
  RunOf <- MCRunOf
  AttemptOf <- MCAttemptOf
  WaitOf <- MCWaitOf
  SiteWait = 4
  TTL = 2
  Grace = 1
  Window = 0
  MaxSkew = 1
  MaxOp = 1
  StepsBounded = TRUE
  ProofSound = FALSE
  MaxCheckpoints = 1
  MaxLate = 1
  MaxAttempt = 2
  MaxTime = 4
CHECK_DEADLOCK FALSE
INVARIANT TypeOK
INVARIANT MutatorOwnsLease
INVARIANT MutationExclusive
PROPERTY ImplementsMutex
PROPERTY MutationStartsOwned
