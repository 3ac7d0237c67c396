SPECIFICATION FairSpec
CONSTANTS
  p1 = p1
  p2 = p2
  q = q
  s = s
  lifecycle = lifecycle
  later = later
  site = site
  Worker = {p1, s}
  Nobody = Nobody
  Run = {lifecycle, site}
  RunOf <- MCRunOf
  AttemptOf <- MCAttemptOf
  WaitOf <- MCWaitOf
  SiteWait = 3
  TTL = 2
  Grace = 1
  Window = 0
  MaxSkew = 0
  MaxOp = 1
  StepsBounded = FALSE
  ProofSound = TRUE
  MaxCheckpoints = 1
  MaxLate = 1
  MaxAttempt = 1
  MaxTime = 4
CHECK_DEADLOCK FALSE
PROPERTY OrphanRecovered
PROPERTY AcquireTerminates
PROPERTY EvictionIsStale
