SPECIFICATION Spec
CONSTANTS
  Source = {1, 2, 3, 4}
  ReleaseOf <- MCReleaseOf
  SeriesOf <- MCSeriesOf
  Revision = {0, 1}
  Variant = {0, 1}
  Limit = {4}
  Unlimited = Unlimited
  MaxSeries = 2
  Size <- MCSize
  Other = 1
  Reserve = 1
  Quiet = FALSE
  None = None
  MaxGen = 1
  MaxRest = 2
CHECK_DEADLOCK FALSE
INVARIANT TypeOK
INVARIANT PublishedIsLive
INVARIANT NewestKept
INVARIANT NoDeadBuild
PROPERTY NeverBackward
