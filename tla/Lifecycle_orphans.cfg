SPECIFICATION FairSpec
CONSTANTS
  Source = {1, 2, 3}
  ReleaseOf <- MCReleaseOf
  SeriesOf <- MCSeriesOf
  Revision = {0}
  Variant = {0}
  Limit = {4}
  Unlimited = Unlimited
  MaxSeries = 2
  Size <- MCSize
  Other = 1
  Reserve = 1
  Quiet = TRUE
  None = None
  MaxGen = 2
  MaxRest = 3
CHECK_DEADLOCK FALSE
PROPERTY SettlesIfProtectedFit
