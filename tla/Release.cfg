SPECIFICATION FairSpec
CONSTANTS
  v2 = v2
  v3 = v3
  None = None
  Flavor <- MCFlavor
  Build <- MCBuild
  Lto <- MCLto
  FpuObject <- MCFpuObject
  LtoExcluded <- MCLtoExcluded
  Reviewed <- MCReviewed
  Major <- MCMajor
  What <- MCWhat
  Yields <- MCYields
  MaxCommit = 2
  MaxSurprise = 3
INVARIANT TypeOK
INVARIANT ReleasedIsQualified
INVARIANT PrTestsItself
PROPERTY CachesCollected
PROPERTY ReleasedUnlessMixed
