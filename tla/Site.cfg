SPECIFICATION Spec
CONSTANTS
  Doc = {"readme", "guide", "todo", "pool"}
  Home = "readme"
  Required = {"readme"}
  Excluded = {"todo"}
  UrlOf <- MCUrlOf
  Asset = {"a", "b", "map"}
  Pruned = {"map"}
  Reserved = {"pool/index.html"}
  Tree <- MCTree
  None = None
  MaxObjects = 4
  MaxDeletions = 2
  MaxCommits = 3
  MaxLate = 1
CHECK_DEADLOCK FALSE
INVARIANT TypeOK
INVARIANT NoPageBeforeItsAssets
INVARIANT VerifiedSiteIsWhole
PROPERTY NeverOlderSite
PROPERTY Converges
