SPECIFICATION DisposableSpec
CONSTANTS
  One = One
  Two = Two
  x = x
  y = y
  Client = {One, Two}
  Key = {1, 2}
  Body = {x, y}
  None = None
  MaxAttempts = 2
  PageSize = 1
  MaxLate = 1
  Item = {1}
  Cas = 2
  Content <- MCContent
  Initial = x
  BodyOf <- MCBodyOf
  MaxCalls = 2
CHECK_DEADLOCK FALSE
INVARIANT TypeOK
INVARIANT RefusedNeverWrote
INVARIANT OkWasThere
INVARIANT ListIsSound
INVARIANT PassNeedsMatch
INVARIANT PassIsClean
PROPERTY EventuallyClean
