SPECIFICATION FairSpec
CONSTANTS
  Threads = {t1, t2, t3}
  Items = {i1, i2}
  Limit = 1
  MaxTries = 2
  Validated = TRUE
  MayFail = TRUE
  None = None
INVARIANTS Exclusive ExactCount
PROPERTIES ImplementsPool GetReturns
