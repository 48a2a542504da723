CONSTANTS
  NUM = 3
  MaxIn = 2
  MaxOut = 2
  Failures = {"alloc", "convert", "register", "empty"}
  Reuse = TRUE
SPECIFICATION FairSpec
INVARIANTS TypeOK FramesIntact PoolPrefix PoolComplete
PROPERTY EtbReturns
CHECK_DEADLOCK FALSE
