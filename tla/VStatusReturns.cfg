CONSTANTS
  Threads = {t1, t2, t3}
  Cap = 1
  None = None
SPECIFICATION FairSpec
PROPERTY StatusReturns
CHECK_DEADLOCK FALSE
