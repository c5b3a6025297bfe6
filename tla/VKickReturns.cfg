CONSTANTS
  Threads = {t1, t2, t3}
  Cap = 1
  None = None
SPECIFICATION FairSpec
PROPERTY KickReturns
CHECK_DEADLOCK FALSE
