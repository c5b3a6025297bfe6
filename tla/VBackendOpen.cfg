CONSTANTS
  Users = {u1}
  MaxSessions = 1
  PendingMax = 2
  NoUser = NoUser
  NoAddr = NoAddr
SPECIFICATION FairSpec
PROPERTY BackendEventuallyClosed
CHECK_DEADLOCK FALSE
