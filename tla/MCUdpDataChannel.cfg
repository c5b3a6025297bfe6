CONSTANTS
  Users = {u1, u2}
  MaxSessions = 2
  PendingMax = 2
  NoUser = NoUser
  NoAddr = NoAddr
SPECIFICATION Spec
INVARIANTS TypeOK SessionIndexExact RepliesReachOrigin StrandedAtMostOne
