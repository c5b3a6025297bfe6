CONSTANTS
  Users = {u1, u2}
  NoConn = NoConn
SPECIFICATION Spec
INVARIANT NoEarlyRejection
CHECK_DEADLOCK FALSE
