CONSTANTS
  Users = {u1, u2}
  NoConn = NoConn
SPECIFICATION Spec
INVARIANT NoConnLeftInChannel
CHECK_DEADLOCK FALSE
