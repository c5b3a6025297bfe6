CONSTANTS
  IPs = {remote, local, trusted}
  Whitelist = {trusted}
  Loopback = {local}
  Handlers = {h1, h2, h3}
  maxConn = 2
  minInterval = 1
  banDuration = 2
  banThreshold = 2
  MaxTime = 3
  Never = Never
  NoIP = NoIP
SPECIFICATION GuardSpec
INVARIANTS GuardTypeOK CountExact LimitHolds
PROPERTY BansAreServed
