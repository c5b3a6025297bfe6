CONSTANTS
  Conns = {c1, c2}
  Alice = alice
  Names = {alice, bob}
  Default = default
  AliceToken = ta
  Tokens = {main, ta}
  MainToken = main
  ConfigClients <- AliceConfigured
  ProxyNames = {p1}
  Types = {"tcp"}
  Ports = {80, 90}
  AllowNames = {p1}
  AllowPorts = {80}
  ApiCalls = {a1, a2}
  MaxApiCalls = 2
  MaxRestarts = 0
  StoreMayFail = FALSE
  NoName = NoName
  NoToken = NoToken
  NoProxy = NoProxy
SYMMETRY Symmetry
SPECIFICATION Spec
INVARIANT RemovedClientOffline
CHECK_DEADLOCK FALSE
