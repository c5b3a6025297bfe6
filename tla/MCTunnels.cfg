CONSTANTS
  Conns = {c1, c2}
  Alice = alice
  Names = {alice}
  Default = default
  AliceToken = ta
  Tokens = {main, ta}
  MainToken = main
  ConfigClients <- AliceConfigured
  ProxyNames = {p1, p2}
  Types = {"tcp", "udp", "other"}
  Ports = {80}
  AllowNames = {}
  AllowPorts = {}
  ApiCalls = {}
  MaxApiCalls = 0
  MaxRestarts = 1
  StoreMayFail = FALSE
  NoName = NoName
  NoToken = NoToken
  NoProxy = NoProxy
SPECIFICATION FairSpec
INVARIANTS TypeOK TunnelsOwned SocketsExact
PROPERTIES TunnelIsolation ClosedIsCleanedUp
CHECK_DEADLOCK FALSE
