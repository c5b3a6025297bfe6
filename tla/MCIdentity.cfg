CONSTANTS
  Conns = {c1, c2}
  Alice = alice
  Names = {alice, bob}
  Default = default
  AliceToken = ta
  Tokens = {main, ta, tb}
  MainToken = main
  ConfigClients <- AliceConfigured
  ProxyNames = {p1}
  Types = {"tcp"}
  Ports = {80}
  AllowNames = {p1}
  AllowPorts = {80}
  ApiCalls = {a1, a2}
  MaxApiCalls = 2
  MaxRestarts = 1
  StoreMayFail = TRUE
  NoName = NoName
  NoToken = NoToken
  NoProxy = NoProxy
SYMMETRY Symmetry
SPECIFICATION Spec
INVARIANTS RegisteredAuthentic TenantAuthIsolation DurableAdd
CHECK_DEADLOCK FALSE
