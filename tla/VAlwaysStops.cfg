CONSTANTS
  alice = alice
  bob = bob
  ca = ca
  cb = cb
  t1 = t1
  Users = {alice}
  Clients = {ca}
  Names = {t1, t2}
  Keys = {k}
  Requests = {r1, r2}
  Tunnels <- OneClient
  Databases <- EmptyOrOne
  Inputs <- OneTarget
  ConfigKeys = {k}
  Owner <- MCOwner
  Limits = {1}
  Nobody = Nobody
  None = None
  MaxCalls = 2
  MaxFaults = 1
SPECIFICATION Spec
INVARIANT AlwaysStops
CHECK_DEADLOCK FALSE
