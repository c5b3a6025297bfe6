CONSTANTS
  alice = alice
  bob = bob
  ca = ca
  cb = cb
  t1 = t1
  Users = {alice, bob}
  Clients = {ca, cb}
  Names = {t1}
  Keys = {k}
  Requests = {r1}
  Tunnels <- SharedName
  Databases <- BothClients
  Inputs <- PathOnly
  ConfigKeys = {k}
  Owner <- MCOwner
  Limits = {1}
  Nobody = Nobody
  None = None
  MaxCalls = 2
  MaxFaults = 0
SPECIFICATION Spec
PROPERTY OwnRowsOnly
CHECK_DEADLOCK FALSE
