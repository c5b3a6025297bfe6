CONSTANTS
  Clients = {c1}
  Copiers = {k1, k2}
  Quotas = {0, 1, 2}
  Seed <- MCSeed
  NoQuota = NoQuota
  MaxChunks = 4
  MaxCrashes = 2
SPECIFICATION Spec
SYMMETRY CopierSymmetry
INVARIANT OverQuotaAfterRestart
