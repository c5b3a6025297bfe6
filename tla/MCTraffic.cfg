CONSTANTS
  Clients = {c1}
  Copiers = {k1, k2, k3}
  Quotas = {0, 1, 2}
  Seed <- MCSeed
  NoQuota = NoQuota
  MaxChunks = 3
  MaxCrashes = 2
SPECIFICATION Spec
SYMMETRY CopierSymmetry
INVARIANTS TypeOK NotifiedOnce LedgerExact
