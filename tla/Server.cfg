CONSTANTS
  None = None
  MaxTime = 3
  Callers = {c1}
  Macs = {n1, n2}
  Rigs = {r1, r2}
  Edits = 2
  Miners = {m1}
  Synths = {s1}
  Ips = {i1, i2}
  Nowhere = Nowhere
  Engines = {e1, e2, e3}
  Clients = {t1, t2}
  Requests = 3
  Hosts = {h1, h2}
  MadeUp = {u1}
SPECIFICATION Spec
INVARIANT TypeOK
PROPERTY NoncesGrow
INVARIANT Truthful
INVARIANT RemovedStaysRemoved
INVARIANT EngineAtItsAddress
INVARIANT MigrationLosesNoFile
PROPERTY CacheCatchesUp
CHECK_DEADLOCK FALSE
