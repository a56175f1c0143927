\* A ttl that Settings accepts but that ends before a slow prediction does: two
\* seconds of queue and prediction time against entries that live one.
SPECIFICATION Spec
CONSTANTS
  Requests = {r1, r2, r3}
  Ids = {i1, i2, i3}
  Payloads = {p1, p2}
  Nobody = Nobody
  MaxConcurrent = 1
  MaxEntries = 2
  QueueTimeout = 1
  PredictionTimeout = 1
  Ttl = 1
  Grace = 1
  Lag = 0
  LastArrival = 3
  Horizon = 7
SYMMETRY Symmetry
INVARIANT
  ReplayFaithful
