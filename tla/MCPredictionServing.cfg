\* Safety of the request path with three requests competing for one slot and a
\* store of two entries, under settings where entries outlive predictions.
SPECIFICATION Spec
CONSTANTS
  Requests = {r1, r2, r3}
  Ids = {i1, i2, i3}
  Payloads = {p1, p2}
  Nobody = Nobody
  MaxConcurrent = 1
  MaxEntries = 2
  QueueTimeout = 1
  PredictionTimeout = 1
  Ttl = 3
  Grace = 1
  Lag = 0
  LastArrival = 3
  Horizon = 7
SYMMETRY Symmetry
INVARIANTS
  TypeOK
  SlotsConserved
  SingleOwner
  ReplayFaithful
  NoStrandedWaiter
PROPERTIES
  CapacityRefusalIsLoad
  EntryLossJustified
