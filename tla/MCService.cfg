\* Two requests that may share an id, one slot, timers that may be served late and
\* predictions that outlive their timeout; or four events against a queue of two and
\* batches of at most two, with storage failures, shutdown at any time and crashes.
\* No symmetry: it is unsound for liveness.
SPECIFICATION ServiceSpec
CONSTANTS
  Events = {e1, e2, e3, e4}
  Capacity = 2
  BatchLimit = 2
  Requests = {r1, r2}
  Ids = {i1, i2}
  Payloads = {p1}
  Nobody = Nobody
  MaxConcurrent = 1
  MaxEntries = 2
  QueueTimeout = 1
  PredictionTimeout = 1
  Ttl = 5
  Grace = 1
  Lag = 1
  LastArrival = 1
  Horizon = 10
INVARIANTS
  WriterInv
  LossesCounted
PROPERTIES
  ImplementsIntake
  AcceptedIsStored
  CloseReturns
  EveryRequestAnswered
  ShutdownCompletes
  SlotsComeBack
