\* A promotion between the check and the write of a rollback.
SPECIFICATION Spec
CONSTANTS
  ann = ann
  bob = bob
  Operators = {ann, bob}
  Versions = {v1, v2, v3}
  Stages <- Stage2
  None = None
  NoTag = NoTag
  Duties <- Team
  MaxSessions = 4
  MaxFailures = 0
  MaxMishaps = 0
SYMMETRY Symmetry
CHECK_DEADLOCK FALSE
PROPERTIES
  RollbackRefusesConcurrent
