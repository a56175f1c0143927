\* A promotion that failed leaves its tags behind.
SPECIFICATION Spec
CONSTANTS
  ann = ann
  bob = bob
  Operators = {ann}
  Versions = {v1, v2, v3}
  Stages <- Stage2
  None = None
  NoTag = NoTag
  Duties <- Alone
  MaxSessions = 6
  MaxFailures = 1
  MaxMishaps = 0
SYMMETRY Symmetry
CHECK_DEADLOCK FALSE
PROPERTIES
  RestoresReplaced
