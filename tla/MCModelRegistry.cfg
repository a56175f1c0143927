\* Two operators, one of them on both stages; a call fails, a process is killed.
\* Sessions are bounded, so all may come to rest.
SPECIFICATION Spec
CONSTANTS
  ann = ann
  bob = bob
  Operators = {ann, bob}
  Versions = {v1, v2, v3}
  Stages <- Stage2
  None = None
  NoTag = NoTag
  Duties <- Team
  MaxSessions = 4
  MaxFailures = 1
  MaxMishaps = 1
SYMMETRY Symmetry
CHECK_DEADLOCK FALSE
INVARIANTS
  TypeOK
  AliasesValidated
  AliasFollowsSuccess
PROPERTIES
  RestoresReplacedUnlessFailed
