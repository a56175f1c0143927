\* An operator, a rollout, and a process that exports or serves; a call
\* fails or lies, or a process is killed.  Sessions are bounded, so all may come to rest.
SPECIFICATION ReleaseSpec
CONSTANTS
  ann = ann
  guard = guard
  Operators = {ann, guard}
  Versions = {v1, v2}
  Stages <- Stage2
  None = None
  NoTag = NoTag
  Duties <- Team
  MaxSessions = 3
  MaxFailures = 1
  MaxMishaps = 1
  Readers = {r1, r2}
  Guard = guard
  Absent = Absent
  Partial = Partial
  MaxFaults = 1
  MaxAtOnce = 2
SYMMETRY Symmetry
CHECK_DEADLOCK FALSE
INVARIANTS
  LoadedValidated
  BundlesWerePromoted
  ApprovalShared
PROPERTIES
  ReleasesImmutable
  RestoredTogether
  RollbackStaysPossible
