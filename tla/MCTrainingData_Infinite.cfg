\* Rows with an infinite amount or balance through every check of both routes.
SPECIFICATION DataSpec
CONSTANTS
  Writers = {w1}
  Absent = Absent
  MaxJobs = 1
  MaxLoads = 0
  MaxKills = 0
  MaxAtOnce = 1
CHECK_DEADLOCK FALSE
INVARIANT
  FeaturesFinite
