\* Two pipelines, then an approval and a training, two processes at a time; one is killed.
\* Or two trainings, plain or controlled, and promotions at any time; any call may fail.
\* Jobs, loads and trainings are bounded, so all may come to rest.
SPECIFICATION Spec
CONSTANTS
  Writers = {w1, w2}
  Absent = Absent
  MaxJobs = 2
  MaxLoads = 2
  MaxKills = 1
  MaxAtOnce = 2
  Versions = {v1, v2}
  None = None
  Samples <- ThreeModels
  Keep <- HashSample
  Results <- TestResults
  Config <- SmallConfig
  Policies <- TwoPolicies
SYMMETRY Symmetry
CHECK_DEADLOCK FALSE
INVARIANTS
  TrainsOnApproved
  WholeUnlessDisturbed
  PublishedRowsSound
  SplitsSound
  SampleKeepsFrauds
  PromotableWasServed
  OnlyPassedRegistered
  RunAgreesWithVersion
  LocalPairWhole
  ThresholdIsBest
PROPERTIES
  ImplementsRegistry
