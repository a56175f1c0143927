\* One retraining under a policy that asks for less recall than the configuration,
\* after a version to compare with.
SPECIFICATION TrainingSpec
CONSTANTS
  Versions = {v1, v2}
  None = None
  Samples <- ThreeModels
  Keep <- HashSample
  Results <- TestResults
  Config <- SmallConfig
  Policies <- TwoPolicies
CHECK_DEADLOCK FALSE
INVARIANT
  DiagnosticOnlyRejected
