\* Two predictions, two concurrent submissions and a monitoring job, over a clock
\* that lets labels and events expire while the job and late writes are under way.
SPECIFICATION Spec
CONSTANTS
  Ids = {i1, i2}
  Clients = {c1, c2}
  Nobody = Nobody
  NoLabel = NoLabel
  Outcomes = {fraud, legitimate}
  Retention = 2
  Window = 1
  LabelGrace = 1
  MaxEvents = 1
  Leeway = 1
  JobSpan = 2
  LastTime = 3
SYMMETRY Symmetry
INVARIANTS
  SubmissionInv
  RetainedLabelsStand
  LateMeansUnlabeled
  CountsCoverRows
