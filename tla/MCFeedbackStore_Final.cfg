\* One id whose label is purged and then submitted again.
SPECIFICATION Spec
CONSTANTS
  Ids = {i1}
  Clients = {c1}
  Nobody = Nobody
  NoLabel = NoLabel
  Outcomes = {fraud, legitimate}
  Retention = 2
  Window = 1
  LabelGrace = 1
  MaxEvents = 1
  Leeway = 0
  JobSpan = 1
  LastTime = 3
PROPERTIES
  LabelIsFinal
