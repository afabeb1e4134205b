CONSTANTS
  c1 = c1
  c2 = c2
  m1 = m1
  m2 = m2
  k1 = k1
  k2 = k2
  i1 = i1
  i2 = i2
  i3 = i3
  NoKey = NoKey
  NoId = NoId
  Consumers <- MCConsumers
  Messages <- MCMessages
  Keys <- MCKeys
  Ids <- MCIds
  AlertsOf <- MCAlertsOf
  SharedOffsets = TRUE
  ResumeAtLatest = FALSE
  StartWorkflows = TRUE
  MaxRebalances = 1
  MaxCrashes = 0
  MaxErrors = 0
  MaxStartFailures = 0
SPECIFICATION FairSpec
CHECK_DEADLOCK FALSE
PROPERTIES
  AlertBecomesIncident
  EveryIncidentGetsWorkflow
