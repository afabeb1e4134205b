CONSTANTS
  c1 = c1
  c2 = c2
  m1 = m1
  m2 = m2
  k1 = k1
  k2 = k2
  i1 = i1
  i2 = i2
  i3 = i3
  NoKey = NoKey
  NoId = NoId
  Consumers <- MCConsumers
  Messages <- MCMessages
  Keys <- MCKeys
  Ids <- MCIds
  AlertsOf <- MCRepeatingAlerts
  SharedOffsets = FALSE
  ResumeAtLatest = FALSE
  StartWorkflows = FALSE
  MaxRebalances = 0
  MaxCrashes = 2
  MaxErrors = 1
  MaxStartFailures = 0
SPECIFICATION Spec
SYMMETRY Symmetry
CHECK_DEADLOCK FALSE
INVARIANT OneIncidentPerKey
PROPERTY ImplementsRegistry
