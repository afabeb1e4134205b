CONSTANTS
  c1 = c1
  c2 = c2
  m1 = m1
  m2 = m2
  k1 = k1
  k2 = k2
  i1 = i1
  i2 = i2
  i3 = i3
  NoKey = NoKey
  NoId = NoId
  Consumers <- MCConsumers
  Messages <- MCMessages
  Keys <- MCKeys
  Ids <- MCIds
  AlertsOf <- MCAlertsOf
  SharedOffsets = TRUE
  ResumeAtLatest = FALSE
  StartWorkflows = TRUE
  MaxRebalances = 1
  MaxCrashes = 1
  MaxErrors = 1
  MaxStartFailures = 1
SPECIFICATION Spec
SYMMETRY Symmetry
CHECK_DEADLOCK FALSE
INVARIANTS
  TypeOK
  DriverInv
  OneIncidentPerKey
  OneStartPerIncident
  ValidatedBeforeWorkflow
  AttachedIsRunning
  OrphansNeedFaults
PROPERTY ImplementsRegistry
