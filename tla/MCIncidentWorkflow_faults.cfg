CONSTANTS
  s1 = s1
  s2 = s2
  p1 = p1
  p2 = p2
  NoSlot = NoSlot
  NoPlan = NoPlan
  Slots <- MCSlots
  Plans <- MCPlans
  Enabled = {"issue", "slack", "pr"}
  MaxAttempts <- MCAttempts
  MaxSignals = 1
  FaultBudgets <- MCFaults
SPECIFICATION Spec
SYMMETRY Symmetry
CHECK_DEADLOCK FALSE
INVARIANTS
  TypeOK
  IssueDuplicatesNeedOverlap
  ArtifactInv
  MarkedPlanIsInPr
  
  CompletedStatusStored
PROPERTY StatusForward
