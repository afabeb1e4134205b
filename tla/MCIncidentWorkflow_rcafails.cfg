CONSTANTS
  s1 = s1
  s2 = s2
  p1 = p1
  p2 = p2
  NoSlot = NoSlot
  NoPlan = NoPlan
  Slots <- MCSlots
  Plans <- MCPlans
  Enabled = {"issue"}
  MaxAttempts <- MCPolicyAttempts
  MaxSignals = 0
  FaultBudgets <- MCThreeErrors
SPECIFICATION FairSpec
CHECK_DEADLOCK FALSE
PROPERTY FailedRcaEscalates
