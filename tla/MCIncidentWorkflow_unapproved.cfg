CONSTANTS
  s1 = s1
  s2 = s2
  p1 = p1
  p2 = p2
  NoSlot = NoSlot
  NoPlan = NoPlan
  Slots <- MCSlots
  Plans <- MCPlans
  Enabled = {"pr"}
  MaxAttempts <- MCAttempts
  MaxSignals = 1
  FaultBudgets <- MCOneCrash
SPECIFICATION Spec
CHECK_DEADLOCK FALSE
INVARIANT PrNeedsApproval
