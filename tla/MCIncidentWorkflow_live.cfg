CONSTANTS
  s1 = s1
  s2 = s2
  p1 = p1
  p2 = p2
  NoSlot = NoSlot
  NoPlan = NoPlan
  Slots <- MCSlots
  Plans <- MCPlans
  Enabled = {"issue", "slack", "pr"}
  MaxAttempts <- MCAttempts
  MaxSignals = 2
  FaultBudgets <- MCOneCrash
SPECIFICATION FairSpec
CHECK_DEADLOCK FALSE
INVARIANT FirstEndingSignalWins
PROPERTIES
  EndingSignalEnds
  PipelineSettles
