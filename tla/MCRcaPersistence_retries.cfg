SPECIFICATION Spec
CONSTANTS
  c1 = c1
  c2 = c2
  MaxAttempts = 3
  Sources = {"kubernetes", "github"}
  Calls = {"logs", "chat"}
  Contents = {c1, c2}
  NoContent = NoContent
  Outputs <- MCOutputs
  ListLimit <- MCLimits
  MaxOutside = 1
INVARIANTS
  TypeOK
  DuplicatesNeedOverlap
  
  CompletedIsStored
  NewestPlanIsOwn
CHECK_DEADLOCK FALSE
