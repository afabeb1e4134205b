SPECIFICATION GraphSpec
CONSTANTS
  Invented = {"guess"}
  Setups <- MCSetups
  RcaAnswers <- MCRcaAnswers
  PlanAnswers <- MCPlanAnswers
  ReportAnswers <- MCReportAnswers
  ReadAttempts = 2
  MinConfidence = 40
INVARIANTS
  GraphTypeOK
  
  FileReadAllowed
  EscalationHolds
  StreamedIsState
  CallsAudited
CHECK_DEADLOCK FALSE
