SPECIFICATION GraphSpec
CONSTANTS
  Invented = {"guess"}
  Setups <- MCSetups
  RcaAnswers <- MCRcaAnswers
  PlanAnswers <- MCPlanAnswers
  ReportAnswers <- MCReportAnswers
  ReadAttempts = 2
  MinConfidence = 40
INVARIANTS
  LowEvidenceEscalates
CHECK_DEADLOCK FALSE
