SPECIFICATION Spec
CONSTANTS
  Calls <- ScoredCalls
  RuleIds <- MCRuleIds
  SoftBase <- MCSoftBase
  MaxReasonCodes = 10
  SECURITY_REASON_CODES <- MCSecurityCodes
  LOW_IMPACT_REASON_CODES <- MCLowImpactCodes
  RECENT_REASON_CODES_LIMIT = 3
  Requests <- MCRequests
  MaxCalls = 8
INVARIANTS
  TypeOK
  SignalEscalates
  NoAllowAboveThreshold
  CalmRecovers
PROPERTY
  CalmNeverRaises
CHECK_DEADLOCK FALSE
