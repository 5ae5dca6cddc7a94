SPECIFICATION MemorySpec
CONSTANTS
  Calls <- MCCalls
  MaxCalls = 6
  MaxReasonCodes = 10
  SECURITY_REASON_CODES <- MCSecurityCodes
  LOW_IMPACT_REASON_CODES <- MCLowImpactCodes
  RECENT_REASON_CODES_LIMIT = 4
INVARIANTS
  RepeatedBlocksReported
  SensitiveSequenceReported
PROPERTY
  MemoryHoldsNewest
CHECK_DEADLOCK FALSE
