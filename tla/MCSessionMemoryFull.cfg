SPECIFICATION MemorySpec
CONSTANTS
  Calls <- MCRepeatCalls
  MaxCalls = 5
  MaxReasonCodes = 10
  SECURITY_REASON_CODES <- MCSecurityCodes
  LOW_IMPACT_REASON_CODES <- MCLowImpactCodes
  RECENT_REASON_CODES_LIMIT = 3
INVARIANT
  CurrentInjectionReported
CHECK_DEADLOCK FALSE
