SPECIFICATION Spec
CONSTANTS
  Payloads <- MCPayloads
  Plain <- MCPlain
  Calls <- MCCalls
  MaxDecodeRounds = 2
  ANNOTATION_CONFIDENCE_THRESHOLD = 80
  RuleIds <- MCRuleIds
  SoftBase <- MCSoftBase
  MaxReasonCodes = 10
INVARIANTS
  FoundOnceAndInTime
  CommandBlocked
  EvidencePullsOneWay
  ForeignResultBlocked
CHECK_DEADLOCK FALSE
