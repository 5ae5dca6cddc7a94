SPECIFICATION Spec
CONSTANTS
  RuleIds <- MCNineRuleIds
  SoftBase <- MCNoSoft
  MaxReasonCodes = 10
  TextTries <- MCManyTries
  StructuralTries <- MCManyStructural
  Domains <- MCDomains
  tools <- MCTools
  PolicyRequests <- MCTwoRequests
INVARIANT
  PolicyKeepsRuleCodes
CHECK_DEADLOCK FALSE
