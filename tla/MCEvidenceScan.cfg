SPECIFICATION Spec
CONSTANTS
  RuleIds <- MCRuleIds
  SoftBase <- MCSoftBase
  MaxReasonCodes = 10
  TextTries <- MCTextTries
  StructuralTries <- MCStructuralTries
  Domains <- MCDomains
  tools <- MCTools
  PolicyRequests <- MCPolicyRequests
INVARIANTS
  NoVoteLost
  NoClauseOverruled
  MissingNeverStricter
PROPERTY
  MoreEvidenceNeverWeakens
CHECK_DEADLOCK FALSE
