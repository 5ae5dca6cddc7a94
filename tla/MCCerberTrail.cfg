SPECIFICATION TrailSpec
CONSTANTS
  Calls <- MCCalls
  MaxCalls = 5
  MaxReasonCodes = 10
  SECURITY_REASON_CODES = {}
  LOW_IMPACT_REASON_CODES = {}
  RECENT_REASON_CODES_LIMIT = 3
  None = ""
  SESSION_LIST_LIMIT = 3
  Ids = {"1", "2"}
  Sources = {"docs"}
  Tools = {"search"}
  Events = {}
  Users = {"ann"}
  Uris = {"doc"}
  MCP_CHAIN_TTL_STEPS = 8
  PARTIAL_FLOOD = 3
  PAYMENT_VARIANTS = 2
  ORACLE_VARIANTS = 2
  INTENT_LIFE = 2
  SideEffectingTools = {"send_mail", "deploy", "write_file"}
  ConfinedTools = {"send_mail", "deploy", "write_file", "read_secret", "repo.push"}
  Underscored <- MCUnderscored
  GoalTools = {"deploy", "read_secret"}
  ApprovedPaths = {"approved"}
  Catalogue <- MCCatalogue
  Themes <- MCThemes
INVARIANTS
  FloodExactly
  NotifyAfterUnsubscribeCaught
  DowngradeNeverSilent
  AmplificationNeedsSeed
  ProbesCaught
  PlainCallHeldByOracleOnly
  ApprovalBoundToEvent
  ScopeBindsUntilReplaced
  DirectedToolCaught
  ExfiltrationCaught
  WrittenThenRunCaught
  LateMarkerRecognised
  PoisonFollowsMarkers
CHECK_DEADLOCK FALSE
