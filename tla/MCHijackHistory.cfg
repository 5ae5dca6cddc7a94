SPECIFICATION LogSpec
CONSTANTS
  Users = {"ann", "bob"}
  Uris = {"doc", "mail"}
  Unnamed = ""
  MCP_CHAIN_TTL_STEPS = 2
  LoggedCalls <- MCLoggedCalls
  MaxCalls = 6
INVARIANTS
  TypeOK
  HitExactlyWhenChained
PROPERTY
  ImplementsMonitor
CHECK_DEADLOCK FALSE
