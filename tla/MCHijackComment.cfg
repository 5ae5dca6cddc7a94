SPECIFICATION LogSpec
CONSTANTS
  Users = {"ann", "bob"}
  Uris = {"doc", "mail"}
  Unnamed = ""
  MCP_CHAIN_TTL_STEPS = 2
  LoggedCalls <- MCLoggedCalls
  MaxCalls = 5
INVARIANT
  HitNeedsCompletedHandshake
CHECK_DEADLOCK FALSE
