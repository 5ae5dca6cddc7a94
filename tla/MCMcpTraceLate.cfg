SPECIFICATION LedgerSpec
CONSTANTS
  Ids = {"1", "2"}
  Sources = {"docs", "logs"}
  Tools = {"search", "fetch"}
  Events = {"e1"}
  None = ""
  SESSION_LIST_LIMIT = 2
  LoggedTraces <- MCFixtureTraces
INVARIANT
  LateResultFlagged
CHECK_DEADLOCK FALSE
