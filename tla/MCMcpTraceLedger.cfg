SPECIFICATION LedgerSpec
CONSTANTS
  Ids = {"1", "2"}
  Sources = {"docs", "logs"}
  Tools = {"search", "fetch"}
  Events = {"e1"}
  None = ""
  SESSION_LIST_LIMIT = 2
  LoggedTraces <- MCLoggedTraces
INVARIANTS
  TypeOK
  BoundToRequest
  NoFalseAlarm
  LateResultFlagged
CHECK_DEADLOCK FALSE
