SPECIFICATION Spec
CONSTANTS
  None = ""
  SESSION_LIST_LIMIT = 2
  Clients <- MCClients
  Calls <- MCCalls
  Kinds <- MCKinds
  MaxCalls <- MCMaxCalls
  MaxInFlight = 2
INVARIANTS
  HeldOnlyForOwn
  AloneNeverLost
PROPERTIES
  ImplementsCentral
  EveryCallSettled
CHECK_DEADLOCK FALSE
