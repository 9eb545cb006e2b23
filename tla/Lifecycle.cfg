CONSTANTS
  h1 = h1
  h2 = h2
  Handlers <- MCHandlers
  Stuck = {"heartbeat", "metrics"}
SPECIFICATION FairSpec
INVARIANTS DisconnectedAtExit
PROPERTIES SignalEndsAgent FailureEndsAgent
CHECK_DEADLOCK FALSE
