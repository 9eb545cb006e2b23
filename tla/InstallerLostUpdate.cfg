CONSTANTS
  c1 = c1
  c2 = c2
  c3 = c3
  r1 = r1
  r2 = r2
  r3 = r3
  m1 = m1
  m2 = m2
  Calls <- MCTwoCalls
  Requests <- MCTwoRequests
  Modules <- MCTwoModules
  NoRequest = NoRequest
  NoModule = NoModule
  NoRecord = NoRecord
  SaveFaults = {}
  CrashTears = {}
  ReadFaults = FALSE
  Names <- TwoNames
  KeyOf <- TwoModules
  NoEntry = NoEntry
  NoVersion = NoVersion
  CapabilitySets <- MCOneSet
  InventoryFaults = FALSE
  AllowCrash = FALSE
SPECIFICATION RpcSpec
INVARIANT CompletedInstallIsRecorded
CHECK_DEADLOCK FALSE
