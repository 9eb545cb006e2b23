CONSTANTS
  c1 = c1
  c2 = c2
  c3 = c3
  r1 = r1
  r2 = r2
  r3 = r3
  m1 = m1
  m2 = m2
  Calls <- MCCalls
  Requests <- MCThreeRequests
  Modules <- MCTwoModules
  NoRequest = NoRequest
  NoModule = NoModule
  NoRecord = NoRecord
  SaveFaults = {}
  CrashTears = {"partial"}
  ReadFaults = FALSE
  Names <- TwoNames
  KeyOf <- TwoModules
  NoEntry = NoEntry
  NoVersion = NoVersion
  CapabilitySets <- MCCapabilities
  InventoryFaults = TRUE
  AllowCrash = TRUE
SPECIFICATION RpcSpec
SYMMETRY CallSymmetry
INVARIANTS RpcTypeOK ModuleExclusion RecordedWasInstalled RecordedIsDeployed
CHECK_DEADLOCK FALSE
