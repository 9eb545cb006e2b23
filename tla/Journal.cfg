CONSTANTS
  c1 = c1
  c2 = c2
  c3 = c3
  r1 = r1
  r2 = r2
  m1 = m1
  Calls <- MCCalls
  Requests <- MCRequests
  Modules <- MCModules
  NoRequest = NoRequest
  NoModule = NoModule
  NoRecord = NoRecord
  SaveFaults = {"denied", "blank", "partial"}
  CrashTears = {"blank", "partial"}
  ReadFaults = TRUE
SPECIFICATION FairSpec
INVARIANTS ModuleExclusion AtMostOnce ReplayTruthful AnswerDurable LockLeaksOnlyByAbandoning RunningHasOwner
PROPERTIES TerminalIsFinal ImplementsModuleOperations LockedModuleFreed
CHECK_DEADLOCK FALSE
