CONSTANTS
  heartbeat = heartbeat
  metrics = metrics
  Callers <- MCBothLoops
  Main = Main
  Nobody = Nobody
  Torn = Torn
  Absent = Absent
  Environments <- MCRefusals
SPECIFICATION Spec
INVARIANT RecoveryLeavesMaterial
CHECK_DEADLOCK FALSE
