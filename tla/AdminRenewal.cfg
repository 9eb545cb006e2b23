CONSTANTS
  heartbeat = heartbeat
  metrics = metrics
  Callers <- MCHeartbeatOnly
  Main = Main
  Nobody = Nobody
  Torn = Torn
  Absent = Absent
  Environments <- MCAgeing
SPECIFICATION FairSpec
PROPERTY CallsEnd
CHECK_DEADLOCK FALSE
