CONSTANTS
  heartbeat = heartbeat
  metrics = metrics
  Callers <- MCBothLoops
  Main = Main
  Nobody = Nobody
  Torn = Torn
  Absent = Absent
  Environments <- MCEnvironments
SPECIFICATION FairSpec
INVARIANTS TypeOK ConnectionKept MaterialFits
PROPERTIES CallsEndBeforeExpiry RefusalCured
