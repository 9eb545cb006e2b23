CONSTANTS
  Streams <- MCStreams
  Free = "free"
  MaxLines = 3
  PipeCap = 2
  LongLines = TRUE
SPECIFICATION FairSpec
INVARIANTS ResultIsComplete NothingLeftBehind
PROPERTY CallEnds
CHECK_DEADLOCK FALSE
