CONSTANTS
  Snapshots <- MCSnapshots
  EmptySnapshot = "empty"
  Lines <- MCLines
  FirstLine = "localhost"
  Begin = "# BEGIN"
  End = "# END"
  Torn = Torn
  NoFile = NoFile
  NoHash = NoHash
  MaxChanges = 2
  MaxRestarts = 1
SPECIFICATION FairSpec
INVARIANTS TypeOK UserLinesKept HashTellsBlock
PROPERTY SnapshotReaches
