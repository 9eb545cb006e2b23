CONSTANTS
  Leaves <- MCLeaves
  Inline <- MCInline
  Managed <- MCManaged
  Covers <- MCCovers
  UnitFile = "unit"
  SiteFile = "site"
  Atomic = {"binary"}
  Uncaptured = Uncaptured
  DiskFaults = TRUE
SPECIFICATION Spec
INVARIANTS FilesRestored OldReleaseRuns CompletedIsInstalled
CHECK_DEADLOCK FALSE
