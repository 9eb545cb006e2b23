CONSTANTS
  p1 = p1
  p2 = p2
  p3 = p3
  Installs <- MCInstalls
  Artifacts <- MCArtifacts
  Temps <- MCTemps
  SizeOf <- MCSizes
  MaxBytes = 4
  Nobody = Nobody
  None = None
SPECIFICATION Spec
SYMMETRY MCSymmetry
INVARIANTS TypeOK UnpacksVerified CacheBounded
PROPERTIES EvictsAboveLimit
