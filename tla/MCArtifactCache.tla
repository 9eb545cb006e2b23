---------------------------- MODULE MCArtifactCache ----------------------------
(***************************************************************************)
(* Small instances of ArtifactCache for TLC: a cache of 4 units, artifacts  *)
(* of 1, 3 and 5, of which the last does not fit, and what is left of       *)
(* downloads, of 1 and 2 units.                                             *)
(***************************************************************************)
EXTENDS ArtifactCache, TLC

CONSTANTS p1, p2, p3

MCInstalls == {p1, p2, p3}
MCArtifacts == {"small", "large", "huge"}
MCTemps == {"tmp1", "tmp2"}
MCSizes == [small |-> 1, large |-> 3, huge |-> 5, tmp1 |-> 1, tmp2 |-> 2]
MCSymmetry == Permutations(Installs)
=============================================================================
