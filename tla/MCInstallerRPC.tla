---------------------------- MODULE MCInstallerRPC ----------------------------
(***************************************************************************)
(* Small instances of InstallerRPC for TLC.                                *)
(***************************************************************************)
EXTENDS InstallerRPC, TLC

CONSTANTS c1, c2, c3, r1, r2, r3, m1, m2

MCCalls == {c1, c2, c3}
MCTwoCalls == {c1, c2}
MCTwoRequests == {r1, r2}
MCThreeRequests == {r1, r2, r3}
MCTwoModules == {m1, m2}
MCOneSet == {{"restart", "uninstall"}}
MCCapabilities == {{"restart", "uninstall"}, {"restart"}}

TwoNames == {"ums", "paas"}
TwoModules == ("ums" :> m1) @@ ("paas" :> m2)

CallSymmetry == Permutations(Calls) \cup Permutations(Requests)
=============================================================================
