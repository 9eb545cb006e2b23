--------------------------- MODULE MCOperationJournal ---------------------------
(***************************************************************************)
(* Small instances of OperationJournal for TLC.                            *)
(***************************************************************************)
EXTENDS OperationJournal

CONSTANTS c1, c2, c3, r1, r2, m1

MCCalls == {c1, c2, c3}
MCRequests == {r1, r2}
MCModules == {m1}
=============================================================================
