----------------------------- MODULE MCHostRouting -----------------------------
(***************************************************************************)
(* A small instance of HostRouting for TLC: two snapshots and two lines.   *)
(***************************************************************************)
EXTENDS HostRouting

MCSnapshots == {"empty", "s1"}
MCLines == {"localhost", "added"}
=============================================================================
