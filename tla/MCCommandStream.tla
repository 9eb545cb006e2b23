---------------------------- MODULE MCCommandStream ----------------------------
(***************************************************************************)
(* A small instance of CommandStream for TLC: two pipes that hold two lines *)
(* at most, and three lines for each, so that a writer can block.          *)
(***************************************************************************)
EXTENDS CommandStream

MCStreams == {"stdout", "stderr"}
=============================================================================
