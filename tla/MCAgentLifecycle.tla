--------------------------- MODULE MCAgentLifecycle ---------------------------
(***************************************************************************)
(* Small instances of AgentLifecycle for TLC.                              *)
(***************************************************************************)
EXTENDS AgentLifecycle, TLC

CONSTANTS h1, h2

MCHandlers == {h1, h2}
=============================================================================
