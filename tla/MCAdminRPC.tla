------------------------------ MODULE MCAdminRPC ------------------------------
(***************************************************************************)
(* Small instances of AdminRPC for TLC: the callers are the heartbeat loop  *)
(* and the metrics loop of lifecycle.go, which call the client alike.      *)
(***************************************************************************)
EXTENDS AdminRPC, TLC

CONSTANTS heartbeat, metrics

MCHeartbeatOnly == {heartbeat}
MCBothLoops == {heartbeat, metrics}

Environment(may, answers) == [may |-> may, answers |-> answers]
MCEnvironments ==
  {Environment({"denied", "refuse"}, 4),
   Environment({"other", "refuse", "crash"}, 3),
   Environment({"unreachable", "denied", "disk", "crash"}, 3),
   Environment({"unreachable", "denied", "age", "close", "crash"}, 2),
   Environment({"other", "refuse", "close", "crash"}, 2)}
MCRefusals == {Environment({"refuse"}, 3)}
MCAgeing == {Environment({"age"}, 1)}
=============================================================================
