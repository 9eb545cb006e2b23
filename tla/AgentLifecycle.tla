---------------------------- MODULE AgentLifecycle ----------------------------
(***************************************************************************)
(* Agent.Run (src/internal/agent/agent.go), the four goroutines of the     *)
(* errgroup it starts (lifecycle.go, basic_metrics_loop.go) and the gRPC   *)
(* server of the probe listener (probe_listener.go), from start to exit.   *)
(*                                                                         *)
(* The contents of the loops are the subject of AdminRPC and BasicMetrics: *)
(* here the heartbeat and the metrics loop are in a call to Admin or not,  *)
(* and a call may be one that never returns.  RPC handlers are those of    *)
(* InstallerRPC and of the command service.                                *)
(***************************************************************************)
EXTENDS Naturals

CONSTANTS
  Handlers,   \* RPC handlers, the goroutines of the server
  Stuck       \* the loops whose call to Admin may never return

Loops == {"health", "probe", "heartbeat", "metrics"}
AdminLoops == {"heartbeat", "metrics"}
ASSUME StuckAssumption == Stuck \subseteq AdminLoops

VARIABLES
  main,       \* "running", "grace", "shutdown", "closed" or "exited"
  result,     \* runErr: "none", "ok", "error" (a loop failed) or "forced"
  signals,    \* signals that arrived, at most the two that sigCh holds
  cancelled,  \* runCtx is done
  loop,       \* where each loop is
  server,     \* "off", "serving", "draining" or "stopped"
  handler,    \* where each handler is
  connected   \* health.adminConnected

vars == <<main, result, signals, cancelled, loop, server, handler, connected>>

Ended == {"returned", "failed"}
\* Mutant: the heartbeat loop is not waited for.
GroupDoneWithoutHeartbeat == \A l \in Loops \ {"heartbeat"} : loop[l] \in Ended
GroupDone == \A l \in Loops : loop[l] \in Ended
\* Mutant: the loops run under runCtx itself.
DoneCancelled == cancelled
\* The ctx of the loops: the errgroup cancels it when a loop fails.
Done == cancelled \/ \E l \in Loops : loop[l] = "failed"
Alive == main # "exited"

Init ==
  /\ main = "running"
  /\ result = "none"
  /\ signals = 0
  /\ cancelled = FALSE
  /\ loop = [l \in Loops |-> "waiting"]
  /\ server = "off"
  /\ handler = [h \in Handlers |-> "none"]
  /\ connected = FALSE

-----------------------------------------------------------------------------
Move(l, s) == Alive /\ loop' = [loop EXCEPT ![l] = s]

\* A tick, or the first call before the loop; a tick that is due may still be
\* taken when ctx is done.
CallAdmin(l) ==
  /\ loop[l] = "waiting"
  /\ Move(l, "calling")
  /\ UNCHANGED <<main, result, signals, cancelled, server, handler, connected>>

\* The heartbeat loop records how the call went; it may have been acknowledged
\* before ctx was done or the client closed.
CallReturns(l) ==
  /\ loop[l] = "calling"
  /\ Move(l, "waiting")
  /\ connected' \in (IF l = "heartbeat" THEN BOOLEAN ELSE {connected})
  /\ UNCHANGED <<main, result, signals, cancelled, server, handler>>

CallBlocks(l) ==
  /\ l \in Stuck
  /\ loop[l] = "calling"
  /\ Move(l, "blocked")
  /\ UNCHANGED <<main, result, signals, cancelled, server, handler, connected>>

\* ctx.Done.
LoopReturns(l) ==
  /\ l # "probe"
  /\ loop[l] = "waiting"
  /\ Done
  /\ Move(l, "returned")
  /\ UNCHANGED <<main, result, signals, cancelled, server, handler, connected>>

\* runProbeListener: the address, the TLS material or the server fails, ...
Listen ==
  /\ loop["probe"] = "waiting"
  /\ server = "off"
  /\ Alive
  /\ server' = "serving"
  /\ UNCHANGED <<main, result, signals, cancelled, loop, handler, connected>>

ProbeFails ==
  /\ loop["probe"] = "waiting"
  /\ server = "off" \/ (server = "serving" /\ ~Done)
  /\ Move("probe", "failed")
  /\ server' = "stopped"
  /\ UNCHANGED <<main, result, signals, cancelled, handler, connected>>

\* ... or it serves until ctx is done: GracefulStop refuses new calls and waits
\* for the handlers, ...
Drain ==
  /\ Alive
  /\ server = "serving"
  /\ Done
  /\ server' = "draining"
  /\ UNCHANGED <<main, result, signals, cancelled, loop, handler, connected>>

Drained ==
  /\ Alive
  /\ server = "draining"
  /\ \A h \in Handlers : handler[h] # "running"
  /\ server' = "stopped"
  /\ UNCHANGED <<main, result, signals, cancelled, loop, handler, connected>>

\* ... but after two seconds Stop closes their connections: their ctx is done
\* and nobody waits for them.
StopServer ==
  /\ Alive
  /\ server = "draining"
  /\ server' = "stopped"
  /\ handler' = [h \in Handlers |-> IF handler[h] = "running" THEN "cut off" ELSE handler[h]]
  /\ UNCHANGED <<main, result, signals, cancelled, loop, connected>>

ServeReturns ==
  /\ loop["probe"] = "waiting"
  /\ server = "stopped"
  /\ Move("probe", "returned")
  /\ UNCHANGED <<main, result, signals, cancelled, server, handler, connected>>

Accept(h) ==
  /\ Alive
  /\ server = "serving"
  /\ handler[h] = "none"
  /\ handler' = [handler EXCEPT ![h] = "running"]
  /\ UNCHANGED <<main, result, signals, cancelled, loop, server, connected>>

HandlerReturns(h) ==
  /\ Alive
  /\ handler[h] \in {"running", "cut off"}
  /\ handler' = [handler EXCEPT ![h] = "done"]
  /\ UNCHANGED <<main, result, signals, cancelled, loop, server, connected>>

-----------------------------------------------------------------------------
\* SIGINT or SIGTERM.
Signal ==
  /\ Alive
  /\ signals < 2
  /\ signals' = signals + 1
  /\ UNCHANGED <<main, result, cancelled, loop, server, handler, connected>>

\* The outcome of a.run: the error of the loop that failed.
RunResult == IF \E l \in Loops : loop[l] = "failed" THEN "error" ELSE "ok"

FirstSignal ==
  /\ main = "running"
  /\ signals > 0
  /\ main' = "grace"
  /\ cancelled' = TRUE
  /\ UNCHANGED <<result, signals, loop, server, handler, connected>>

RunEnds ==
  /\ main \in {"running", "grace"}
  /\ GroupDone
  /\ main' = "shutdown"
  /\ result' = RunResult
  /\ UNCHANGED <<signals, cancelled, loop, server, handler, connected>>

\* Mutant: no grace timer.
ForceShutdownOnSignal ==
  /\ main = "grace"
  /\ signals = 2
  /\ main' = "shutdown"
  /\ result' = "forced"
  /\ UNCHANGED <<signals, cancelled, loop, server, handler, connected>>

\* A second signal, or AURORA_SHUTDOWN_TIMEOUT.
ForceShutdown ==
  /\ main = "grace"
  /\ main' = "shutdown"
  /\ result' = "forced"
  /\ UNCHANGED <<signals, cancelled, loop, server, handler, connected>>

\* shutdown closes the client and then clears adminConnected.
Shutdown ==
  /\ main = "shutdown"
  /\ main' = "closed"
  /\ connected' = FALSE
  /\ UNCHANGED <<result, signals, cancelled, loop, server, handler>>

\* main returns: whatever still runs is gone.
Exit ==
  /\ main = "closed"
  /\ main' = "exited"
  /\ cancelled' = TRUE
  /\ handler' = [h \in Handlers |->
                   IF handler[h] \in {"running", "cut off"} THEN "killed" ELSE handler[h]]
  /\ UNCHANGED <<result, signals, loop, server, connected>>

Main == FirstSignal \/ RunEnds \/ ForceShutdown \/ Shutdown \/ Exit
Serve == Listen \/ Drain \/ Drained \/ StopServer \/ ServeReturns

Next ==
  \/ \E l \in AdminLoops : CallAdmin(l) \/ CallReturns(l) \/ CallBlocks(l)
  \/ \E l \in Loops : LoopReturns(l)
  \/ Serve \/ ProbeFails
  \/ \E h \in Handlers : Accept(h) \/ HandlerReturns(h)
  \/ Signal
  \/ Main

Spec == Init /\ [][Next]_vars

\* Calls have deadlines unless they block, select takes ctx.Done at last, the
\* timers of the server and of Run fire.
FairSpec ==
  /\ Spec
  /\ \A l \in AdminLoops : WF_vars(CallReturns(l) \/ CallBlocks(l)) /\ SF_vars(LoopReturns(l))
  /\ WF_vars(LoopReturns("health"))
  /\ WF_vars(Serve)
  /\ WF_vars(Main)

-----------------------------------------------------------------------------
\* Types of the locals of Run, of the loops and of the server.
TypeOK ==
  /\ main \in {"running", "grace", "shutdown", "closed", "exited"}
  /\ result \in {"none", "ok", "error", "forced"}
  /\ signals \in 0 .. 2
  /\ cancelled \in BOOLEAN
  /\ loop \in [Loops -> {"waiting", "calling", "blocked"} \cup Ended]
  /\ server \in {"off", "serving", "draining", "stopped"}
  /\ handler \in [Handlers -> {"none", "running", "cut off", "done", "killed"}]
  /\ connected \in BOOLEAN

\* Once the agent stopped without force, its health says that it is not
\* connected: no heartbeat in flight can set the flag again.
DisconnectedAtExit ==
  main = "exited" /\ result # "forced" => ~connected

\* A signal ends the process, even when a loop never comes back from Admin.
SignalEndsAgent == signals > 0 ~> main = "exited"

\* When the probe listener cannot serve, the process ends and the service
\* manager can start it again, unless a loop never comes back from Admin: then
\* only a signal ends the process.
FailureEndsAgent ==
  loop["probe"] = "failed" ~>
    main = "exited" \/ \E l \in AdminLoops : loop[l] = "blocked"
=============================================================================
