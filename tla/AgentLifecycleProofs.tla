------------------------- MODULE AgentLifecycleProofs -------------------------
(***************************************************************************)
(* AgentLifecycle: types, and what holds of the health state when the      *)
(* agent has stopped, for every number of RPC handlers and whichever calls *)
(* to Admin never return.                                                  *)
(***************************************************************************)
EXTENDS AgentLifecycle, TLAPS

LEMMA TypeInit == Init => TypeOK
<1> SUFFICES ASSUME Init PROVE TypeOK
  OBVIOUS
<1>1. cancelled \in BOOLEAN /\ connected \in BOOLEAN
  BY Zenon DEF Init
<1>2. signals \in 0 .. 2
  BY DEF Init
<1>3. main = "running" /\ result = "none" /\ server = "off"
  BY DEF Init
<1>4. /\ loop \in [Loops -> {"waiting", "calling", "blocked"} \cup Ended]
      /\ handler \in [Handlers -> {"none", "running", "cut off", "done", "killed"}]
  BY DEF Init
<1> QED BY <1>1, <1>2, <1>3, <1>4 DEF TypeOK

LEMMA TypeStep == TypeOK /\ [Next]_vars => TypeOK'
<1> SUFFICES ASSUME TypeOK, [Next]_vars PROVE TypeOK'
  OBVIOUS
<1> USE DEF TypeOK, Loops, AdminLoops, Ended, Move
<1>1. ASSUME NEW l \in AdminLoops, CallAdmin(l) PROVE TypeOK'
  BY <1>1 DEF CallAdmin
<1>2. ASSUME NEW l \in AdminLoops, CallReturns(l) PROVE TypeOK'
  BY <1>2 DEF CallReturns
<1>3. ASSUME NEW l \in AdminLoops, CallBlocks(l) PROVE TypeOK'
  BY <1>3 DEF CallBlocks
<1>4. ASSUME NEW l \in Loops, LoopReturns(l) PROVE TypeOK'
  BY <1>4 DEF LoopReturns
<1>5. CASE Listen
  BY <1>5 DEF Listen
<1>6. CASE Drain \/ Drained
  BY <1>6 DEF Drain, Drained
<1>7. CASE StopServer
  BY <1>7 DEF StopServer
<1>8. CASE ServeReturns
  BY <1>8 DEF ServeReturns
<1>9. CASE ProbeFails
  BY <1>9 DEF ProbeFails
<1>10. ASSUME NEW h \in Handlers, Accept(h) \/ HandlerReturns(h) PROVE TypeOK'
  BY <1>10 DEF Accept, HandlerReturns
<1>11. CASE Signal
  <2>1. UNCHANGED <<main, result, cancelled, loop, server, handler, connected>>
    BY <1>11 DEF Signal
  <2>2. signals \in 0 .. 2 /\ signals < 2 /\ signals' = signals + 1
    BY <1>11, Zenon DEF Signal
  <2>3. signals' \in 0 .. 2
    <3> HIDE DEF TypeOK
    <3> QED BY <2>2, SMT
  <2> QED BY <2>1, <2>3
<1>12. CASE FirstSignal
  BY <1>12 DEF FirstSignal
<1>13. CASE RunEnds
  BY <1>13 DEF RunEnds, RunResult
<1>14. CASE ForceShutdown
  BY <1>14 DEF ForceShutdown
<1>15. CASE Shutdown
  BY <1>15 DEF Shutdown
<1>16. CASE Exit
  BY <1>16 DEF Exit
<1>17. CASE UNCHANGED vars
  BY <1>17 DEF vars
<1> QED
  BY <1>1, <1>2, <1>3, <1>4, <1>5, <1>6, <1>7, <1>8, <1>9, <1>10, <1>11, <1>12,
     <1>13, <1>14, <1>15, <1>16, <1>17 DEF Next, Serve, Main

\* Types of the locals of Run, of the loops and of the probe listener's server.
THEOREM LifecycleTypeCorrect == Spec => []TypeOK
BY TypeInit, TypeStep, PTL DEF Spec

-----------------------------------------------------------------------------
\* Once Run goes on because the group ended, no loop moves again, and the flag
\* that Shutdown clears stays clear.
QuietInv ==
  /\ main \in {"shutdown", "closed", "exited"} /\ result # "forced" => GroupDone
  /\ main \in {"closed", "exited"} /\ result # "forced" => ~connected

LEMMA QuietInit == Init => QuietInv
BY DEF Init, QuietInv

\* A step of a loop or of the server starts from a loop that has not ended, ...
LEMMA LoopsDisturbNothing ==
  ASSUME TypeOK, QuietInv,
         \/ \E l \in AdminLoops : CallAdmin(l) \/ CallReturns(l) \/ CallBlocks(l)
         \/ \E l \in Loops : LoopReturns(l)
         \/ Serve \/ ProbeFails
  PROVE  QuietInv'
<1> USE DEF TypeOK, QuietInv, GroupDone, Loops, AdminLoops, Ended, Move
<1>1. ASSUME NEW l \in AdminLoops, CallAdmin(l) PROVE QuietInv'
  BY <1>1 DEF CallAdmin
<1>2. ASSUME NEW l \in AdminLoops, CallReturns(l) PROVE QuietInv'
  BY <1>2 DEF CallReturns
<1>3. ASSUME NEW l \in AdminLoops, CallBlocks(l) PROVE QuietInv'
  BY <1>3 DEF CallBlocks
<1>4. ASSUME NEW l \in Loops, LoopReturns(l) PROVE QuietInv'
  BY <1>4 DEF LoopReturns
<1>5. CASE Listen \/ Drain \/ Drained \/ StopServer
  <2>1. UNCHANGED <<main, result, loop, connected>>
    BY <1>5 DEF Listen, Drain, Drained, StopServer
  <2> QED BY <2>1
<1>6. CASE ServeReturns
  BY <1>6 DEF ServeReturns
<1>7. CASE ProbeFails
  BY <1>7 DEF ProbeFails
<1> QED BY <1>1, <1>2, <1>3, <1>4, <1>5, <1>6, <1>7 DEF Serve

\* ... and Run itself moves on only when the group is done or by force.
LEMMA MainKeepsQuiet ==
  ASSUME TypeOK, QuietInv, Main PROVE QuietInv'
<1> USE DEF QuietInv, GroupDone
<1>1. CASE FirstSignal
  BY <1>1 DEF FirstSignal
<1>2. CASE RunEnds
  BY <1>2 DEF RunEnds
<1>3. CASE ForceShutdown
  BY <1>3 DEF ForceShutdown
<1>4. CASE Shutdown
  BY <1>4 DEF Shutdown
<1>5. CASE Exit
  BY <1>5 DEF Exit
<1> QED BY <1>1, <1>2, <1>3, <1>4, <1>5 DEF Main

LEMMA QuietStep == TypeOK /\ QuietInv /\ [Next]_vars => QuietInv'
<1> SUFFICES ASSUME TypeOK, QuietInv, [Next]_vars PROVE QuietInv'
  OBVIOUS
<1>1. CASE \/ \E l \in AdminLoops : CallAdmin(l) \/ CallReturns(l) \/ CallBlocks(l)
           \/ \E l \in Loops : LoopReturns(l)
           \/ Serve \/ ProbeFails
  BY <1>1, LoopsDisturbNothing
<1>2. CASE \E h \in Handlers : Accept(h) \/ HandlerReturns(h)
  <2>1. UNCHANGED <<main, result, loop, connected>>
    BY <1>2 DEF Accept, HandlerReturns
  <2> QED BY <2>1 DEF QuietInv, GroupDone
<1>3. CASE Signal
  BY <1>3 DEF Signal, QuietInv, GroupDone
<1>4. CASE Main
  BY <1>4, MainKeepsQuiet
<1>5. CASE UNCHANGED vars
  BY <1>5 DEF vars, QuietInv, GroupDone
<1> QED BY <1>1, <1>2, <1>3, <1>4, <1>5 DEF Next

\* Once the agent stopped without force, its health says that it is not
\* connected: no heartbeat in flight can set the flag again (agent.go, Run and
\* shutdown).
THEOREM LifecycleDisconnectedAtExit == Spec => []DisconnectedAtExit
<1>1. QuietInv => DisconnectedAtExit
  BY DEF QuietInv, DisconnectedAtExit
<1> QED BY <1>1, QuietInit, QuietStep, LifecycleTypeCorrect, PTL DEF Spec
=============================================================================
