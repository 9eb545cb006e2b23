---------------------------- MODULE AdminRPCProofs ----------------------------
(***************************************************************************)
(* AdminRPC: the agent keeps its connection, and rotations leave material  *)
(* that fits, for every number of callers, of rotations and of restarts.   *)
(***************************************************************************)
EXTENDS AdminRPC, TLAPS

LEMMA ConnectionStep == ConnectionKept /\ [Next]_vars => ConnectionKept'
<1> SUFFICES ASSUME ConnectionKept, [Next]_vars PROVE ConnectionKept'
  OBVIOUS
<1> USE DEF ConnectionKept
<1>1. ASSUME NEW p \in Processes, Step(p) PROVE ConnectionKept'
  <2>1. CASE Reconnect(p)
    <3>1. conn' \in Ids
      BY <2>1 DEF Reconnect, Loads
    <3>2. Absent \notin Ids
      BY ContentAssumption DEF Ids
    <3> QED BY <3>1, <3>2
  <2>2. CASE LockRenewal(p) \/ NothingToRenew(p) \/ Renew(p)
    BY <2>2 DEF LockRenewal, NothingToRenew, Renew
  <2>3. CASE CallSucceeds(p) \/ CallFails(p)
    BY <2>3 DEF CallSucceeds, CallFails, CallFailsWith
  <2>4. CASE ReconnectFails(p) \/ BootstrapFails(p) \/ WriteFails(p)
    BY <2>4 DEF ReconnectFails, BootstrapFails, WriteFails, GiveUp
  <2>5. CASE Bootstrap(p) \/ Write(p)
    BY <2>5 DEF Bootstrap, Write
  <2> QED BY <1>1, <2>1, <2>2, <2>3, <2>4, <2>5 DEF Step
<1>2. CASE New
  BY <1>2 DEF New
<1>3. ASSUME NEW p \in Callers, Begin(p) PROVE ConnectionKept'
  BY <1>3 DEF Begin
<1>4. CASE Close \/ Exit
  BY <1>4 DEF Close, Exit
<1>5. CASE IntervalPasses \/ CertificatesAge \/ CertificatesRefused
  BY <1>5 DEF IntervalPasses, CertificatesAge, CertificatesRefused
<1>6. CASE UNCHANGED vars
  BY <1>6 DEF vars
<1> QED BY <1>1, <1>2, <1>3, <1>4, <1>5, <1>6 DEF Next

\* reconnect replaces the connection only by one it could build: until Close the
\* agent is never without a connection, even when the files no longer load
\* (client.go, reconnect).
THEOREM AdminConnectionKept == Spec => []ConnectionKept
<1>1. Init => ConnectionKept
  BY DEF Init, ConnectionKept
<1> QED BY <1>1, ConnectionStep, PTL DEF Spec

-----------------------------------------------------------------------------
\* Where a caller is tells how often it has called and how much it has written:
\* it rotates at most once, after its second attempt.
CountInv ==
  /\ pc \in [Processes -> Phases]
  /\ attempt \in [Processes -> 0 .. 3]
  /\ written \in [Processes -> 0 .. 5]
  /\ \A p \in Processes :
       /\ pc[p] \in {"idle", "preflight", "check", "rotate"} => written[p] = 0
       /\ pc[p] = "write" => written[p] \in 0 .. 4
       /\ pc[p] \in {"idle", "preflight", "check"} => attempt[p] = 0
       /\ pc[p] = "reconnect" => attempt[p] \in 0 .. 2
       /\ pc[p] = "call" => attempt[p] \in 1 .. 3
       /\ p \in Callers /\ pc[p] \in {"rotate", "write"} => attempt[p] = 2
       /\ p \in Callers /\ pc[p] = "reconnect" /\ written[p] # 0 => attempt[p] = 2
       /\ pc[p] = "call" /\ written[p] # 0 => attempt[p] = 3

\* Main calls nobody, and is at work only while the agent starts.
MainInv ==
  /\ pc[Main] \in {"idle", "reconnect", "rotate", "write"}
  /\ pc[Main] # "idle" => agent = "starting"
  /\ attempt[Main] = 0

LEMMA CountInit == Init => CountInv /\ MainInv
BY DEF Init, CountInv, MainInv, Processes, Phases

LEMMA CountStep == CountInv /\ MainInv /\ [Next]_vars => CountInv' /\ MainInv'
<1> SUFFICES ASSUME CountInv, MainInv, [Next]_vars PROVE CountInv' /\ MainInv'
  OBVIOUS
<1> USE CallersAssumption DEF CountInv, MainInv, Processes, Phases, GoTo
<1>1. ASSUME NEW p \in Processes, LockRenewal(p) \/ Renew(p) PROVE CountInv' /\ MainInv'
  BY <1>1 DEF LockRenewal, Renew
<1>2. ASSUME NEW p \in Processes, NothingToRenew(p) PROVE CountInv' /\ MainInv'
  BY <1>2 DEF NothingToRenew
<1>3. ASSUME NEW p \in Processes, CallSucceeds(p) PROVE CountInv' /\ MainInv'
  BY <1>3 DEF CallSucceeds, Return
<1>4. ASSUME NEW p \in Processes, CallFails(p) PROVE CountInv' /\ MainInv'
  BY <1>4 DEF CallFails, CallFailsWith, Recovery, Return
<1>5. ASSUME NEW p \in Processes, Reconnect(p) PROVE CountInv' /\ MainInv'
  BY <1>5 DEF Reconnect, Return
<1>6. ASSUME NEW p \in Processes, ReconnectFails(p) \/ BootstrapFails(p) \/ WriteFails(p)
      PROVE  CountInv' /\ MainInv'
  BY <1>6 DEF ReconnectFails, BootstrapFails, WriteFails, GiveUp, Return
<1>7. ASSUME NEW p \in Processes, Bootstrap(p) PROVE CountInv' /\ MainInv'
  BY <1>7 DEF Bootstrap
<1>8. ASSUME NEW p \in Processes, Write(p) PROVE CountInv' /\ MainInv'
  BY <1>8 DEF Write
<1>9. CASE New
  BY <1>9 DEF New
<1>10. ASSUME NEW p \in Callers, Begin(p) PROVE CountInv' /\ MainInv'
  BY <1>10 DEF Begin
<1>11. CASE Close
  BY <1>11 DEF Close
<1>12. CASE Exit
  BY <1>12 DEF Exit
<1>13. CASE IntervalPasses \/ CertificatesAge \/ CertificatesRefused
  BY <1>13 DEF IntervalPasses, CertificatesAge, CertificatesRefused, callerVars
<1>14. CASE UNCHANGED vars
  BY <1>14 DEF vars, callerVars
<1> QED
  BY <1>1, <1>2, <1>3, <1>4, <1>5, <1>6, <1>7, <1>8, <1>9, <1>10, <1>11, <1>12,
     <1>13, <1>14 DEF Next, Step

-----------------------------------------------------------------------------
Fits ==
  /\ files["clientKey"] = files["clientCert"]
  /\ files["serverKey"] = files["serverCert"]

\* While no history speaks against it, at most one process writes, what it has
\* written is its own, and when nobody writes the material fits.
MixInv ==
  /\ files = [f \in Files |-> files[f]]
  /\ material \in [Processes -> Ids] /\ issued \in Ids
  /\ ~mixed =>
       /\ \A p, q \in Processes : pc[p] = "write" /\ pc[q] = "write" => p = q
       /\ \A p \in Processes : pc[p] = "write" =>
            \A i \in 1 .. written[p] : files[WriteOrder[i]] = material[p]
       /\ (\A p \in Processes : pc[p] # "write") => Fits

LEMMA MixInit == Init => MixInv
<1> SUFFICES ASSUME Init PROVE MixInv
  OBVIOUS
<1>1. files = [f \in Files |-> IF f = "ca" THEN 0 ELSE Absent]
  BY DEF Init
<1>2. Fits
  BY <1>1 DEF Fits, Files, WriteOrder
<1>3. issued \in Ids /\ material \in [Processes -> Ids]
  BY ContentAssumption DEF Init, Ids
<1>4. \A p \in Processes : pc[p] = "idle"
  BY DEF Init
<1> QED BY <1>1, <1>2, <1>3, <1>4 DEF MixInv

\* A step that starts no rotation and writes nothing.
LEMMA MixUnchanged ==
  ASSUME MixInv, CountInv, UNCHANGED <<files, mixed, issued>>,
         \A p \in Processes : pc'[p] = "write" <=> pc[p] = "write",
         \A p \in Processes :
           pc[p] = "write" => written'[p] = written[p] /\ material'[p] = material[p],
         material' \in [Processes -> Ids]
  PROVE  MixInv'
BY DEF MixInv, Fits

LEMMA MixWrite ==
  ASSUME MixInv, CountInv, NEW p \in Processes, Write(p)
  PROVE  MixInv'
<1> DEFINE n == written[p]
           f == WriteOrder[n + 1]
<1>1. /\ pc[p] = "write" /\ files' = [files EXCEPT ![f] = material[p]]
      /\ written' = [written EXCEPT ![p] = n + 1]
      /\ pc' = [pc EXCEPT ![p] = IF n + 1 = 5 THEN "reconnect" ELSE "write"]
      /\ UNCHANGED <<material, mixed, issued>>
  BY DEF Write, NextFile, GoTo
<1>2. n \in 0 .. 4
  BY <1>1 DEF CountInv
<1>3. /\ \A i \in 1 .. 5 : WriteOrder[i] \in Files
      /\ \A i, j \in 1 .. 5 : WriteOrder[i] = WriteOrder[j] => i = j
  BY DEF WriteOrder, Files
<1>4. \A g \in Files : files'[g] = IF g = f THEN material[p] ELSE files[g]
  BY <1>1, <1>2, <1>3 DEF MixInv
<1>5. files' = [g \in Files |-> files'[g]]
  BY <1>1 DEF MixInv
<1>6. ~mixed => \A i \in 1 .. n + 1 : files'[WriteOrder[i]] = material[p]
  BY <1>1, <1>2, <1>3, <1>4 DEF MixInv
<1>7. \A q \in Processes : pc'[q] = "write" => pc[q] = "write"
  BY <1>1 DEF CountInv
<1>8. CASE n = 4
  <2>1. pc' = [pc EXCEPT ![p] = "reconnect"]
    BY <1>1, <1>8
  <2>2. ~mixed => \A q \in Processes : pc'[q] # "write"
    BY <1>1, <2>1 DEF MixInv, CountInv
  <2>3. ~mixed => Fits'
    BY <1>6, <1>8 DEF Fits, WriteOrder
  <2> QED BY <1>1, <1>5, <2>2, <2>3 DEF MixInv
<1>9. CASE n # 4
  <2>1. pc'[p] = "write" /\ written'[p] = n + 1
    BY <1>1, <1>2, <1>9 DEF CountInv
  <2>2. ~mixed => \A q \in Processes : pc'[q] = "write" => q = p
    BY <1>1, <1>7 DEF MixInv
  <2>3. ~mixed => \A p1, q \in Processes : pc'[p1] = "write" /\ pc'[q] = "write" => p1 = q
    BY <2>2
  <2>4. ~mixed => \A q \in Processes : pc'[q] = "write" =>
                    \A i \in 1 .. written'[q] : files'[WriteOrder[i]] = material[q]
    BY <1>6, <2>1, <2>2
  <2> QED BY <1>1, <1>5, <2>1, <2>3, <2>4 DEF MixInv
<1> QED BY <1>8, <1>9

LEMMA MixBootstrap ==
  ASSUME MixInv, CountInv, NEW p \in Processes, Bootstrap(p)
  PROVE  MixInv'
<1>1. /\ pc[p] = "rotate" /\ written[p] = 0 /\ pc' = [pc EXCEPT ![p] = "write"]
      /\ UNCHANGED <<files, written>>
  BY DEF Bootstrap, GoTo, CountInv
<1>2. mixed' = \E q \in Processes : pc[q] = "write"
  BY DEF Bootstrap
<1>3. material' \in [Processes -> Ids] /\ issued' \in Ids
  BY ContentAssumption DEF Bootstrap, MixInv, Ids
<1>4. pc'[p] = "write" /\ \A q \in Processes \ {p} : pc'[q] = pc[q]
  BY <1>1 DEF CountInv
<1>5. ~mixed' => \A q \in Processes : pc'[q] = "write" => q = p
  BY <1>2, <1>4
<1> QED BY <1>1, <1>3, <1>4, <1>5 DEF MixInv

LEMMA MixStep == MixInv /\ CountInv /\ MainInv /\ [Next]_vars => MixInv'
<1> SUFFICES ASSUME MixInv, CountInv, MainInv, [Next]_vars PROVE MixInv'
  OBVIOUS
<1>1. ASSUME NEW p \in Processes, Write(p) PROVE MixInv'
  BY <1>1, MixWrite
<1>2. ASSUME NEW p \in Processes, Bootstrap(p) PROVE MixInv'
  BY <1>2, MixBootstrap
<1>3. ASSUME NEW p \in Processes, WriteFails(p) PROVE MixInv'
  <2>1. mixed' = TRUE
    BY <1>3 DEF WriteFails
  <2>2. files' = [f \in Files |-> files'[f]]
    BY <1>3 DEF WriteFails, MixInv
  <2>3. material' \in [Processes -> Ids]
    BY <1>3, ContentAssumption DEF WriteFails, GiveUp, Return, MixInv, Ids
  <2>4. issued' = issued
    BY <1>3 DEF WriteFails
  <2> QED BY <2>1, <2>2, <2>3, <2>4 DEF MixInv
<1>4. ASSUME NEW p \in Processes, LockRenewal(p) \/ NothingToRenew(p) \/ Renew(p)
      PROVE  MixInv'
  <2>1. /\ UNCHANGED <<files, mixed, issued, material, written>>
        /\ pc[p] \in {"preflight", "check"}
        /\ \E s \in {"preflight", "check", "call", "reconnect"} : pc' = [pc EXCEPT ![p] = s]
    BY <1>4 DEF LockRenewal, NothingToRenew, Renew, GoTo
  <2>2. \A q \in Processes : pc'[q] = "write" <=> pc[q] = "write"
    BY <2>1 DEF CountInv
  <2>3. material' \in [Processes -> Ids]
    BY <2>1 DEF MixInv
  <2> QED BY <2>1, <2>2, <2>3, MixUnchanged
<1>5. ASSUME NEW p \in Processes,
             \/ CallSucceeds(p) \/ CallFails(p) \/ Reconnect(p) \/ ReconnectFails(p)
             \/ BootstrapFails(p)
      PROVE  MixInv'
  <2>1. /\ UNCHANGED <<files, mixed, issued>> /\ pc[p] \in {"call", "reconnect", "rotate"}
        /\ \E s \in {"idle", "call", "reconnect", "rotate"} : pc' = [pc EXCEPT ![p] = s]
        /\ \/ UNCHANGED <<material, written>>
           \/ /\ material' = [material EXCEPT ![p] = 0]
              /\ written' = [written EXCEPT ![p] = 0]
    BY <1>5 DEF CallSucceeds, CallFails, CallFailsWith, Recovery, Reconnect, ReconnectFails,
                BootstrapFails, GiveUp, Return, GoTo
  <2>2. \A q \in Processes : pc'[q] = "write" <=> pc[q] = "write"
    BY <2>1 DEF CountInv
  <2>3. \A q \in Processes :
          pc[q] = "write" => written'[q] = written[q] /\ material'[q] = material[q]
    BY <2>1 DEF CountInv, MixInv
  <2>4. material' \in [Processes -> Ids]
    BY <2>1, ContentAssumption DEF MixInv, Ids
  <2> QED BY <2>1, <2>2, <2>3, <2>4, MixUnchanged
<1>6. CASE New
  <2>1. /\ UNCHANGED <<files, mixed, issued, material, written>> /\ pc[Main] = "idle"
        /\ \E s \in {"rotate", "reconnect"} : pc' = [pc EXCEPT ![Main] = s]
    BY <1>6 DEF New, GoTo, MainInv
  <2>2. \A q \in Processes : pc'[q] = "write" <=> pc[q] = "write"
    BY <2>1 DEF CountInv
  <2>3. material' \in [Processes -> Ids]
    BY <2>1 DEF MixInv
  <2> QED BY <2>1, <2>2, <2>3, MixUnchanged
<1>7. ASSUME NEW p \in Callers, Begin(p) PROVE MixInv'
  <2>1. /\ UNCHANGED <<files, mixed, issued, material, written>> /\ pc[p] = "idle"
        /\ pc' = [pc EXCEPT ![p] = "preflight"]
    BY <1>7 DEF Begin, GoTo
  <2>2. \A q \in Processes : pc'[q] = "write" <=> pc[q] = "write"
    BY <2>1 DEF CountInv
  <2>3. material' \in [Processes -> Ids]
    BY <2>1 DEF MixInv
  <2> QED BY <2>1, <2>2, <2>3, MixUnchanged
<1>8. CASE Exit
  <2>1. /\ mixed' = (mixed \/ \E p \in Processes : pc[p] = "write")
        /\ issued' = issued
        /\ files' = files \/ \E p \in Processes : pc[p] = "write"
        /\ \A p \in Processes : pc'[p] # "write"
    BY <1>8 DEF Exit
  <2>2. files' = [f \in Files |-> files'[f]]
    BY <1>8 DEF Exit, MixInv
  <2>3. material' \in [Processes -> Ids]
    BY <1>8, ContentAssumption DEF Exit, Ids
  <2>4. ~mixed' => Fits'
    BY <2>1 DEF MixInv, Fits
  <2> QED BY <2>1, <2>2, <2>3, <2>4 DEF MixInv
<1>9. CASE Close \/ IntervalPasses \/ CertificatesAge \/ CertificatesRefused \/ UNCHANGED vars
  <2>1. UNCHANGED <<files, mixed, issued, material, written, pc>>
    BY <1>9 DEF Close, IntervalPasses, CertificatesAge, CertificatesRefused, vars, callerVars
  <2>2. material' \in [Processes -> Ids]
    BY <2>1 DEF MixInv
  <2> QED BY <2>1, <2>2, MixUnchanged
<1> QED
  BY <1>1, <1>2, <1>3, <1>4, <1>5, <1>6, <1>7, <1>8, <1>9 DEF Next, Step

\* Whenever no rotation is under way, keys and certificates fit, for the client
\* and for the probe listener, also after earlier rotations that overlapped or
\* failed; only while the last rotation is itself one of those, they need not
\* (bootstrap.go, ensureAgentClientCertificate).
THEOREM AdminMaterialFits == Spec => []MaterialFits
<1>1. MixInv /\ MainInv => MaterialFits
  BY DEF MixInv, MainInv, MaterialFits, Fits, Processes
<1>2. Init => MixInv /\ CountInv /\ MainInv
  BY MixInit, CountInit
<1>3. MixInv /\ CountInv /\ MainInv /\ [Next]_vars => MixInv' /\ CountInv' /\ MainInv'
  BY MixStep, CountStep
<1> QED BY <1>1, <1>2, <1>3, PTL DEF Spec

-----------------------------------------------------------------------------
(***************************************************************************)
(* Types.  Only the loops take certRenewMu, because Main calls nobody; and *)
(* a file is written only while files are left to write.                   *)
(***************************************************************************)
DataTypes ==
  /\ env \in Environments
  /\ agent \in {"down", "starting", "up", "closed"}
  /\ files \in [Files -> Ids \cup {Torn, Absent}]
  /\ conn \in Ids \cup {Absent}
  /\ certRenewMu \in Callers \cup {Nobody}
  /\ checked \in BOOLEAN
  /\ aged \subseteq Ids /\ refused \subseteq Ids
  /\ issued \in Ids
  /\ stale \in [Processes -> BOOLEAN]
  /\ material \in [Processes -> Ids]
  /\ mixed \in BOOLEAN

LEMMA DataInit == Init => DataTypes
<1>1. 0 \in Ids
  BY ContentAssumption DEF Ids
<1> QED BY <1>1 DEF Init, DataTypes

LEMMA ReturnTypes ==
  ASSUME DataTypes, NEW p \in Processes, Return(p)
  PROVE  /\ stale' \in [Processes -> BOOLEAN]
         /\ material' \in [Processes -> Ids]
<1>1. 0 \in Ids
  BY ContentAssumption DEF Ids
<1> QED BY <1>1 DEF DataTypes, Return

LEMMA NextFileType ==
  ASSUME CountInv, NEW p \in Processes, pc[p] = "write"
  PROVE  NextFile(p) \in Files
<1>1. written[p] \in 0 .. 4
  BY DEF CountInv
<1>2. written[p] + 1 \in 1 .. 5
  BY <1>1
<1> QED BY <1>2 DEF NextFile, Files

LEMMA CallerTypes ==
  ASSUME DataTypes, CountInv, MainInv, NEW p \in Processes, Step(p)
  PROVE  DataTypes'
<1>1. CASE LockRenewal(p)
  <2>1. p \in Callers
    BY <1>1 DEF LockRenewal, MainInv, Processes
  <2> QED BY <1>1, <2>1 DEF LockRenewal, DataTypes
<1>2. CASE NothingToRenew(p) \/ Renew(p)
  BY <1>2 DEF NothingToRenew, Renew, DataTypes
<1>3. CASE CallSucceeds(p)
  BY <1>3, ReturnTypes DEF CallSucceeds, DataTypes
<1>4. CASE CallFails(p)
  <2>1. PICK e : CallFailsWith(p, e)
    BY <1>4 DEF CallFails
  <2>2. CASE Return(p)
    BY <2>1, <2>2, ReturnTypes DEF CallFailsWith, DataTypes
  <2>3. CASE UNCHANGED <<attempt, stale, material, written>>
    BY <2>1, <2>3 DEF CallFailsWith, DataTypes
  <2> QED BY <2>1, <2>2, <2>3 DEF CallFailsWith
<1>5. CASE Reconnect(p)
  <2>1. stale' \in [Processes -> BOOLEAN] /\ material' \in [Processes -> Ids]
    <3>1. CASE p = Main
      BY <1>5, <3>1, ReturnTypes DEF Reconnect
    <3>2. CASE p # Main
      BY <1>5, <3>2 DEF Reconnect, DataTypes
    <3> QED BY <3>1, <3>2
  <2>2. conn' \in Ids /\ agent' \in {agent, "up"}
    BY <1>5 DEF Reconnect, Loads
  <2> QED BY <1>5, <2>1, <2>2 DEF Reconnect, DataTypes
<1>6. CASE ReconnectFails(p) \/ BootstrapFails(p)
  <2>1. Return(p) /\ agent' \in {agent, "down"}
    BY <1>6 DEF ReconnectFails, BootstrapFails, GiveUp
  <2> QED BY <1>6, <2>1, ReturnTypes DEF ReconnectFails, BootstrapFails, DataTypes
<1>7. CASE Bootstrap(p)
  <2>1. issued' \in Ids
    BY <1>7, ContentAssumption DEF Bootstrap, DataTypes, Ids
  <2>2. material' \in [Processes -> Ids]
    BY <1>7, <2>1 DEF Bootstrap, DataTypes
  <2> QED BY <1>7, <2>1, <2>2 DEF Bootstrap, DataTypes
<1>8. CASE Write(p)
  <2>1. files' \in [Files -> Ids \cup {Torn, Absent}]
    BY <1>8, NextFileType DEF Write, DataTypes
  <2> QED BY <1>8, <2>1 DEF Write, DataTypes
<1>9. CASE WriteFails(p)
  <2>1. files' \in [Files -> Ids \cup {Torn, Absent}]
    BY <1>9, NextFileType DEF WriteFails, DataTypes
  <2>2. Return(p) /\ agent' \in {agent, "down"}
    BY <1>9 DEF WriteFails, GiveUp
  <2> QED BY <1>9, <2>1, <2>2, ReturnTypes DEF WriteFails, DataTypes
<1> QED BY <1>1, <1>2, <1>3, <1>4, <1>5, <1>6, <1>7, <1>8, <1>9 DEF Step

LEMMA DataStep == DataTypes /\ CountInv /\ MainInv /\ [Next]_vars => DataTypes'
<1> SUFFICES ASSUME DataTypes, CountInv, MainInv, [Next]_vars PROVE DataTypes'
  OBVIOUS
<1>1. ASSUME NEW p \in Processes, Step(p) PROVE DataTypes'
  BY <1>1, CallerTypes
<1>2. CASE New \/ \E p \in Callers : Begin(p)
  BY <1>2 DEF New, Begin, DataTypes
<1>3. CASE Close
  BY <1>3 DEF Close, DataTypes
<1>4. CASE Exit
  <2>1. files' \in [Files -> Ids \cup {Torn, Absent}]
    <3>1. CASE UNCHANGED files
      BY <3>1 DEF DataTypes
    <3>2. ASSUME NEW p \in Processes, pc[p] = "write",
                 files' = [files EXCEPT ![NextFile(p)] = Torn]
          PROVE  files' \in [Files -> Ids \cup {Torn, Absent}]
      BY <3>2, NextFileType DEF DataTypes
    <3> QED BY <1>4, <3>1, <3>2 DEF Exit
  <2>2. material' \in [Processes -> Ids] /\ stale' \in [Processes -> BOOLEAN]
    BY <1>4, ContentAssumption DEF Exit, Ids
  <2>3. mixed' \in BOOLEAN
    BY <1>4 DEF Exit
  <2> QED BY <1>4, <2>1, <2>2, <2>3 DEF Exit, DataTypes
<1>5. CASE IntervalPasses \/ CertificatesAge \/ CertificatesRefused
  <2>1. (1 .. issued) \subseteq Ids
    BY ContentAssumption DEF DataTypes, Ids
  <2>2. aged' \subseteq Ids /\ refused' \subseteq Ids
    BY <1>5, <2>1 DEF IntervalPasses, CertificatesAge, CertificatesRefused, DataTypes
  <2> QED
    BY <1>5, <2>2 DEF IntervalPasses, CertificatesAge, CertificatesRefused, callerVars,
       DataTypes
<1>6. CASE UNCHANGED vars
  BY <1>6 DEF vars, callerVars, DataTypes
<1> QED BY <1>1, <1>2, <1>3, <1>4, <1>5, <1>6 DEF Next

\* The client is well typed for every number of loops and of rotations: no caller
\* tries more than three times, writes more than the five files, or leaves the
\* renewal mutex to somebody who does not exist (rpc.go, renew.go, bootstrap.go).
THEOREM AdminTypeCorrect == Spec => []TypeOK
<1>1. CountInv /\ DataTypes => TypeOK
  BY DEF CountInv, DataTypes, TypeOK
<1> QED BY <1>1, CountInit, CountStep, DataInit, DataStep, PTL DEF Spec
=============================================================================
