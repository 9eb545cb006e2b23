---------------------------- MODULE InstallerProofs ----------------------------
(***************************************************************************)
(* Proofs about OperationJournal and about InstallerRPC, whose handlers    *)
(* use the journal, for any number of calls, requests, modules and names.  *)
(* The theorems called Journal... are about Spec and speak of the journal  *)
(* alone; InstallerRPC's constants and variables do not occur in them.     *)
(***************************************************************************)
EXTENDS InstallerRPC, TLAPS

LEMMA InitTypeOK == Init => TypeOK
  BY SentinelsAssumption DEF Init, TypeOK, EmptyJournal, Phases, Ran, Holding, Live, Outcomes

LEMMA SaveLeavesType ==
  ASSUME TypeOK, NEW damage, SaveLeaves(damage)
  PROVE  /\ journal' \in [Requests -> Record \cup {NoRecord}]
         /\ readable' \in BOOLEAN
         /\ lost' \subseteq Requests
  BY DEF TypeOK, SaveLeaves, EmptyJournal

LEMMA SaveType ==
  ASSUME TypeOK, NEW records \in [Requests -> Record \cup {NoRecord}], Save(records)
  PROVE  /\ journal' \in [Requests -> Record \cup {NoRecord}]
         /\ readable' \in BOOLEAN
         /\ lost' \subseteq Requests
  BY SaveLeavesType DEF TypeOK, Save, SaveSucceeds

LEMMA RecordUpdateTypes ==
  ASSUME TypeOK, NEW r \in Requests, journal[r] # NoRecord
  PROVE  /\ [journal EXCEPT ![r].stage = "apply"]
              \in [Requests -> Record \cup {NoRecord}]
         /\ \A o \in {"completed", "failed"} :
              [journal EXCEPT ![r] = FinalRecord(r, o)]
                \in [Requests -> Record \cup {NoRecord}]
  <1>1. journal[r] \in Record
    BY DEF TypeOK
  <1>2. [journal[r] EXCEPT !.stage = "apply"] \in Record
    BY <1>1 DEF Record, Stages
  <1>3. \A o \in {"completed", "failed"} : FinalRecord(r, o) \in Record
    BY <1>1 DEF Record, Stages, Statuses, FinalRecord
  <1>4. QED
    BY <1>2, <1>3 DEF TypeOK

LEMMA InterruptedType ==
  ASSUME TypeOK
  PROVE  Interrupted \in [Requests -> Record \cup {NoRecord}]
  <1>1. ASSUME NEW r \in Requests, Running(r)
        PROVE  [journal[r] EXCEPT !.status = "interrupted"] \in Record
    <2>1. journal[r] \in Record
      BY <1>1 DEF TypeOK, Running
    <2>2. QED
      BY <2>1 DEF Record, Statuses
  <1>2. QED
    BY <1>1 DEF TypeOK, Interrupted

LEMMA NextTypeOK == TypeOK /\ [Next]_vars => TypeOK'
  <1> SUFFICES ASSUME TypeOK, [Next]_vars PROVE TypeOK'
    OBVIOUS
  <1>1. ASSUME NEW c \in Calls, NEW r \in Requests, NEW m \in Modules,
               BeginOperation(c, r, m)
        PROVE  TypeOK'
    <2>1. [module |-> m, status |-> "running", stage |-> "validate"] \in Record
      BY DEF Record, Statuses, Stages
    <2>2. QED
      BY <1>1, <2>1
      DEF TypeOK, BeginOperation, Receive, SaveSucceeds, Phases, Ran, Holding, Live
  <1>2. ASSUME NEW c \in Calls, NEW r \in Requests, NEW m \in Modules,
               BeginSaveFails(c, r, m)
        PROVE  TypeOK'
    <2>1. /\ journal' \in [Requests -> Record \cup {NoRecord}]
          /\ readable' \in BOOLEAN
          /\ lost' \subseteq Requests
      BY <1>2, SaveLeavesType DEF BeginSaveFails
    <2>2. QED
      BY <1>2, <2>1 DEF TypeOK, BeginSaveFails, Receive, Phases, Ran, Holding, Live
  <1>3. ASSUME NEW c \in Calls, NEW r \in Requests, NEW m \in Modules,
               BeginRejected(c, r, m)
        PROVE  TypeOK'
    BY <1>3 DEF TypeOK, BeginRejected, journalVars, Receive, Phases, Ran, Holding, Live
  <1>4. ASSUME NEW c \in Calls, NEW r \in Requests, Replay(c, r)
        PROVE  TypeOK'
    <2>1. journal[r].status \in Outcomes
      <3>1. journal[r] \in Record
        BY <1>4 DEF TypeOK, Replay, Known
      <3>2. QED
        BY <1>4, <3>1 DEF Record, Statuses, Outcomes, Replay, Known, Running
    <2>2. QED
      BY <1>4, <2>1 DEF TypeOK, Replay, journalVars, Receive, Phases, Ran, Holding, Live
  <1>5. ASSUME NEW c \in Calls, UpdateStage(c)
        PROVE  TypeOK'
    <2>1. request[c] \in Requests /\ journal[request[c]] \in Record
      BY <1>5 DEF TypeOK, UpdateStage, Known
    <2>2. /\ journal' \in [Requests -> Record \cup {NoRecord}]
          /\ readable' \in BOOLEAN
          /\ lost' \subseteq Requests
      BY <1>5, <2>1, RecordUpdateTypes, SaveType DEF UpdateStage, Known
    <2>3. QED
      BY <1>5, <2>1, <2>2 DEF TypeOK, UpdateStage, Record
  <1>6. ASSUME NEW c \in Calls, NEW o \in {"completed", "failed"}, Finish(c, o)
        PROVE  TypeOK'
    <2>1. request[c] \in Requests
      BY <1>6 DEF TypeOK, Finish
    <2>2. /\ journal' \in [Requests -> Record \cup {NoRecord}]
          /\ readable' \in BOOLEAN
          /\ lost' \subseteq Requests
          /\ module' \in [Calls -> Modules \cup {NoModule}]
          /\ module'[c] \in Modules
          /\ \A d \in Calls \ {c} : module'[d] = module[d]
      <3>1. CASE /\ Known(request[c])
                 /\ Save([journal EXCEPT ![request[c]] = FinalRecord(request[c], o)])
                 /\ module' = [module EXCEPT ![c] = journal[request[c]].module]
        <4>1. journal[request[c]] \in Record
          BY <2>1, <3>1 DEF TypeOK, Known
        <4>2. journal[request[c]].module \in Modules
          BY <4>1 DEF Record
        <4>3. [journal EXCEPT ![request[c]] = FinalRecord(request[c], o)]
                \in [Requests -> Record \cup {NoRecord}]
          BY <2>1, <3>1, RecordUpdateTypes DEF Known
        <4>4. /\ journal' \in [Requests -> Record \cup {NoRecord}]
              /\ readable' \in BOOLEAN
              /\ lost' \subseteq Requests
          BY <3>1, <4>3, SaveType
        <4>5. QED
          BY <3>1, <4>2, <4>4 DEF TypeOK
      <3>2. CASE UNCHANGED <<journalVars, module>>
        BY <1>6, <3>2 DEF TypeOK, Finish, journalVars, Ran, Holding, Live
      <3>3. QED
        BY <1>6, <3>1, <3>2 DEF Finish, Save
    <2>3. unclosed' \subseteq Requests
      BY <1>6, <2>1 DEF TypeOK, Finish
    <2>4. QED
      BY <1>6, <2>1, <2>2, <2>3 DEF TypeOK, Finish, Phases, Ran, Holding, Live, Outcomes
  <1>7. ASSUME NEW c \in Calls, Release(c)
        PROVE  TypeOK'
    BY <1>7 DEF TypeOK, Release, journalVars, ReleaseModuleLock, Phases, Ran, Holding, Live
  <1>8. ASSUME NEW c \in Calls, Abandon(c)
        PROVE  TypeOK'
    BY <1>8 DEF TypeOK, Abandon, journalVars, Phases, Ran, Holding, Live
  <1>9. CASE Crash \/ CrashInSave
    <2>1. /\ journal' \in [Requests -> Record \cup {NoRecord}]
          /\ readable' \in BOOLEAN
          /\ lost' \subseteq Requests
      BY <1>9, SaveLeavesType DEF TypeOK, Crash, CrashInSave, journalVars
    <2>2. QED
      BY <1>9, <2>1 DEF TypeOK, Crash, CrashInSave, ProcessDies, Phases, Ran, Holding, Live
  <1>10. CASE Boot
    BY <1>10, InterruptedType DEF TypeOK, Boot, SaveSucceeds
  <1>11. CASE BootFails
    BY <1>11, SaveLeavesType DEF TypeOK, BootFails
  <1>12. CASE UNCHANGED vars
    BY <1>12 DEF TypeOK, vars, journalVars
  <1>13. QED
    BY <1>1, <1>2, <1>3, <1>4, <1>5, <1>6, <1>7, <1>8, <1>9, <1>10, <1>11, <1>12
    DEF Next, Handler

\* Every variable keeps its type (operation_journal.go lines 36 to 59).
THEOREM JournalTypeCorrect == Spec => []TypeOK
  <1>1. Init => TypeOK
    BY InitTypeOK
  <1>2. TypeOK /\ [Next]_vars => TypeOK'
    BY NextTypeOK
  <1>3. QED
    BY <1>1, <1>2, PTL DEF Spec

-----------------------------------------------------------------------------
(***************************************************************************)
(* The invariant of the journal.  A call holds its module when its handle  *)
(* has not been released and its record was not lost.  Such a call owns    *)
(* the module lock and a record under its request id that names its        *)
(* module; a request that was admitted keeps a record until it is lost;    *)
(* and an operation at work is "running" in its record.  Records carry the *)
(* argument: acquireModuleLock lets a request take its own lock again, so  *)
(* that only the record keeps a retry of a running request out.            *)
(***************************************************************************)
Holds(c) == pc[c] \in Holding /\ request[c] \notin lost

HoldersUp == \A c \in Calls : pc[c] \in Holding => agent = "up"

OwnsLock == \A c \in Calls : Holds(c) => moduleLocks[module[c]] = request[c]

OnRecord == \A c \in Calls : Holds(c) => journal[request[c]].module = module[c]

RanOnRecord ==
  \A c \in Calls : pc[c] \in Ran /\ request[c] \notin lost => journal[request[c]] # NoRecord

ExecutingIsRunning ==
  \A c \in Calls : pc[c] = "executing" /\ request[c] \notin lost => Running(request[c])

JournalInv ==
  /\ HoldersUp /\ OwnsLock /\ OnRecord /\ RanOnRecord /\ ExecutingIsRunning
  /\ AtMostOnce /\ LockLeaksOnlyByAbandoning

\* A step leaves a finished record alone and drops no record, unless it loses it.
RecordsKept ==
  \A q \in Requests : journal[q] # NoRecord /\ q \notin lost' =>
    /\ journal'[q] # NoRecord
    /\ ~Running(q) => journal'[q] = journal[q]

LEMMA DamageKeeps ==
  ASSUME NEW damage, SaveLeaves(damage)
  PROVE  \A q \in Requests : q \notin lost' => q \notin lost /\ journal'[q] = journal[q]
  BY DEF SaveLeaves, EmptyJournal

LEMMA DamageForgets ==
  ASSUME NEW damage, SaveLeaves(damage)
  PROVE  lost \subseteq lost'
  BY DEF SaveLeaves

\* The record UpdateStage, Complete or Fail writes is one for the same module.
LEMMA OwnRecordValues ==
  ASSUME TypeOK, NEW c \in Calls, pc[c] = "executing", Known(request[c])
  PROVE  /\ request[c] \in Requests
         /\ journal[request[c]] \in Record
         /\ [journal EXCEPT ![request[c]].stage = "apply"] =
              [journal EXCEPT ![request[c]] = [journal[request[c]] EXCEPT !.stage = "apply"]]
         /\ [journal[request[c]] EXCEPT !.stage = "apply"] # NoRecord
         /\ [journal[request[c]] EXCEPT !.stage = "apply"].module = journal[request[c]].module
         /\ [journal[request[c]] EXCEPT !.stage = "apply"].status = journal[request[c]].status
         /\ \A o \in {"completed", "failed"} :
              /\ FinalRecord(request[c], o) # NoRecord
              /\ FinalRecord(request[c], o).module = journal[request[c]].module
              /\ FinalRecord(request[c], o).status = o
  <1>1. request[c] \in Requests
    BY DEF TypeOK
  <1>2. journal[request[c]] \in Record
    BY <1>1 DEF TypeOK, Known
  <1>3. /\ [journal[request[c]] EXCEPT !.stage = "apply"] \in Record
        /\ [journal[request[c]] EXCEPT !.stage = "apply"].module = journal[request[c]].module
        /\ [journal[request[c]] EXCEPT !.stage = "apply"].status = journal[request[c]].status
    BY <1>2 DEF Record, Stages
  <1>4. ASSUME NEW o \in {"completed", "failed"}
        PROVE  /\ FinalRecord(request[c], o) \in Record
               /\ FinalRecord(request[c], o).module = journal[request[c]].module
               /\ FinalRecord(request[c], o).status = o
    BY <1>2 DEF Record, Stages, Statuses, FinalRecord
  <1>5. [journal EXCEPT ![request[c]].stage = "apply"] =
          [journal EXCEPT ![request[c]] = [journal[request[c]] EXCEPT !.stage = "apply"]]
    BY <1>1 DEF TypeOK
  <1>6. QED
    BY <1>1, <1>2, <1>3, <1>4, <1>5, RecordAssumption

\* What such a save does to the records that are not lost by it.
LEMMA OwnSave ==
  ASSUME TypeOK, NEW r \in Requests, NEW value, Save([journal EXCEPT ![r] = value])
  PROVE  /\ lost \subseteq lost'
         /\ \A q \in Requests \ lost' :
              /\ q \notin lost
              /\ q # r => journal'[q] = journal[q]
              /\ journal'[r] \in {value, journal[r]} \/ r \in lost'
  <1>1. CASE SaveSucceeds([journal EXCEPT ![r] = value])
    BY <1>1 DEF SaveSucceeds, TypeOK
  <1>2. CASE \E damage \in SaveFaults : SaveLeaves(damage)
    BY <1>2, DamageKeeps, DamageForgets
  <1>3. QED
    BY <1>1, <1>2 DEF Save

\* A step in which no call is admitted and nobody takes or gives back a lock.
\* The record of one executing call may change, and the module of its handle with it.
LEMMA WorkKeeps ==
  ASSUME TypeOK, JournalInv, lost \subseteq lost', UNCHANGED <<agent, moduleLocks, request>>,
         NEW c \in Calls, pc[c] = "executing",
         NEW phase \in {"executing", "releasing", "abandoned"},
         pc' = [pc EXCEPT ![c] = phase],
         \A d \in Calls : d # c \/ request[d] \notin lost => module'[d] = module[d],
         \A q \in Requests \ lost' : q # request[c] => journal'[q] = journal[q],
         request[c] \notin lost' =>
           /\ journal'[request[c]] # NoRecord
           /\ journal'[request[c]].module = journal[request[c]].module
           /\ phase = "executing" => journal'[request[c]].status = journal[request[c]].status
  PROVE  JournalInv'
  <1> USE DEF JournalInv
  <1>1. /\ \A d \in Calls : /\ pc'[d] \in Holding <=> pc[d] \in Holding
                            /\ pc'[d] \in Ran <=> pc[d] \in Ran
                            /\ pc'[d] = "executing" => pc[d] = "executing"
                            /\ pc'[d] = "executing" /\ d = c => phase = "executing"
                            /\ pc[d] \in Live \cup {"abandoned"} => pc'[d] \in Live \cup {"abandoned"}
    BY DEF TypeOK, Holding, Ran, Live
  <1>2. \A d \in Calls : pc[d] \in Ran => request[d] \in Requests
    BY DEF TypeOK, Ran, Holding, Live
  <1>3. HoldersUp'
    BY <1>1 DEF HoldersUp
  <1>4. OwnsLock'
    BY <1>1 DEF OwnsLock, Holds
  <1>5. OnRecord'
    BY <1>1, <1>2 DEF OnRecord, Holds, Ran
  <1>6. RanOnRecord'
    BY <1>1, <1>2 DEF RanOnRecord
  <1>7. ExecutingIsRunning'
    <2> SUFFICES ASSUME NEW d \in Calls, pc'[d] = "executing", request[d] \notin lost'
                 PROVE  Running(request[d])'
      BY DEF ExecutingIsRunning
    <2>1. pc[d] = "executing" /\ Running(request[d]) /\ request[d] \in Requests
      BY <1>1, <1>2 DEF ExecutingIsRunning, Ran, Holding, Live
    <2>2. CASE request[d] # request[c]
      BY <2>1, <2>2 DEF Running
    <2>3. CASE request[d] = request[c]
      <3>1. d = c
        BY <2>1, <2>3 DEF AtMostOnce, Ran, Holding, Live
      <3>2. QED
        BY <1>1, <2>1, <3>1 DEF Running
    <2>4. QED
      BY <2>2, <2>3
  <1>8. AtMostOnce'
    BY <1>1 DEF AtMostOnce
  <1>9. LockLeaksOnlyByAbandoning'
    BY <1>1 DEF LockLeaksOnlyByAbandoning
  <1>10. QED
    BY <1>3, <1>4, <1>5, <1>6, <1>7, <1>8, <1>9

\* Who is admitted: nobody that ran and is remembered has the request id, nobody that
\* holds a module has the module.
LEMMA AdmitsNew ==
  ASSUME TypeOK, JournalInv, NEW r \in Requests, NEW m \in Modules, Admits(r, m)
  PROVE  /\ \A d \in Calls : pc[d] \in Ran /\ request[d] \notin lost => request[d] # r
         /\ \A d \in Calls : Holds(d) => module[d] # m
  <1>1. ASSUME NEW d \in Calls, pc[d] \in Ran, request[d] \notin lost
        PROVE  request[d] # r
    BY <1>1 DEF JournalInv, RanOnRecord, Admits
  <1>2. ASSUME NEW d \in Calls, Holds(d)
        PROVE  module[d] # m
    <2>1. pc[d] \in Ran /\ request[d] \in Requests /\ request[d] # r
      BY <1>1, <1>2 DEF Holds, Ran, TypeOK, Holding, Live
    <2>2. moduleLocks[module[d]] = request[d]
      BY <1>2 DEF JournalInv, OwnsLock
    <2>3. QED
      BY <2>1, <2>2, SentinelsAssumption DEF Admits, LockAvailable
  <1>3. QED
    BY <1>1, <1>2

LEMMA BeginStep ==
  ASSUME TypeOK, JournalInv, NEW c \in Calls, NEW r \in Requests, NEW m \in Modules,
         BeginOperation(c, r, m)
  PROVE  JournalInv' /\ RecordsKept
  <1>1. /\ \A d \in Calls : pc[d] \in Ran /\ request[d] \notin lost => request[d] # r
        /\ \A d \in Calls : Holds(d) => module[d] # m
    BY AdmitsNew DEF BeginOperation
  <1>2. /\ pc[c] = "idle" /\ pc'[c] = "executing"
        /\ request'[c] = r /\ module'[c] = m
        /\ moduleLocks'[m] = r /\ journal[r] = NoRecord
        /\ journal'[r] = [module |-> m, status |-> "running", stage |-> "validate"]
        /\ \A d \in Calls \ {c} : /\ pc'[d] = pc[d]
                                  /\ request'[d] = request[d]
                                  /\ module'[d] = module[d]
        /\ \A n \in Modules \ {m} : moduleLocks'[n] = moduleLocks[n]
        /\ \A q \in Requests \ {r} : journal'[q] = journal[q]
        /\ agent = "up" /\ agent' = agent /\ lost' = lost
    BY DEF TypeOK, BeginOperation, Admits, Receive, SaveSucceeds
  <1>3. journal'[r] # NoRecord /\ journal'[r].status = "running" /\ journal'[r].module = m
    BY <1>2, RecordAssumption DEF Record, Statuses, Stages
  <1>4. \A d \in Calls \ {c} : (Holds(d))' <=> Holds(d)
    BY <1>2 DEF Holds
  <1>5. \A d \in Calls : pc[d] \in Ran => request[d] \in Requests /\ module[d] \in Modules
    BY DEF TypeOK, Ran, Holding, Live
  <1>6. HoldersUp'
    BY <1>2 DEF JournalInv, HoldersUp
  <1>7. OwnsLock'
    BY <1>1, <1>2, <1>4, <1>5 DEF JournalInv, OwnsLock, Holds, Ran
  <1>8. OnRecord'
    BY <1>1, <1>2, <1>3, <1>4, <1>5 DEF JournalInv, OnRecord, Holds, Ran
  <1>9. RanOnRecord'
    BY <1>1, <1>2, <1>3, <1>5 DEF JournalInv, RanOnRecord
  <1>10. ExecutingIsRunning'
    BY <1>1, <1>2, <1>3, <1>5 DEF JournalInv, ExecutingIsRunning, Running, Ran, Holding, Live
  <1>11. AtMostOnce'
    BY <1>1, <1>2 DEF JournalInv, AtMostOnce
  <1>12. LockLeaksOnlyByAbandoning'
    BY <1>2 DEF JournalInv, LockLeaksOnlyByAbandoning, Live
  <1>13. RecordsKept
    BY <1>2 DEF RecordsKept
  <1>14. QED
    BY <1>6, <1>7, <1>8, <1>9, <1>10, <1>11, <1>12, <1>13 DEF JournalInv

LEMMA BeginFailsStep ==
  ASSUME TypeOK, JournalInv, NEW c \in Calls, NEW r \in Requests, NEW m \in Modules,
         BeginSaveFails(c, r, m)
  PROVE  JournalInv' /\ RecordsKept
  <1>1. \A d \in Calls : Holds(d) => module[d] # m
    BY AdmitsNew DEF BeginSaveFails
  <1>2. /\ pc[c] = "idle" /\ pc'[c] = "rejected"
        /\ moduleLocks'[m] = NoRequest
        /\ \A d \in Calls \ {c} : pc'[d] = pc[d] /\ request'[d] = request[d]
        /\ \A n \in Modules \ {m} : moduleLocks'[n] = moduleLocks[n]
        /\ module' = module /\ agent' = agent /\ lost \subseteq lost'
        /\ \A q \in Requests : q \notin lost' => journal'[q] = journal[q]
    BY DamageKeeps, DamageForgets DEF TypeOK, BeginSaveFails, Receive
  <1>3. \A d \in Calls : pc'[d] \in Ran => d # c
    BY <1>2 DEF Ran, Holding, Live
  <1>4. \A d \in Calls : pc[d] \in Ran => request[d] \in Requests /\ module[d] \in Modules
    BY DEF TypeOK, Ran, Holding, Live
  <1>5. HoldersUp'
    BY <1>2, <1>3 DEF JournalInv, HoldersUp, Ran
  <1>6. OwnsLock'
    BY <1>1, <1>2, <1>3, <1>4 DEF JournalInv, OwnsLock, Holds, Ran
  <1>7. OnRecord'
    BY <1>2, <1>3, <1>4 DEF JournalInv, OnRecord, Holds, Ran
  <1>8. RanOnRecord'
    BY <1>2, <1>3, <1>4 DEF JournalInv, RanOnRecord
  <1>9. ExecutingIsRunning'
    BY <1>2, <1>3, <1>4 DEF JournalInv, ExecutingIsRunning, Running, Ran, Holding, Live
  <1>10. AtMostOnce'
    BY <1>2, <1>3 DEF JournalInv, AtMostOnce
  <1>11. LockLeaksOnlyByAbandoning'
    BY <1>2 DEF JournalInv, LockLeaksOnlyByAbandoning, Live
  <1>12. RecordsKept
    BY <1>2 DEF RecordsKept
  <1>13. QED
    BY <1>5, <1>6, <1>7, <1>8, <1>9, <1>10, <1>11, <1>12 DEF JournalInv

LEMMA RefusedStep ==
  ASSUME TypeOK, JournalInv, NEW c \in Calls, NEW r \in Requests,
         (\E m \in Modules : BeginRejected(c, r, m)) \/ Replay(c, r)
  PROVE  JournalInv' /\ RecordsKept
  <1>1. /\ pc[c] = "idle" /\ pc'[c] \in {"rejected", "replayed"}
        /\ \A d \in Calls \ {c} : pc'[d] = pc[d] /\ request'[d] = request[d]
        /\ UNCHANGED <<agent, journal, lost, moduleLocks, module>>
    BY DEF TypeOK, BeginRejected, Replay, Receive, journalVars
  <1>2. \A d \in Calls : pc'[d] \in Ran => d # c
    BY <1>1 DEF Ran, Holding, Live
  <1>3. HoldersUp' /\ OwnsLock' /\ OnRecord' /\ RanOnRecord'
    BY <1>1, <1>2 DEF JournalInv, HoldersUp, OwnsLock, OnRecord, RanOnRecord, Holds, Ran
  <1>4. ExecutingIsRunning'
    BY <1>1 DEF JournalInv, ExecutingIsRunning, Running
  <1>5. AtMostOnce'
    BY <1>1, <1>2 DEF JournalInv, AtMostOnce
  <1>6. LockLeaksOnlyByAbandoning'
    BY <1>1 DEF JournalInv, LockLeaksOnlyByAbandoning, Live
  <1>7. RecordsKept
    BY <1>1 DEF RecordsKept
  <1>8. QED
    BY <1>3, <1>4, <1>5, <1>6, <1>7 DEF JournalInv

LEMMA UpdateStep ==
  ASSUME TypeOK, JournalInv, NEW c \in Calls, UpdateStage(c)
  PROVE  JournalInv' /\ RecordsKept
  <1> DEFINE r == request[c]
             value == [journal[r] EXCEPT !.stage = "apply"]
  <1>1. /\ pc[c] = "executing" /\ r \in Requests /\ journal[r] \in Record
        /\ value # NoRecord
        /\ value.module = journal[r].module
        /\ value.status = journal[r].status
        /\ Save([journal EXCEPT ![r] = value])
    BY OwnRecordValues DEF UpdateStage
  <1>2. UNCHANGED <<agent, moduleLocks, pc, request>>
    BY DEF UpdateStage
  <1>3. \A d \in Calls : d # c \/ request[d] \notin lost => module'[d] = module[d]
    BY <1>1 DEF UpdateStage, JournalInv, OnRecord, Holds, Holding, Live, TypeOK
  <1>4. Known(r) /\ journal[r] # NoRecord
    BY DEF UpdateStage, Known
  <1>5. r \notin lost => Running(r)
    BY <1>1 DEF JournalInv, ExecutingIsRunning
  <1> HIDE DEF value, r
  <1>6. /\ lost \subseteq lost'
        /\ \A q \in Requests \ lost' :
             /\ q \notin lost
             /\ q # r => journal'[q] = journal[q]
             /\ journal'[r] \in {value, journal[r]} \/ r \in lost'
    BY <1>1, OwnSave
  <1>7. r \notin lost' => journal'[r] \in {value, journal[r]}
    BY <1>1, <1>6
  <1>8. r \notin lost' =>
           /\ journal'[r] # NoRecord
           /\ journal'[r].module = journal[r].module
           /\ journal'[r].status = journal[r].status
    BY <1>1, <1>4, <1>7
  <1>9. JournalInv'
    <2>1. pc' = [pc EXCEPT ![c] = "executing"]
      BY <1>1, <1>2 DEF TypeOK
    <2>2. \A q \in Requests \ lost' : q # r => journal'[q] = journal[q]
      BY <1>6
    <2>3. QED
      BY <1>1, <1>2, <1>3, <1>6, <1>8, <2>1, <2>2, WorkKeeps DEF r
  <1>10. RecordsKept
    BY <1>1, <1>5, <1>6, <1>8 DEF RecordsKept
  <1>11. QED
    BY <1>9, <1>10

LEMMA FinishStep ==
  ASSUME TypeOK, JournalInv, NEW c \in Calls, NEW o \in {"completed", "failed"}, Finish(c, o)
  PROVE  JournalInv' /\ RecordsKept
  <1> DEFINE r == request[c]
  <1>1. /\ pc[c] = "executing" /\ r \in Requests
        /\ pc' = [pc EXCEPT ![c] = "releasing"]
        /\ UNCHANGED <<agent, moduleLocks, request>>
    BY DEF Finish, TypeOK
  <1>2. r \notin lost => Running(r) /\ journal[r] # NoRecord
    BY <1>1 DEF JournalInv, ExecutingIsRunning, Running
  <1>3. CASE /\ Known(r)
             /\ Save([journal EXCEPT ![r] = FinalRecord(r, o)])
             /\ module' = [module EXCEPT ![c] = journal[r].module]
    <2>1. \A d \in Calls : d # c \/ request[d] \notin lost => module'[d] = module[d]
      BY <1>1, <1>3 DEF JournalInv, OnRecord, Holds, Holding, Live, TypeOK
    <2> DEFINE value == FinalRecord(r, o)
    <2>2. value # NoRecord /\ value.module = journal[r].module
      BY <1>1, <1>3, OwnRecordValues
    <2>3. Save([journal EXCEPT ![r] = value])
      BY <1>3
    <2> HIDE DEF value, r
    <2>4. /\ lost \subseteq lost'
          /\ \A q \in Requests \ lost' :
               /\ q \notin lost
               /\ q # r => journal'[q] = journal[q]
               /\ journal'[r] \in {value, journal[r]} \/ r \in lost'
      BY <1>1, <2>3, OwnSave
    <2>5. r \notin lost' =>
            journal'[r] # NoRecord /\ journal'[r].module = journal[r].module
      BY <1>1, <1>2, <2>2, <2>4
    <2>6. JournalInv'
      <3>1. \A q \in Requests \ lost' : q # r => journal'[q] = journal[q]
        BY <2>4
      <3>2. QED
        BY <1>1, <2>1, <2>4, <2>5, <3>1, WorkKeeps DEF r
    <2>7. RecordsKept
      BY <1>1, <1>2, <2>4, <2>5 DEF RecordsKept
    <2>8. QED
      BY <2>6, <2>7
  <1>4. CASE UNCHANGED <<journalVars, module>>
    <2>1. UNCHANGED <<journal, lost, module>>
      BY <1>4 DEF journalVars
    <2>2. JournalInv'
      BY <1>1, <1>2, <2>1, WorkKeeps
    <2>3. RecordsKept
      BY <2>1 DEF RecordsKept
    <2>4. QED
      BY <2>2, <2>3
  <1>5. QED
    BY <1>3, <1>4 DEF Finish, Save

LEMMA ReleaseStep ==
  ASSUME TypeOK, JournalInv, NEW c \in Calls, Release(c)
  PROVE  JournalInv' /\ RecordsKept
  <1>1. /\ pc[c] = "releasing" /\ pc[c] \in Ran /\ pc'[c] = "answered"
        /\ module[c] \in Modules /\ request[c] \in Requests
        /\ \A d \in Calls \ {c} : pc'[d] = pc[d]
        /\ UNCHANGED <<agent, journal, lost, request, module>>
        /\ ReleaseModuleLock(module[c], request[c])
    BY DEF TypeOK, Release, journalVars, Ran, Holding, Live
  <1>2. \A d \in Calls : /\ pc'[d] \in Holding => d # c /\ pc[d] \in Holding
                         /\ pc'[d] \in Ran <=> pc[d] \in Ran
                         /\ pc'[d] = "executing" => pc[d] = "executing"
    BY <1>1 DEF Ran, Holding, Live
  <1>3. \A n \in Modules : \/ moduleLocks'[n] = moduleLocks[n]
                           \/ /\ n = module[c] /\ moduleLocks[n] = request[c]
                              /\ moduleLocks'[n] = NoRequest
    BY <1>1 DEF ReleaseModuleLock, TypeOK
  <1>4. \A d \in Calls \ {c} : Holds(d) => request[d] # request[c]
    BY <1>1 DEF JournalInv, AtMostOnce, Holds, Ran
  <1>5. \A d \in Calls : pc[d] \in Ran => module[d] \in Modules
    BY DEF TypeOK
  <1>6. OwnsLock'
    BY <1>1, <1>2, <1>3, <1>4, <1>5 DEF JournalInv, OwnsLock, Holds, Ran
  <1>7. HoldersUp' /\ OnRecord' /\ RanOnRecord'
    BY <1>1, <1>2 DEF JournalInv, HoldersUp, OnRecord, RanOnRecord, Holds
  <1>8. ExecutingIsRunning' /\ AtMostOnce'
    BY <1>1, <1>2 DEF JournalInv, ExecutingIsRunning, AtMostOnce, Running
  <1>9. LockLeaksOnlyByAbandoning'
    <2> SUFFICES ASSUME NEW n \in Modules, moduleLocks'[n] \notin lost \cup {NoRequest}
                 PROVE  \E d \in Calls : /\ pc'[d] \in Live \cup {"abandoned"}
                                         /\ module[d] = n
                                         /\ request[d] = moduleLocks'[n]
      BY <1>1 DEF LockLeaksOnlyByAbandoning
    <2>1. moduleLocks'[n] = moduleLocks[n]
      BY <1>3
    <2>2. PICK d \in Calls : /\ pc[d] \in Live \cup {"abandoned"}
                             /\ module[d] = n
                             /\ request[d] = moduleLocks[n]
      BY <2>1 DEF JournalInv, LockLeaksOnlyByAbandoning
    <2>3. d # c
      BY <1>1, <2>1, <2>2 DEF ReleaseModuleLock, TypeOK
    <2>4. QED
      BY <1>1, <2>1, <2>2, <2>3
  <1>10. RecordsKept
    BY <1>1 DEF RecordsKept
  <1>11. QED
    BY <1>6, <1>7, <1>8, <1>9, <1>10 DEF JournalInv

LEMMA AbandonStep ==
  ASSUME TypeOK, JournalInv, NEW c \in Calls, Abandon(c)
  PROVE  JournalInv' /\ RecordsKept
  <1>1. /\ pc[c] = "executing" /\ pc' = [pc EXCEPT ![c] = "abandoned"]
        /\ UNCHANGED <<agent, journal, lost, moduleLocks, request, module>>
    BY DEF Abandon, journalVars
  <1>2. request[c] \notin lost => journal[request[c]] # NoRecord
    BY <1>1 DEF JournalInv, ExecutingIsRunning, Running
  <1>3. JournalInv'
    BY <1>1, <1>2, WorkKeeps
  <1>4. QED
    BY <1>1, <1>3 DEF RecordsKept

LEMMA CrashStep ==
  ASSUME TypeOK, JournalInv, Crash \/ CrashInSave
  PROVE  JournalInv' /\ RecordsKept
  <1>1. /\ \A d \in Calls : /\ pc'[d] \notin Holding
                            /\ pc'[d] \in Ran => pc[d] \in Ran
        /\ moduleLocks' = [m \in Modules |-> NoRequest]
        /\ UNCHANGED <<request, module>>
    BY DEF Crash, CrashInSave, ProcessDies, Ran, Holding, Live
  <1>2. lost \subseteq lost' /\ \A q \in Requests : q \notin lost' => journal'[q] = journal[q]
    BY DamageKeeps, DamageForgets DEF Crash, CrashInSave, journalVars
  <1>3. \A d \in Calls : pc[d] \in Ran => request[d] \in Requests
    BY DEF TypeOK, Ran, Holding, Live
  <1>4. HoldersUp' /\ OwnsLock' /\ OnRecord' /\ LockLeaksOnlyByAbandoning'
    BY <1>1 DEF HoldersUp, OwnsLock, OnRecord, LockLeaksOnlyByAbandoning, Holds
  <1>5. ExecutingIsRunning'
    BY <1>1 DEF ExecutingIsRunning, Holding, Live
  <1>6. RanOnRecord'
    BY <1>1, <1>2, <1>3 DEF JournalInv, RanOnRecord
  <1>7. AtMostOnce'
    BY <1>1, <1>2 DEF JournalInv, AtMostOnce
  <1>8. RecordsKept
    BY <1>2 DEF RecordsKept
  <1>9. QED
    BY <1>4, <1>5, <1>6, <1>7, <1>8 DEF JournalInv

LEMMA BootStep ==
  ASSUME TypeOK, JournalInv, Boot \/ BootFails
  PROVE  JournalInv' /\ RecordsKept
  <1>1. /\ \A d \in Calls : pc[d] \notin Holding
        /\ UNCHANGED <<moduleLocks, pc, request, module>>
    BY DEF Boot, BootFails, JournalInv, HoldersUp
  <1>2. \A q \in Requests : Running(q) => [journal[q] EXCEPT !.status = "interrupted"] # NoRecord
    <2>1. ASSUME NEW q \in Requests, Running(q)
          PROVE  [journal[q] EXCEPT !.status = "interrupted"] \in Record
      BY <2>1 DEF TypeOK, Running, Record, Statuses
    <2>2. QED
      BY <2>1, RecordAssumption
  <1>3. /\ lost \subseteq lost'
        /\ \A q \in Requests : q \notin lost' =>
             /\ q \notin lost
             /\ journal[q] # NoRecord => journal'[q] # NoRecord
             /\ ~Running(q) => journal'[q] = journal[q]
    <2>1. CASE Boot
      BY <1>2, <2>1 DEF Boot, SaveSucceeds, Interrupted
    <2>2. CASE BootFails
      BY <2>2, DamageKeeps, DamageForgets DEF BootFails
    <2>3. QED
      BY <2>1, <2>2
  <1>4. \A d \in Calls : pc[d] \in Ran => request[d] \in Requests
    BY DEF TypeOK, Ran, Holding, Live
  <1>5. HoldersUp' /\ OwnsLock' /\ OnRecord'
    BY <1>1 DEF HoldersUp, OwnsLock, OnRecord, Holds
  <1>6. ExecutingIsRunning'
    BY <1>1 DEF ExecutingIsRunning, Holding, Live
  <1>7. RanOnRecord'
    BY <1>1, <1>3, <1>4 DEF JournalInv, RanOnRecord
  <1>8. AtMostOnce'
    BY <1>1, <1>3 DEF JournalInv, AtMostOnce
  <1>9. LockLeaksOnlyByAbandoning'
    BY <1>1, <1>3 DEF JournalInv, LockLeaksOnlyByAbandoning
  <1>10. RecordsKept
    BY <1>3 DEF RecordsKept
  <1>11. QED
    BY <1>5, <1>6, <1>7, <1>8, <1>9, <1>10 DEF JournalInv

LEMMA JournalStep ==
  TypeOK /\ JournalInv /\ [Next]_vars => JournalInv' /\ RecordsKept
  <1> SUFFICES ASSUME TypeOK, JournalInv, [Next]_vars PROVE JournalInv' /\ RecordsKept
    OBVIOUS
  <1>1. CASE UNCHANGED vars
    <2>1. UNCHANGED <<agent, journal, lost, moduleLocks, pc, request, module>>
      BY <1>1 DEF vars, journalVars
    <2>2. HoldersUp' /\ OwnsLock' /\ OnRecord' /\ RanOnRecord'
      BY <2>1 DEF JournalInv, HoldersUp, OwnsLock, OnRecord, RanOnRecord, Holds
    <2>3. ExecutingIsRunning' /\ AtMostOnce' /\ LockLeaksOnlyByAbandoning'
      BY <2>1 DEF JournalInv, ExecutingIsRunning, Running, AtMostOnce, LockLeaksOnlyByAbandoning
    <2>4. QED
      BY <2>1, <2>2, <2>3 DEF JournalInv, RecordsKept
  <1>2. QED
    BY <1>1, BeginStep, BeginFailsStep, RefusedStep, UpdateStep, FinishStep, ReleaseStep,
       AbandonStep, CrashStep, BootStep
    DEF Next, Handler

LEMMA InitJournalInv == Init => JournalInv
  BY DEF Init, JournalInv, HoldersUp, OwnsLock, OnRecord, RanOnRecord, ExecutingIsRunning,
     AtMostOnce, LockLeaksOnlyByAbandoning, Holds, Ran, Holding, Live

LEMMA JournalInvariant == Spec => []JournalInv
  <1>1. TypeOK /\ JournalInv /\ [Next]_vars => JournalInv'
    BY JournalStep
  <1>2. QED
    BY <1>1, InitJournalInv, JournalTypeCorrect, PTL DEF Spec

\* beginOperation admits one operation per module at a time, for any number of calls,
\* whatever crashes, failing saves and reads and retries do; two handlers meet on a
\* module only when the record of one of them was lost with an emptied file.
THEOREM JournalExclusion == Spec => []ModuleExclusion
  <1>1. ASSUME JournalInv, NEW c \in Calls, NEW d \in Calls,
               pc[c] = "executing", pc[d] = "executing", module[c] = module[d],
               request[c] \notin lost, request[d] \notin lost
        PROVE  c = d
    <2>1. Holds(c) /\ Holds(d) /\ pc[c] \in Ran /\ pc[d] \in Ran
      BY <1>1 DEF Holds, Ran, Holding, Live
    <2>2. request[c] = request[d]
      BY <1>1, <2>1 DEF JournalInv, OwnsLock
    <2>3. QED
      BY <1>1, <2>1, <2>2 DEF JournalInv, AtMostOnce
  <1>2. JournalInv => ModuleExclusion
    BY <1>1 DEF ModuleExclusion
  <1>3. QED
    BY <1>2, JournalInvariant, PTL

\* A module stays locked after its handler only when UninstallModule returned without
\* Fail (acquireModuleLock and releaseModuleLock are paired on every other path).
THEOREM JournalLockLeaks == Spec => []LockLeaksOnlyByAbandoning
  <1>1. JournalInv => LockLeaksOnlyByAbandoning
    BY DEF JournalInv
  <1>2. QED
    BY <1>1, JournalInvariant, PTL

\* A request id is executed again only when its record was lost with an emptied file:
\* beginOperation finds every other one in the journal, whatever retries, crashes and
\* failing saves happen.
THEOREM JournalAtMostOnce == Spec => []AtMostOnce
  <1>1. JournalInv => AtMostOnce
    BY DEF JournalInv
  <1>2. QED
    BY <1>1, JournalInvariant, PTL

\* A finished record never changes again, until an emptied file loses it: Complete, Fail
\* and InitializeRuntimeState only write records that are still running.
THEOREM JournalTerminalIsFinal == Spec => TerminalIsFinal
  <1>1. TypeOK /\ JournalInv /\ [Next]_vars =>
          [\A r \in Requests :
             journal[r] # NoRecord /\ ~Running(r) =>
               journal'[r] = journal[r] \/ r \in lost']_vars
    BY JournalStep DEF RecordsKept
  <1>2. QED
    BY <1>1, JournalInvariant, JournalTypeCorrect, PTL DEF Spec, TerminalIsFinal

-----------------------------------------------------------------------------
(***************************************************************************)
(* Refinement.  Every step of the journal is a step of ModuleOperations or *)
(* stutters: an emptied file forgets all operations at once, and what      *)
(* happens to a forgotten request is not seen.                             *)
(***************************************************************************)
\* Steps that leave the records and the working requests alone stutter, and so does
\* whatever happens to a forgotten request.
LEMMA RefineStutter ==
  ASSUME lost' = lost,
         \A q \in Requests \ lost : journal'[q] = journal[q] /\ (AtWork(q)' <=> AtWork(q))
  PROVE  UNCHANGED <<JournalState, JournalTarget>>
  <1>1. ASSUME NEW q \in Requests
        PROVE  JournalState'[q] = JournalState[q] /\ JournalTarget'[q] = JournalTarget[q]
    BY DEF JournalState, JournalTarget, Running
  <1>2. QED
    BY <1>1 DEF JournalState, JournalTarget

\* Records have one of four statuses, so that the other states say what they mean.
LEMMA StateMeans ==
  ASSUME TypeOK, NEW q \in Requests
  PROVE  /\ JournalState[q] = "none" <=> q \notin lost /\ journal[q] = NoRecord
         /\ JournalState[q] = "executing" <=> q \notin lost /\ Running(q) /\ AtWork(q)
  <1>1. journal[q] # NoRecord => journal[q].status \in Statuses
    BY DEF TypeOK, Record
  <1>2. QED
    BY <1>1 DEF JournalState, Running, Statuses

\* A save that goes wrong forgets everything or nothing.
LEMMA RefineDamage ==
  ASSUME TypeOK, NEW damage, SaveLeaves(damage)
  PROVE  Operations!ForgetAll \/ (lost' = lost /\ journal' = journal)
  <1>1. CASE damage # "blank"
    BY <1>1 DEF SaveLeaves
  <1>2. CASE damage = "blank"
    <2>1. /\ lost' = lost \cup {r \in Requests : journal[r] # NoRecord}
          /\ journal' = EmptyJournal
      BY <1>2 DEF SaveLeaves
    <2>2. ASSUME NEW q \in Requests
          PROVE  /\ JournalState'[q] = IF JournalState[q] = "none" THEN "none" ELSE "forgotten"
                 /\ JournalTarget'[q] = NoModule
      <3>1. q \notin lost' <=> JournalState[q] = "none"
        BY <2>1, StateMeans
      <3>2. QED
        BY <2>1, <3>1 DEF JournalState, JournalTarget, EmptyJournal
    <2>3. QED
      BY <2>2 DEF JournalState, JournalTarget, Operations!ForgetAll
  <1>3. QED
    BY <1>1, <1>2

LEMMA RefineBegin ==
  ASSUME TypeOK, JournalInv, NEW c \in Calls, NEW r \in Requests, NEW m \in Modules,
         BeginOperation(c, r, m)
  PROVE  Operations!Start(r, m) \/ UNCHANGED <<JournalState, JournalTarget>>
  <1>1. /\ readable /\ journal[r] = NoRecord /\ lost' = lost
        /\ \A q \in Requests : Running(q) => journal[q].module # m
        /\ pc[c] = "idle" /\ pc'[c] = "executing" /\ request'[c] = r
        /\ \A d \in Calls \ {c} : pc'[d] = pc[d] /\ request'[d] = request[d]
        /\ journal'[r] = [module |-> m, status |-> "running", stage |-> "validate"]
        /\ \A q \in Requests \ {r} : journal'[q] = journal[q]
    BY DEF TypeOK, BeginOperation, Admits, Receive, SaveSucceeds
  <1>2. /\ journal'[r] # NoRecord /\ journal'[r].status = "running"
        /\ journal'[r].module = m
    BY <1>1, RecordAssumption DEF Record, Statuses, Stages
  <1>3. /\ AtWork(r)'
        /\ \A q \in Requests \ {r} : AtWork(q)' <=> AtWork(q)
    BY <1>1 DEF AtWork
  <1>4. CASE r \in lost
    BY <1>1, <1>3, <1>4, RefineStutter
  <1>5. CASE r \notin lost
    <2>1. JournalState[r] = "none"
      BY <1>1, <1>5, StateMeans
    <2>2. ~Operations!Busy(m)
      <3> SUFFICES ASSUME NEW q \in Requests, JournalState[q] = "executing",
                          JournalTarget[q] = m
                   PROVE  FALSE
        BY DEF Operations!Busy
      <3>1. q \notin lost /\ Running(q)
        BY StateMeans
      <3>2. journal[q].module = m
        BY <3>1 DEF JournalTarget, Running
      <3>3. QED
        BY <1>1, <3>1, <3>2
    <2>3. JournalState' = [JournalState EXCEPT ![r] = "executing"]
      BY <1>1, <1>2, <1>3, <1>5 DEF JournalState, Running
    <2>4. JournalTarget' = [JournalTarget EXCEPT ![r] = m]
      BY <1>1, <1>2, <1>5 DEF JournalTarget
    <2>5. QED
      BY <2>1, <2>2, <2>3, <2>4 DEF Operations!Start
  <1>6. QED
    BY <1>4, <1>5

\* An operation ends: its handler stops working and the record of the request
\* either takes the outcome or stays as it was.
LEMMA RefineEnd ==
  ASSUME TypeOK, JournalInv, NEW c \in Calls, pc[c] = "executing",
         NEW phase, phase # "executing", pc' = [pc EXCEPT ![c] = phase],
         request' = request, lost' = lost,
         NEW o \in {"completed", "failed"},
         \/ journal' = journal
         \/ journal' = [journal EXCEPT ![request[c]] = FinalRecord(request[c], o)]
  PROVE  \/ \E e \in {"completed", "failed", "interrupted"} :
              Operations!End(request[c], e)
         \/ UNCHANGED <<JournalState, JournalTarget>>
  <1>0. PICK r \in Requests : r = request[c]
    BY DEF TypeOK
  <1>1. \A q \in Requests \ {r} : (AtWork(q)' <=> AtWork(q)) /\ journal'[q] = journal[q]
    BY <1>0 DEF AtWork, TypeOK
  <1>2. CASE r \in lost
    BY <1>1, <1>2, RefineStutter
  <1>3. CASE r \notin lost /\ journal' = journal
    <2>1. Running(r) /\ AtWork(r)
      BY <1>0, <1>3 DEF JournalInv, ExecutingIsRunning, AtWork
    <2>2. ~AtWork(r)'
      BY <1>0, <1>3 DEF JournalInv, AtMostOnce, AtWork, TypeOK, Ran, Holding, Live
    <2>3. JournalState' = [JournalState EXCEPT ![r] = "interrupted"]
      BY <1>1, <1>3, <2>1, <2>2 DEF JournalState, Running
    <2>4. JournalTarget' = JournalTarget
      BY <1>3 DEF JournalTarget
    <2>5. JournalState[r] = "executing"
      BY <1>3, <2>1, StateMeans
    <2>6. QED
      BY <1>0, <2>3, <2>4, <2>5 DEF Operations!End
  <1>4. CASE r \notin lost /\ journal' = [journal EXCEPT ![r] = FinalRecord(r, o)]
    <2>1. journal[r] \in Record /\ Running(r) /\ AtWork(r)
      BY <1>0, <1>4 DEF TypeOK, JournalInv, ExecutingIsRunning, Running, AtWork
    <2>2. /\ FinalRecord(r, o) \in Record
          /\ FinalRecord(r, o).status = o
          /\ FinalRecord(r, o).module = journal[r].module
      BY <2>1 DEF FinalRecord, Record, Stages, Statuses
    <2>3. /\ journal'[r] # NoRecord /\ journal'[r].status = o
          /\ journal'[r].module = journal[r].module
      BY <1>4, <2>2, RecordAssumption DEF TypeOK
    <2>4. JournalState' = [JournalState EXCEPT ![r] = o]
      <3>1. JournalState'[r] = o
        BY <1>4, <2>3 DEF JournalState, Running
      <3>2. ASSUME NEW q \in Requests \ {r}
            PROVE  JournalState'[q] = JournalState[q]
        BY <1>1 DEF JournalState, Running
      <3>3. /\ JournalState = [q \in Requests |-> JournalState[q]]
            /\ JournalState' = [q \in Requests |-> JournalState'[q]]
        BY DEF JournalState
      <3>4. QED
        BY <3>1, <3>2, <3>3
    <2>5. JournalTarget' = JournalTarget
      BY <1>1, <2>1, <2>3 DEF JournalTarget, Running
    <2>6. JournalState[r] = "executing"
      BY <1>4, <2>1, StateMeans
    <2>7. QED
      BY <1>0, <2>4, <2>5, <2>6 DEF Operations!End
  <1>5. QED
    BY <1>0, <1>2, <1>3, <1>4

LEMMA RefineUpdate ==
  ASSUME TypeOK, NEW c \in Calls, UpdateStage(c)
  PROVE  Operations!ForgetAll \/ UNCHANGED <<JournalState, JournalTarget>>
  <1>1. CASE \E damage \in SaveFaults : SaveLeaves(damage)
    <2>1. \A q \in Requests : AtWork(q)' <=> AtWork(q)
      BY DEF UpdateStage, AtWork
    <2>2. QED
      BY <1>1, <2>1, RefineDamage, RefineStutter
  <1>2. CASE SaveSucceeds([journal EXCEPT ![request[c]].stage = "apply"])
    <2>1. /\ request[c] \in Requests /\ journal[request[c]] \in Record
          /\ UNCHANGED <<pc, request, lost>>
      BY <1>2 DEF UpdateStage, TypeOK, Known, SaveSucceeds
    <2>2. \A q \in Requests : AtWork(q)' <=> AtWork(q)
      BY <2>1 DEF AtWork
    <2>3. [journal[request[c]] EXCEPT !.stage = "apply"] \in Record
      BY <2>1 DEF Record, Stages
    <2>4. /\ journal'[request[c]] \in Record
          /\ journal'[request[c]].status = journal[request[c]].status
          /\ journal'[request[c]].module = journal[request[c]].module
      BY <1>2, <2>1, <2>3 DEF TypeOK, Record, SaveSucceeds
    <2>5. \A q \in Requests \ {request[c]} : journal'[q] = journal[q]
      BY <1>2, <2>1 DEF TypeOK, SaveSucceeds
    <2>6. \A q \in Requests : /\ journal'[q] = NoRecord <=> journal[q] = NoRecord
                              /\ journal[q] # NoRecord =>
                                   /\ journal'[q].status = journal[q].status
                                   /\ journal'[q].module = journal[q].module
      BY <2>1, <2>4, <2>5, RecordAssumption
    <2>7. QED
      BY <2>1, <2>2, <2>6 DEF JournalState, JournalTarget, Running
  <1>3. QED
    BY <1>1, <1>2 DEF UpdateStage, Save

LEMMA RefineCrash ==
  ASSUME TypeOK, JournalInv, Crash \/ CrashInSave
  PROVE  Operations!ForgetAll \/ Operations!InterruptAll
  <1>1. Operations!ForgetAll \/ (lost' = lost /\ journal' = journal)
    BY RefineDamage DEF Crash, CrashInSave, journalVars
  <1>2. ASSUME lost' = lost, journal' = journal
        PROVE  Operations!InterruptAll
    <2>1. \A q \in Requests : ~AtWork(q)'
      BY DEF Crash, CrashInSave, ProcessDies, Holding, Live, AtWork
    <2>2. ASSUME NEW q \in Requests
          PROVE  JournalState'[q] = IF JournalState[q] = "executing"
                                    THEN "interrupted" ELSE JournalState[q]
      <3>1. CASE JournalState[q] = "executing"
        BY <1>2, <2>1, <3>1, StateMeans DEF JournalState, Running
      <3>2. CASE JournalState[q] # "executing"
        <4>1. q \in lost \/ ~Running(q) \/ ~AtWork(q)
          BY <3>2, StateMeans
        <4>2. QED
          BY <1>2, <2>1, <3>2, <4>1 DEF JournalState, Running
      <3>3. QED
        BY <3>1, <3>2
    <2>3. JournalState' = [q \in Requests |->
            IF JournalState[q] = "executing" THEN "interrupted" ELSE JournalState[q]]
      BY <2>2 DEF JournalState
    <2>4. JournalTarget' = JournalTarget
      BY <1>2 DEF JournalTarget
    <2>5. QED
      BY <2>3, <2>4 DEF Operations!InterruptAll
  <1>3. QED
    BY <1>1, <1>2

LEMMA RefineBoot ==
  ASSUME TypeOK, JournalInv, Boot
  PROVE  UNCHANGED <<JournalState, JournalTarget>>
  <1>1. /\ \A d \in Calls : pc[d] # "executing"
        /\ UNCHANGED <<pc, request, lost>>
        /\ journal' = Interrupted
    BY DEF Boot, SaveSucceeds, JournalInv, HoldersUp, Holding, Live
  <1>2. \A q \in Requests : ~AtWork(q) /\ ~AtWork(q)'
    BY <1>1 DEF AtWork
  <1>3. ASSUME NEW q \in Requests
        PROVE  JournalState'[q] = JournalState[q] /\ JournalTarget'[q] = JournalTarget[q]
    <2>1. CASE Running(q)
      <3>1. journal[q] \in Record /\ journal[q] # NoRecord
        BY <2>1 DEF TypeOK, Running
      <3>2. /\ journal'[q] \in Record
            /\ journal'[q].status = "interrupted"
            /\ journal'[q].module = journal[q].module
        BY <1>1, <2>1, <3>1 DEF Interrupted, Record, Statuses
      <3>3. JournalState'[q] = JournalState[q]
        BY <1>1, <1>2, <2>1, <3>1, <3>2, RecordAssumption DEF JournalState, Running
      <3>4. QED
        BY <1>1, <3>1, <3>2, <3>3, RecordAssumption DEF JournalTarget
    <2>2. CASE ~Running(q)
      <3>1. journal'[q] = journal[q]
        BY <1>1, <2>2 DEF Interrupted
      <3>2. QED
        BY <1>1, <1>2, <3>1 DEF JournalState, JournalTarget, Running
    <2>3. QED
      BY <2>1, <2>2
  <1>4. QED
    BY <1>3 DEF JournalState, JournalTarget

LEMMA RefineNext ==
  TypeOK /\ JournalInv /\ [Next]_vars => [Operations!OpsNext]_Operations!opvars
  <1> SUFFICES ASSUME TypeOK, JournalInv, [Next]_vars
               PROVE  \/ Operations!OpsNext
                      \/ UNCHANGED <<JournalState, JournalTarget>>
    BY DEF Operations!opvars
  <1>1. ASSUME NEW c \in Calls, NEW r \in Requests, NEW m \in Modules,
               BeginOperation(c, r, m)
        PROVE  Operations!OpsNext \/ UNCHANGED <<JournalState, JournalTarget>>
    BY <1>1, RefineBegin DEF Operations!OpsNext
  <1>2. ASSUME NEW c \in Calls, NEW r \in Requests,
               \/ \E m \in Modules : BeginSaveFails(c, r, m) \/ BeginRejected(c, r, m)
               \/ Replay(c, r)
        PROVE  Operations!OpsNext \/ UNCHANGED <<JournalState, JournalTarget>>
    <2>1. /\ pc[c] = "idle" /\ pc'[c] \in {"rejected", "replayed"}
          /\ \A d \in Calls \ {c} : pc'[d] = pc[d] /\ request'[d] = request[d]
      BY <1>2 DEF TypeOK, BeginSaveFails, BeginRejected, Replay, Receive
    <2>2. \A q \in Requests : AtWork(q)' <=> AtWork(q)
      BY <2>1 DEF AtWork
    <2>3. Operations!ForgetAll \/ (lost' = lost /\ journal' = journal)
      BY <1>2, RefineDamage DEF BeginSaveFails, BeginRejected, Replay, journalVars
    <2>4. QED
      BY <2>2, <2>3, RefineStutter DEF Operations!OpsNext
  <1>3. ASSUME NEW c \in Calls, UpdateStage(c)
        PROVE  Operations!OpsNext \/ UNCHANGED <<JournalState, JournalTarget>>
    BY <1>3, RefineUpdate DEF Operations!OpsNext
  <1>4. ASSUME NEW c \in Calls, NEW o \in {"completed", "failed"},
               Finish(c, o) \/ Abandon(c)
        PROVE  Operations!OpsNext \/ UNCHANGED <<JournalState, JournalTarget>>
    <2>1. PICK phase : /\ phase # "executing"
                       /\ pc' = [pc EXCEPT ![c] = phase]
      BY <1>4 DEF Finish, Abandon
    <2>2. pc[c] = "executing" /\ request' = request /\ request[c] \in Requests
      BY <1>4 DEF Finish, Abandon, TypeOK
    <2>3. \/ Operations!ForgetAll
          \/ lost' = lost /\ journal' = journal
          \/ /\ lost' = lost
             /\ journal' = [journal EXCEPT ![request[c]] = FinalRecord(request[c], o)]
      BY <1>4, RefineDamage DEF Finish, Abandon, SaveSucceeds, journalVars
    <2>4. QED
      BY <2>1, <2>2, <2>3, RefineEnd DEF Operations!OpsNext
  <1>5. ASSUME NEW c \in Calls, Release(c)
        PROVE  UNCHANGED <<JournalState, JournalTarget>>
    <2>1. \A q \in Requests : AtWork(q)' <=> AtWork(q)
      BY <1>5 DEF Release, TypeOK, AtWork
    <2>2. QED
      BY <1>5, <2>1, RefineStutter DEF Release, journalVars
  <1>6. CASE Crash \/ CrashInSave
    BY <1>6, RefineCrash DEF Operations!OpsNext
  <1>7. CASE Boot
    BY <1>7, RefineBoot
  <1>8. CASE BootFails \/ UNCHANGED vars
    <2>1. \A q \in Requests : AtWork(q)' <=> AtWork(q)
      BY <1>8 DEF BootFails, vars, AtWork
    <2>2. Operations!ForgetAll \/ (lost' = lost /\ journal' = journal)
      BY <1>8, RefineDamage DEF BootFails, vars, journalVars
    <2>3. QED
      BY <2>1, <2>2, RefineStutter DEF Operations!OpsNext
  <1>9. QED
    BY <1>1, <1>2, <1>3, <1>4, <1>5, <1>6, <1>7, <1>8
    DEF Next, Handler

\* The journal implements ModuleOperations whatever crashes and failing saves and
\* reads happen: each operation runs once, alone on its module, and ends once, until
\* an emptied file forgets it.
THEOREM JournalImplementsModuleOperations == Spec => ImplementsModuleOperations
  <1>1. Init => Operations!OpsInit
    BY DEF Init, EmptyJournal, Operations!OpsInit, JournalState, JournalTarget
  <1>2. QED
    BY <1>1, JournalInvariant, RefineNext, JournalTypeCorrect, PTL
    DEF Spec, ImplementsModuleOperations, Operations!OpsSpec

-----------------------------------------------------------------------------
(***************************************************************************)
(* Replays.  A record that names an outcome was written by the handler     *)
(* that ended with it, and this handler keeps its outcome.                 *)
(***************************************************************************)
Ends == {"completed", "failed"}

\* Which request ended how, as far as its handlers are concerned.
Endings == {<<request[d], outcome[d]>> : d \in {x \in Calls : pc[x] \in Ran}}

RecordsTruthful ==
  \A r \in Requests :
    journal[r] # NoRecord /\ journal[r].status \in Ends =>
      <<r, journal[r].status>> \in Endings

NoOutcomeYet ==
  \A c \in Calls : pc[c] \in {"idle", "executing"} => outcome[c] = "none"

ReplaysTruthful ==
  \A c \in Calls : pc[c] = "replayed" /\ outcome[c] # "interrupted" =>
    outcome[c] \in Ends /\ <<request[c], outcome[c]>> \in Endings

TruthInv == RecordsTruthful /\ NoOutcomeYet /\ ReplaysTruthful

\* A handler that ended stays, with its outcome.
EndingsKept == \A e \in Endings : e[2] \in Ends => e \in Endings'

\* No record takes an outcome it did not have.
StatusKept ==
  \A r \in Requests :
    journal'[r] # NoRecord /\ journal'[r].status \in Ends =>
      journal[r] # NoRecord /\ journal[r].status = journal'[r].status

ReplaysKept ==
  \A c \in Calls : pc'[c] = "replayed" =>
    pc[c] = "replayed" /\ request'[c] = request[c] /\ outcome'[c] = outcome[c]

LEMMA DamageKeepsStatus ==
  ASSUME TypeOK, NEW damage, SaveLeaves(damage)
  PROVE  StatusKept
  BY DEF SaveLeaves, StatusKept, EmptyJournal

\* Calls that stay where they are, or go on without a new outcome, keep theirs.
LEMMA EndingsStay ==
  ASSUME \A d \in Calls : pc[d] \in Ran /\ outcome[d] # "none" =>
           pc'[d] \in Ran /\ request'[d] = request[d] /\ outcome'[d] = outcome[d]
  PROVE  EndingsKept
  BY DEF EndingsKept, Endings, Ends

LEMMA TruthKept ==
  ASSUME TruthInv, EndingsKept, StatusKept, ReplaysKept
  PROVE  RecordsTruthful' /\ ReplaysTruthful'
  <1>1. RecordsTruthful'
    BY DEF TruthInv, RecordsTruthful, EndingsKept, StatusKept
  <1>2. ReplaysTruthful'
    BY DEF TruthInv, ReplaysTruthful, EndingsKept, ReplaysKept
  <1>3. QED
    BY <1>1, <1>2

LEMMA TruthStep == TypeOK /\ TruthInv /\ [Next]_vars => TruthInv'
  <1> SUFFICES ASSUME TypeOK, TruthInv, [Next]_vars PROVE TruthInv'
    OBVIOUS
  <1>1. ASSUME NEW c \in Calls, NEW r \in Requests, NEW m \in Modules,
               BeginOperation(c, r, m)
        PROVE  TruthInv'
    <2>1. /\ pc[c] = "idle" /\ pc'[c] = "executing"
          /\ \A d \in Calls \ {c} : pc'[d] = pc[d] /\ request'[d] = request[d]
          /\ outcome' = outcome
          /\ journal'[r] = [module |-> m, status |-> "running", stage |-> "validate"]
          /\ \A q \in Requests \ {r} : journal'[q] = journal[q]
      BY <1>1 DEF TypeOK, BeginOperation, Receive, SaveSucceeds
    <2>2. EndingsKept
      BY <2>1, EndingsStay DEF Ran, Holding, Live
    <2>3. StatusKept
      BY <2>1 DEF StatusKept, Ends
    <2>4. ReplaysKept
      BY <2>1 DEF ReplaysKept
    <2>5. NoOutcomeYet'
      BY <2>1 DEF TruthInv, NoOutcomeYet
    <2>6. QED
      BY <2>2, <2>3, <2>4, <2>5, TruthKept DEF TruthInv
  <1>2. ASSUME NEW c \in Calls, NEW r \in Requests, NEW m \in Modules,
               BeginSaveFails(c, r, m) \/ BeginRejected(c, r, m)
        PROVE  TruthInv'
    <2>1. /\ pc[c] = "idle" /\ pc'[c] = "rejected"
          /\ \A d \in Calls \ {c} : pc'[d] = pc[d] /\ request'[d] = request[d]
          /\ outcome' = outcome
      BY <1>2 DEF TypeOK, BeginSaveFails, BeginRejected, Receive
    <2>2. EndingsKept
      BY <2>1, EndingsStay DEF Ran, Holding, Live
    <2>3. StatusKept
      BY <1>2, DamageKeepsStatus DEF BeginSaveFails, BeginRejected, journalVars, StatusKept
    <2>4. ReplaysKept
      BY <2>1 DEF ReplaysKept
    <2>5. NoOutcomeYet'
      BY <2>1 DEF TruthInv, NoOutcomeYet
    <2>6. QED
      BY <2>2, <2>3, <2>4, <2>5, TruthKept DEF TruthInv
  <1>3. ASSUME NEW c \in Calls, NEW r \in Requests, Replay(c, r)
        PROVE  TruthInv'
    <2>1. /\ pc[c] = "idle" /\ pc'[c] = "replayed" /\ request'[c] = r
          /\ outcome'[c] = journal[r].status /\ journal[r] # NoRecord
          /\ \A d \in Calls \ {c} : /\ pc'[d] = pc[d] /\ request'[d] = request[d]
                                    /\ outcome'[d] = outcome[d]
          /\ journal' = journal
      BY <1>3 DEF TypeOK, Replay, Receive, Known, journalVars
    <2>2. EndingsKept
      BY <2>1, EndingsStay DEF Ran, Holding, Live
    <2>3. RecordsTruthful'
      BY <2>1, <2>2 DEF TruthInv, RecordsTruthful, EndingsKept
    <2>4. ReplaysTruthful'
      <3>1. journal[r].status \in Ends \cup {"interrupted"}
        BY <1>3 DEF TypeOK, Record, Statuses, Replay, Known, Running, Ends
      <3>2. journal[r].status \in Ends => <<r, journal[r].status>> \in Endings'
        BY <2>1, <2>2 DEF TruthInv, RecordsTruthful, EndingsKept
      <3>3. QED
        BY <2>1, <2>2, <3>1, <3>2 DEF TruthInv, ReplaysTruthful, EndingsKept
    <2>5. NoOutcomeYet'
      BY <2>1 DEF TruthInv, NoOutcomeYet
    <2>6. QED
      BY <2>3, <2>4, <2>5 DEF TruthInv
  <1>4. ASSUME NEW c \in Calls, UpdateStage(c)
        PROVE  TruthInv'
    <2>1. UNCHANGED <<pc, request, outcome>>
      BY <1>4 DEF UpdateStage
    <2>2. EndingsKept /\ ReplaysKept /\ NoOutcomeYet'
      BY <2>1, EndingsStay DEF ReplaysKept, TruthInv, NoOutcomeYet
    <2>3. StatusKept
      <3>1. request[c] \in Requests /\ journal[request[c]] \in Record
        BY <1>4 DEF TypeOK, UpdateStage, Known
      <3>2. CASE SaveSucceeds([journal EXCEPT ![request[c]].stage = "apply"])
        BY <3>1, <3>2, RecordAssumption DEF SaveSucceeds, StatusKept, TypeOK, Record
      <3>3. QED
        BY <1>4, <3>2, DamageKeepsStatus DEF UpdateStage, Save
    <2>4. QED
      BY <2>2, <2>3, TruthKept DEF TruthInv
  <1>5. ASSUME NEW c \in Calls, NEW o \in Ends, Finish(c, o)
        PROVE  TruthInv'
    <2>1. /\ pc[c] = "executing" /\ pc'[c] = "releasing"
          /\ request[c] \in Requests /\ request' = request
          /\ outcome[c] = "none" /\ outcome'[c] = o
          /\ \A d \in Calls \ {c} : pc'[d] = pc[d] /\ outcome'[d] = outcome[d]
      BY <1>5 DEF TypeOK, Finish, TruthInv, NoOutcomeYet
    <2>2. EndingsKept
      BY <2>1, EndingsStay DEF Ran, Holding, Live
    <2>3. <<request[c], o>> \in Endings'
      BY <2>1 DEF Endings, Ran, Holding, Live
    <2>4. \/ StatusKept
          \/ /\ journal'[request[c]].status = o
             /\ \A q \in Requests \ {request[c]} : journal'[q] = journal[q]
      <3>1. CASE /\ Known(request[c])
                 /\ SaveSucceeds([journal EXCEPT ![request[c]] = FinalRecord(request[c], o)])
        <4>1. journal[request[c]] \in Record
          BY <2>1, <3>1 DEF Known, TypeOK
        <4>2. FinalRecord(request[c], o).status = o
          BY <4>1 DEF FinalRecord, Record
        <4>3. QED
          BY <2>1, <3>1, <4>2 DEF SaveSucceeds, TypeOK
      <3>2. CASE \E damage \in SaveFaults : SaveLeaves(damage)
        BY <3>2, DamageKeepsStatus
      <3>3. CASE UNCHANGED journal
        BY <3>3 DEF StatusKept
      <3>4. QED
        BY <1>5, <3>1, <3>2, <3>3 DEF Finish, journalVars
    <2>5. RecordsTruthful'
      <3>1. CASE StatusKept
        BY <2>2, <3>1 DEF TruthInv, RecordsTruthful, EndingsKept, StatusKept
      <3>2. CASE ~StatusKept
        BY <2>2, <2>3, <2>4, <3>2 DEF TruthInv, RecordsTruthful, EndingsKept
      <3>3. QED
        BY <3>1, <3>2
    <2>6. ReplaysTruthful'
      BY <2>1, <2>2 DEF TruthInv, ReplaysTruthful, EndingsKept
    <2>7. NoOutcomeYet'
      BY <2>1 DEF TruthInv, NoOutcomeYet
    <2>8. QED
      BY <2>5, <2>6, <2>7 DEF TruthInv
  <1>6. CASE (\E c \in Calls : Release(c) \/ Abandon(c)) \/ Crash \/ CrashInSave
    <2>1. /\ \A d \in Calls : /\ pc[d] \in Ran => pc'[d] \in Ran
                              /\ pc'[d] \in {"idle", "executing", "replayed"} =>
                                   pc'[d] = pc[d]
          /\ UNCHANGED <<request, outcome>>
      BY <1>6 DEF Release, Abandon, Crash, CrashInSave, ProcessDies, TypeOK, Ran, Holding, Live
    <2>2. EndingsKept /\ ReplaysKept
      BY <2>1, EndingsStay DEF ReplaysKept
    <2>3. StatusKept
      BY <1>6, DamageKeepsStatus DEF Release, Abandon, Crash, CrashInSave, journalVars, StatusKept
    <2>4. NoOutcomeYet'
      BY <2>1 DEF TruthInv, NoOutcomeYet
    <2>5. QED
      BY <2>2, <2>3, <2>4, TruthKept DEF TruthInv
  <1>7. CASE Boot \/ BootFails \/ UNCHANGED vars
    <2>1. UNCHANGED <<pc, request, outcome>>
      BY <1>7 DEF Boot, BootFails, vars
    <2>2. EndingsKept /\ ReplaysKept /\ NoOutcomeYet'
      BY <2>1, EndingsStay DEF ReplaysKept, TruthInv, NoOutcomeYet
    <2>3. StatusKept
      <3>1. CASE Boot
        <4>1. \A q \in Requests : Running(q) =>
                [journal[q] EXCEPT !.status = "interrupted"].status = "interrupted"
          BY DEF Running, TypeOK, Record
        <4>2. journal' = Interrupted
          BY <3>1 DEF Boot, SaveSucceeds
        <4>3. QED
          BY <4>1, <4>2 DEF StatusKept, Interrupted, Ends
      <3>2. QED
        BY <1>7, <3>1, DamageKeepsStatus DEF BootFails, StatusKept, vars, journalVars
    <2>4. QED
      BY <2>2, <2>3, TruthKept DEF TruthInv
  <1>8. QED
    BY <1>1, <1>2, <1>3, <1>4, <1>5, <1>6, <1>7 DEF Next, Handler, Ends

\* A retry is told that an operation completed or failed only when a handler of
\* that request ended that way, whatever the saves, crashes and reads do
\* (beginOperation, Complete and Fail of operation_journal.go).
THEOREM JournalReplayTruthful == Spec => []ReplayTruthful
  <1>1. Init => TruthInv
    BY DEF Init, TruthInv, RecordsTruthful, NoOutcomeYet, ReplaysTruthful, EmptyJournal
  <1>2. TypeOK /\ TruthInv => ReplayTruthful
    <2> SUFFICES ASSUME TypeOK, TruthInv, NEW c \in Calls,
                        pc[c] = "replayed", outcome[c] # "interrupted"
                 PROVE  \E d \in Calls : /\ pc[d] \in Ran
                                         /\ request[d] = request[c]
                                         /\ outcome[d] = outcome[c]
      BY DEF ReplayTruthful
    <2>1. QED
      BY DEF TruthInv, ReplaysTruthful, Endings, TypeOK, Outcomes, Ends
  <1>3. QED
    BY <1>1, <1>2, TruthStep, JournalTypeCorrect, PTL DEF Spec

-----------------------------------------------------------------------------
(***************************************************************************)
(* Orphans.  A record is closed by its handler or by the next start, or    *)
(* its handler left it open: on an early exit, or because the final record *)
(* did not reach the file.                                                 *)
(***************************************************************************)
Owned(r) ==
  \/ \E c \in Calls : pc[c] \in {"executing", "abandoned"} /\ request[c] = r
  \/ r \in unclosed

OwnerInv ==
  agent = "up" /\ readable => \A r \in Requests : Running(r) => Owned(r)

\* A step that opens no record and takes no owner away.
LEMMA OwnersStay ==
  ASSUME OwnerInv,
         agent' = "up" /\ readable' => agent = "up" /\ readable,
         unclosed \subseteq unclosed',
         \A r \in Requests : Running(r)' /\ readable' => Running(r) \/ Owned(r)',
         \A d \in Calls, r \in Requests : pc[d] \in {"executing", "abandoned"} /\ request[d] = r =>
           \/ pc'[d] \in {"executing", "abandoned"} /\ request'[d] = request[d]
           \/ r \in unclosed' \/ ~Running(r)'
  PROVE  OwnerInv'
  <1> SUFFICES ASSUME agent' = "up", readable', NEW r \in Requests, Running(r)'
               PROVE  Owned(r)'
    BY DEF OwnerInv
  <1>1. CASE Running(r)
    <2>1. Owned(r)
      BY <1>1 DEF OwnerInv
    <2>2. QED
      BY <2>1 DEF Owned
  <1>2. CASE ~Running(r)
    BY <1>2
  <1>3. QED
    BY <1>1, <1>2

LEMMA DamageOpens ==
  ASSUME NEW damage, SaveLeaves(damage)
  PROVE  /\ readable' => readable
         /\ \A r \in Requests : Running(r)' => Running(r)
  BY DEF SaveLeaves, EmptyJournal, Running

LEMMA OwnerStep == TypeOK /\ OwnerInv /\ [Next]_vars => OwnerInv'
  <1> SUFFICES ASSUME TypeOK, OwnerInv, [Next]_vars PROVE OwnerInv'
    OBVIOUS
  <1>1. ASSUME NEW c \in Calls, NEW q \in Requests, NEW m \in Modules,
               BeginOperation(c, q, m)
        PROVE  OwnerInv'
    <2>1. /\ pc[c] = "idle" /\ pc'[c] = "executing" /\ request'[c] = q
          /\ \A d \in Calls \ {c} : pc'[d] = pc[d] /\ request'[d] = request[d]
          /\ \A p \in Requests \ {q} : journal'[p] = journal[p]
          /\ agent = "up" /\ readable /\ unclosed' = unclosed
      BY <1>1 DEF TypeOK, BeginOperation, Receive, SaveSucceeds, Admits
    <2>2. Owned(q)'
      BY <2>1 DEF Owned
    <2>3. QED
      BY <2>1, <2>2, OwnersStay DEF Running
  <1>2. ASSUME NEW c \in Calls, NEW q \in Requests,
               \/ \E m \in Modules : BeginSaveFails(c, q, m) \/ BeginRejected(c, q, m)
               \/ Replay(c, q)
        PROVE  OwnerInv'
    <2>1. /\ pc[c] = "idle" /\ UNCHANGED <<agent, unclosed>>
          /\ \A d \in Calls \ {c} : pc'[d] = pc[d] /\ request'[d] = request[d]
      BY <1>2 DEF TypeOK, BeginSaveFails, BeginRejected, Replay, Receive
    <2>2. /\ readable' => readable
          /\ \A r \in Requests : Running(r)' => Running(r)
      BY <1>2, DamageOpens DEF BeginSaveFails, BeginRejected, Replay, journalVars, Running
    <2>3. QED
      BY <2>1, <2>2, OwnersStay
  <1>3. ASSUME NEW c \in Calls, UpdateStage(c)
        PROVE  OwnerInv'
    <2>1. /\ pc[c] = "executing" /\ request[c] \in Requests
          /\ UNCHANGED <<agent, pc, request, unclosed>>
      BY <1>3 DEF UpdateStage, TypeOK
    <2>2. Owned(request[c])'
      BY <2>1 DEF Owned
    <2>3. /\ readable' => readable
          /\ \A r \in Requests \ {request[c]} : Running(r)' => Running(r)
      <3>1. CASE SaveSucceeds([journal EXCEPT ![request[c]].stage = "apply"])
        BY <2>1, <3>1 DEF SaveSucceeds, Running, TypeOK
      <3>2. CASE \E damage \in SaveFaults : SaveLeaves(damage)
        BY <3>2, DamageOpens
      <3>3. QED
        BY <1>3, <3>1, <3>2 DEF UpdateStage, Save
    <2>4. QED
      BY <2>1, <2>2, <2>3, OwnersStay
  <1>4. ASSUME NEW c \in Calls, NEW o \in {"completed", "failed"}, Finish(c, o)
        PROVE  OwnerInv'
    <2>1. /\ pc[c] = "executing" /\ request[c] \in Requests
          /\ \A d \in Calls \ {c} : pc'[d] = pc[d]
          /\ UNCHANGED <<agent, request>>
      BY <1>4 DEF TypeOK, Finish
    <2>2. /\ readable' => readable
          /\ unclosed \subseteq unclosed'
          /\ \A r \in Requests : Running(r)' => Running(r)
          /\ request[c] \in unclosed' \/ ~Running(request[c])'
      <3>1. CASE /\ Known(request[c])
                 /\ SaveSucceeds([journal EXCEPT ![request[c]] = FinalRecord(request[c], o)])
                 /\ UNCHANGED unclosed
        <4>1. FinalRecord(request[c], o).status = o
          BY <2>1, <3>1, OwnRecordValues
        <4>2. journal'[request[c]] = FinalRecord(request[c], o)
          BY <2>1, <3>1 DEF SaveSucceeds, TypeOK
        <4>3. /\ o # "running"
              /\ journal'[request'[c]].status = o
              /\ journal'[request'[c]] = FinalRecord(request[c], o)
          BY <2>1, <4>1, <4>2
        <4>6. ~Running(request[c])'
          BY <4>3 DEF Running
        <4>4. \A r \in Requests \ {request[c]} : journal'[r] = journal[r]
          BY <2>1, <3>1 DEF SaveSucceeds, TypeOK
        <4>5. QED
          BY <2>1, <3>1, <4>6, <4>4 DEF SaveSucceeds, Running
      <3>2. CASE /\ \E damage \in SaveFaults : SaveLeaves(damage)
                 /\ unclosed' = unclosed \cup {request[c]}
        BY <3>2, DamageOpens
      <3>3. CASE UNCHANGED journalVars /\ unclosed' = unclosed \cup {request[c]}
        BY <3>3 DEF journalVars, Running
      <3>4. QED
        BY <1>4, <3>1, <3>2, <3>3 DEF Finish, journalVars
    <2>3. QED
      BY <2>1, <2>2, OwnersStay
  <1>5. ASSUME NEW c \in Calls, Release(c) \/ Abandon(c)
        PROVE  OwnerInv'
    <2>1. /\ UNCHANGED <<agent, journal, readable, request, unclosed>>
          /\ \A d \in Calls : pc[d] \in {"executing", "abandoned"} =>
                pc'[d] \in {"executing", "abandoned"}
      BY <1>5 DEF TypeOK, Release, Abandon, journalVars
    <2>2. QED
      BY <2>1, OwnersStay DEF Running
  <1>6. CASE Crash \/ CrashInSave \/ BootFails
    BY <1>6 DEF Crash, CrashInSave, ProcessDies, BootFails, OwnerInv
  <1>7. CASE Boot
    <2>1. journal' = Interrupted
      BY <1>7 DEF Boot, SaveSucceeds
    <2>2. \A q \in Requests : Running(q) =>
            [journal[q] EXCEPT !.status = "interrupted"].status = "interrupted"
      BY DEF Running, TypeOK, Record
    <2>3. \A q \in Requests : ~Running(q)'
      BY <2>1, <2>2 DEF Interrupted, Running
    <2>4. QED
      BY <2>3 DEF OwnerInv
  <1>8. CASE UNCHANGED vars
    BY <1>8 DEF vars, journalVars, OwnerInv, Owned, Running
  <1>9. QED
    BY <1>1, <1>2, <1>3, <1>4, <1>5, <1>6, <1>7, <1>8 DEF Next, Handler

\* While the agent runs, an open record belongs to a handler at work, or was left open
\* by UninstallModule or by a final record that did not reach the file:
\* InitializeRuntimeState leaves none of an earlier process open.
THEOREM JournalRunningHasOwner == Spec => []RunningHasOwner
  <1>1. Init => OwnerInv
    BY DEF Init, OwnerInv, Running, EmptyJournal
  <1>2. OwnerInv => RunningHasOwner
    BY DEF OwnerInv, Owned, RunningHasOwner
  <1>3. QED
    BY <1>1, <1>2, OwnerStep, JournalTypeCorrect, PTL DEF Spec

-----------------------------------------------------------------------------
(***************************************************************************)
(* Answers.  A handler that ended left its outcome in the record, unless   *)
(* the save went wrong; after that the record is final until it is lost.   *)
(***************************************************************************)
AnswerInv ==
  \A c \in Calls : pc[c] \in {"releasing", "answered"} =>
    /\ outcome[c] \in Ends
    /\ \/ journal[request[c]] # NoRecord /\ journal[request[c]].status = outcome[c]
       \/ request[c] \in unclosed \cup lost

\* A call that had ended keeps its outcome, on record or known to be missing.
LEMMA AnswerKept ==
  ASSUME TypeOK, AnswerInv, RecordsKept, lost \subseteq lost', unclosed \subseteq unclosed',
         NEW c \in Calls, pc[c] \in {"releasing", "answered"},
         request'[c] = request[c], outcome'[c] = outcome[c]
  PROVE  /\ outcome'[c] \in Ends
         /\ \/ /\ journal'[request'[c]] # NoRecord
               /\ journal'[request'[c]].status = outcome'[c]
            \/ request'[c] \in unclosed' \cup lost'
  <1>1. request[c] \in Requests /\ outcome[c] \in Ends
    BY DEF TypeOK, AnswerInv
  <1>2. CASE request[c] \in unclosed \cup lost
    BY <1>1, <1>2
  <1>3. CASE journal[request[c]] # NoRecord /\ journal[request[c]].status = outcome[c]
    <2>1. ~Running(request[c])
      BY <1>1, <1>3 DEF Running, Ends
    <2>2. request[c] \in lost' \/ journal'[request[c]] = journal[request[c]]
      BY <1>1, <1>3, <2>1 DEF RecordsKept
    <2>3. QED
      BY <1>1, <1>3, <2>2
  <1>4. QED
    BY <1>2, <1>3 DEF AnswerInv

LEMMA HistoriesGrow ==
  ASSUME [Next]_vars
  PROVE  lost \subseteq lost' /\ unclosed \subseteq unclosed'
  <1>1. ASSUME NEW c \in Calls, NEW r \in Requests, NEW m \in Modules,
               \/ BeginOperation(c, r, m) \/ BeginSaveFails(c, r, m)
               \/ BeginRejected(c, r, m) \/ Replay(c, r)
        PROVE  lost \subseteq lost' /\ unclosed' = unclosed
    BY <1>1, DamageForgets
    DEF BeginOperation, BeginSaveFails, BeginRejected, Replay, SaveSucceeds, journalVars
  <1>2. ASSUME NEW c \in Calls, UpdateStage(c)
        PROVE  lost \subseteq lost' /\ unclosed' = unclosed
    BY <1>2, DamageForgets DEF UpdateStage, Save, SaveSucceeds
  <1>3. ASSUME NEW c \in Calls, NEW o \in {"completed", "failed"}, Finish(c, o)
        PROVE  lost \subseteq lost' /\ unclosed \subseteq unclosed'
    BY <1>3, DamageForgets DEF Finish, SaveSucceeds, journalVars
  <1>4. ASSUME NEW c \in Calls, Release(c) \/ Abandon(c)
        PROVE  lost \subseteq lost' /\ unclosed' = unclosed
    BY <1>4 DEF Release, Abandon, journalVars
  <1>5. CASE Crash \/ CrashInSave \/ Boot \/ BootFails \/ UNCHANGED vars
    BY <1>5, DamageForgets
    DEF Crash, CrashInSave, ProcessDies, Boot, BootFails, SaveSucceeds, vars, journalVars
  <1>6. CASE \E c \in Calls, r \in Requests : Replay(c, r)
    BY <1>6 DEF Replay, journalVars
  <1>7. QED
    BY <1>1, <1>2, <1>3, <1>4, <1>5, <1>6 DEF Next, Handler

LEMMA AnswerStep ==
  TypeOK /\ JournalInv /\ AnswerInv /\ [Next]_vars => AnswerInv'
  <1> SUFFICES ASSUME TypeOK, JournalInv, AnswerInv, [Next]_vars PROVE AnswerInv'
    OBVIOUS
  <1>1. RecordsKept /\ lost \subseteq lost' /\ unclosed \subseteq unclosed'
    BY JournalStep, HistoriesGrow
  <1>2. ASSUME \A d \in Calls : pc'[d] \in {"releasing", "answered"} =>
                 /\ pc[d] \in {"releasing", "answered"}
                 /\ request'[d] = request[d] /\ outcome'[d] = outcome[d]
        PROVE  AnswerInv'
    BY <1>1, <1>2, AnswerKept DEF AnswerInv
  <1>3. ASSUME NEW c \in Calls, NEW o \in Ends, Finish(c, o)
        PROVE  AnswerInv'
    <2>1. /\ pc[c] = "executing" /\ request[c] \in Requests /\ request' = request
          /\ outcome'[c] = o
          /\ \A d \in Calls \ {c} : pc'[d] = pc[d] /\ outcome'[d] = outcome[d]
      BY <1>3 DEF TypeOK, Finish
    <2>2. \/ request[c] \in unclosed'
          \/ journal'[request[c]] # NoRecord /\ journal'[request[c]].status = o
      <3>1. CASE /\ Known(request[c])
                 /\ SaveSucceeds([journal EXCEPT ![request[c]] = FinalRecord(request[c], o)])
        <4>1. FinalRecord(request[c], o) # NoRecord /\ FinalRecord(request[c], o).status = o
          BY <2>1, <3>1, OwnRecordValues DEF Ends
        <4>2. journal'[request[c]] = FinalRecord(request[c], o)
          BY <2>1, <3>1 DEF SaveSucceeds, TypeOK
        <4>3. QED
          BY <4>1, <4>2
      <3>2. QED
        BY <1>3, <3>1 DEF Finish
    <2>3. ASSUME NEW d \in Calls \ {c}, pc'[d] \in {"releasing", "answered"}
          PROVE  /\ outcome'[d] \in Ends
                 /\ \/ /\ journal'[request'[d]] # NoRecord
                       /\ journal'[request'[d]].status = outcome'[d]
                    \/ request'[d] \in unclosed' \cup lost'
      BY <1>1, <2>1, <2>3, AnswerKept
    <2>4. QED
      BY <2>1, <2>2, <2>3 DEF AnswerInv
  <1>4. ASSUME NEW c \in Calls, Release(c) \/ Abandon(c) \/ UpdateStage(c)
        PROVE  AnswerInv'
    BY <1>2, <1>4 DEF TypeOK, Release, Abandon, UpdateStage
  <1>5. ASSUME NEW c \in Calls, NEW r \in Requests,
               \/ \E m \in Modules : \/ BeginOperation(c, r, m) \/ BeginSaveFails(c, r, m)
                                     \/ BeginRejected(c, r, m)
               \/ Replay(c, r)
        PROVE  AnswerInv'
    <2>1. /\ pc'[c] \notin {"releasing", "answered"}
          /\ \A d \in Calls \ {c} : /\ pc'[d] = pc[d] /\ request'[d] = request[d]
                                    /\ outcome'[d] = outcome[d]
      BY <1>5 DEF TypeOK, BeginOperation, BeginSaveFails, BeginRejected, Replay, Receive
    <2>2. QED
      BY <1>2, <2>1
  <1>6. CASE Crash \/ CrashInSave \/ Boot \/ BootFails \/ UNCHANGED vars
    BY <1>2, <1>6 DEF Crash, CrashInSave, ProcessDies, Boot, BootFails, vars
  <1>7. QED
    BY <1>3, <1>4, <1>5, <1>6 DEF Next, Handler, Ends

\* An outcome that was answered to a client is what every later retry reads, unless its
\* load or save went wrong in Complete or Fail or an emptied file lost the record.
THEOREM JournalAnswerDurable == Spec => []AnswerDurable
  <1>1. Init => AnswerInv
    BY DEF Init, AnswerInv
  <1>2. AnswerInv => AnswerDurable
    BY DEF AnswerInv, AnswerDurable
  <1>3. QED
    BY <1>1, <1>2, AnswerStep, JournalInvariant, JournalTypeCorrect, PTL DEF Spec

-----------------------------------------------------------------------------
(***************************************************************************)
(* InstallerRPC: the handlers use the journal as OperationJournal models   *)
(* it, so that what is proved of the journal holds of the handlers.        *)
(***************************************************************************)
LEMMA EndUsesJournal ==
  ASSUME NEW c \in Calls, NEW o \in {"completed", "failed"}, End(c, o)
  PROVE  Next
  BY DEF End, Next, Handler

LEMMA RequestUsesJournal ==
  ASSUME NEW c \in Calls, NEW a \in Actions, NEW n \in Names, NEW r \in Requests,
         Start(c, a, n, r) \/ Refuse(c, a, n, r)
  PROVE  Next
  <1>1. KeyOf[n] \in Modules
    BY NamesAssumption
  <1>2. CASE Start(c, a, n, r)
    BY <1>1, <1>2 DEF Start, Next
  <1>3. CASE Refuse(c, a, n, r)
    BY <1>1, <1>3 DEF Refuse, Next
  <1> QED
    BY <1>2, <1>3

LEMMA ProgressUsesJournal ==
  ASSUME NEW c \in Calls, Progress(c)
  PROVE  [Next]_vars
  <1>1. CASE Lookup(c)
    BY <1>1 DEF Lookup
  <1>2. CASE LookupFails(c)
    BY <1>2, EndUsesJournal DEF LookupFails
  <1>3. CASE Work(c)
    BY <1>3 DEF Work, Next
  <1>4. CASE WorkFails(c)
    BY <1>4, EndUsesJournal DEF WorkFails
  <1>5. CASE WorkAbandoned(c)
    BY <1>5 DEF WorkAbandoned, Next, Handler
  <1>6. CASE LoadInventory(c) \/ TruncateInventory(c) \/ WriteInventory(c)
    BY <1>6 DEF LoadInventory, TruncateInventory, WriteInventory
  <1>7. CASE Succeed(c)
    BY <1>7, EndUsesJournal DEF Succeed
  <1>8. CASE Answer(c)
    BY <1>8 DEF Answer, Next, Handler
  <1> QED
    BY <1>1, <1>2, <1>3, <1>4, <1>5, <1>6, <1>7, <1>8 DEF Progress

LEMMA InstallerStepUsesJournal ==
  ASSUME [RpcNext]_rpcVars
  PROVE  [Next]_vars
  <1>1. ASSUME NEW c \in Calls, NEW a \in Actions, NEW n \in Names, NEW r \in Requests,
               Start(c, a, n, r) \/ Refuse(c, a, n, r)
        PROVE  [Next]_vars
    BY <1>1, RequestUsesJournal
  <1>2. ASSUME NEW c \in Calls, Progress(c) PROVE [Next]_vars
    BY <1>2, ProgressUsesJournal
  <1>3. CASE Die
    BY <1>3 DEF Die, Next
  <1>4. CASE Recover
    BY <1>4 DEF Recover, Next
  <1>5. CASE UNCHANGED rpcVars
    BY <1>5 DEF rpcVars, vars
  <1> QED
    BY <1>1, <1>2, <1>3, <1>4, <1>5 DEF RpcNext

\* Every step of an RPC handler is a step of the journal or leaves the journal
\* alone (rpc_service.go reaches operation_journal.go through beginOperation and
\* the handle only).
THEOREM InstallerUsesJournal == RpcSpec => UsesJournal
  <1>1. RpcInit => Init
    BY DEF RpcInit
  <1> QED
    BY <1>1, InstallerStepUsesJournal, PTL DEF RpcSpec, UsesJournal, Spec

\* The handlers run one operation per module at a time, unless an emptied journal
\* file lost the record of one of them.
THEOREM InstallerExclusion == RpcSpec => []ModuleExclusion
  BY InstallerUsesJournal, JournalExclusion DEF UsesJournal

\* What the handlers let clients see of an operation is what ModuleOperations
\* promises, whatever crashes and failing saves and reads of the journal happen.
THEOREM InstallerImplementsModuleOperations == RpcSpec => ImplementsModuleOperations
  BY InstallerUsesJournal, JournalImplementsModuleOperations DEF UsesJournal

-----------------------------------------------------------------------------
(***************************************************************************)
(* Types of the handlers and of the inventory.                             *)
(***************************************************************************)
HandlerTypes ==
  /\ action \in [Calls -> Actions]
  /\ name \in [Calls -> Names]
  /\ step \in [Calls -> {"idle", "lookup", "work", "load", "truncate", "write", "finish"}]
  /\ kept \in [Calls -> Entry \cup {NoEntry}]
  /\ snapshot \in [Calls -> [Names -> Entry \cup {NoEntry}]]

HostTypes ==
  /\ inventory \in [Names -> Entry \cup {NoEntry}]
  /\ file \in {"whole", "empty", "garbled"}
  /\ host \in [Modules -> Calls \cup {"absent", "broken"}]
  /\ stale \subseteq Names

LEMMA KeyType == ASSUME HandlerTypes, NEW c \in Calls PROVE Key(c) \in Modules
  BY NamesAssumption DEF HandlerTypes, Key

LEMMA LoadedType ==
  ASSUME HostTypes
  PROVE  /\ Loaded \in [Names -> Entry \cup {NoEntry}]
         /\ EmptyInventory \in [Names -> Entry \cup {NoEntry}]
  BY DEF HostTypes, Loaded, EmptyInventory

LEMMA NewEntryType ==
  ASSUME HandlerTypes, NEW c \in Calls, NEW capabilities \in CapabilitySets
  PROVE  NewEntry(c, capabilities) \in Entry \cup {NoEntry}
  <1>1. kept[c] # NoEntry => kept[c].capabilities \in CapabilitySets
    BY DEF HandlerTypes, Entry
  <1>2. action[c] \in Actions
    BY DEF HandlerTypes
  <1>3. CASE action[c] = "install"
    BY <1>3 DEF NewEntry, Entry
  <1>4. CASE action[c] = "restart"
    BY <1>1, <1>4, EntryAssumption DEF NewEntry, Entry
  <1>5. CASE action[c] = "uninstall"
    BY <1>5 DEF NewEntry
  <1> QED
    BY <1>2, <1>3, <1>4, <1>5 DEF Actions

LEMMA UnrecordedTypes ==
  ASSUME HandlerTypes, HostTypes, NEW c \in Calls, Unrecorded(c)
  PROVE  /\ step' \in [Calls -> {"idle", "lookup", "work", "load", "truncate", "write", "finish"}]
         /\ stale' \subseteq Names
  BY DEF Unrecorded, GoTo, HandlerTypes, HostTypes

LEMMA EndTypes ==
  ASSUME HandlerTypes, HostTypes, NEW c \in Calls, NEW o, End(c, o)
  PROVE  HandlerTypes'
  BY LoadedType DEF HandlerTypes, End, GoTo

LEMMA ProgressTypes ==
  ASSUME HandlerTypes, HostTypes, NEW c \in Calls, Progress(c)
  PROVE  HandlerTypes' /\ HostTypes'
  <1>1. CASE Lookup(c)
    <2>1. Loaded[name[c]] \in Entry \cup {NoEntry}
      BY LoadedType DEF HandlerTypes
    <2> QED
      BY <1>1, <2>1 DEF Lookup, GoTo, inventoryVars, HandlerTypes, HostTypes
  <1>2. CASE LookupFails(c)
    BY <1>2, EndTypes DEF LookupFails, inventoryVars, HostTypes
  <1>3. CASE Work(c)
    <2>1. Deployed(c) \in Calls \cup {"absent", "broken"}
      <3>1. action[c] \in Actions
        BY DEF HandlerTypes
      <3> QED
        BY <3>1, KeyType DEF Deployed, Actions, HostTypes
    <2> QED
      BY <1>3, <2>1, KeyType DEF Work, GoTo, inventoryVars, HandlerTypes, HostTypes
  <1>4. CASE WorkFails(c)
    <2>1. HandlerTypes'
      BY <1>4, EndTypes DEF WorkFails
    <2> QED
      BY <1>4, <2>1, KeyType DEF WorkFails, inventoryVars, HostTypes
  <1>5. CASE WorkAbandoned(c)
    <2>1. HandlerTypes'
      BY <1>5 DEF WorkAbandoned, GoTo, HandlerTypes
    <2>2. HostTypes'
      BY <1>5, KeyType DEF WorkAbandoned, inventoryVars, HostTypes
    <2> QED
      BY <2>1, <2>2
  <1>6. CASE LoadInventory(c)
    <2>1. HandlerTypes'
      BY <1>6, LoadedType, UnrecordedTypes DEF LoadInventory, GoTo, HandlerTypes
    <2>2. HostTypes'
      BY <1>6, UnrecordedTypes DEF LoadInventory, HostTypes
    <2> QED
      BY <2>1, <2>2
  <1>7. CASE TruncateInventory(c)
    <2>1. HandlerTypes'
      BY <1>7, UnrecordedTypes DEF TruncateInventory, GoTo, HandlerTypes
    <2>2. HostTypes'
      BY <1>7, LoadedType, UnrecordedTypes DEF TruncateInventory, HostTypes
    <2> QED
      BY <2>1, <2>2
  <1>8. CASE WriteInventory(c)
    <2>1. ASSUME NEW capabilities \in CapabilitySets
          PROVE  [snapshot[c] EXCEPT ![name[c]] = NewEntry(c, capabilities)]
                   \in [Names -> Entry \cup {NoEntry}]
      BY NewEntryType DEF HandlerTypes
    <2>2. inventory' \in [Names -> Entry \cup {NoEntry}]
      BY <1>8, <2>1, LoadedType DEF WriteInventory, HostTypes
    <2>3. file' \in {"whole", "empty", "garbled"}
      BY <1>8 DEF WriteInventory, HostTypes
    <2>4. stale' \subseteq Names
      BY <1>8, UnrecordedTypes DEF WriteInventory, HostTypes
    <2>5. HandlerTypes'
      BY <1>8, UnrecordedTypes DEF WriteInventory, GoTo, HandlerTypes
    <2> QED
      BY <1>8, <2>2, <2>3, <2>4, <2>5 DEF WriteInventory, HostTypes
  <1>9. CASE Succeed(c)
    BY <1>9, EndTypes DEF Succeed, inventoryVars, HostTypes
  <1>10. CASE Answer(c)
    BY <1>10 DEF Answer, handlerVars, inventoryVars, HandlerTypes, HostTypes
  <1> QED
    BY <1>1, <1>2, <1>3, <1>4, <1>5, <1>6, <1>7, <1>8, <1>9, <1>10 DEF Progress

LEMMA TypesStep ==
  ASSUME HandlerTypes, HostTypes, [RpcNext]_rpcVars
  PROVE  HandlerTypes' /\ HostTypes'
  <1>1. ASSUME NEW c \in Calls, NEW a \in Actions, NEW n \in Names, NEW r \in Requests,
               Start(c, a, n, r) \/ Refuse(c, a, n, r)
        PROVE  HandlerTypes' /\ HostTypes'
    <2>1. /\ action' = [action EXCEPT ![c] = a] /\ name' = [name EXCEPT ![c] = n]
          /\ UNCHANGED <<kept, snapshot, inventory, file, stale, host>>
      BY <1>1 DEF Start, Refuse, inventoryVars
    <2>2. step' = step \/ step' = [step EXCEPT ![c] = IF a = "install" THEN "work" ELSE "lookup"]
      BY <1>1 DEF Start, Refuse, GoTo
    <2>3. HostTypes'
      BY <2>1 DEF HostTypes
    <2> QED
      BY <2>1, <2>2, <2>3 DEF HandlerTypes
  <1>2. ASSUME NEW c \in Calls, Progress(c) PROVE HandlerTypes' /\ HostTypes'
    BY <1>2, ProgressTypes
  <1>3. CASE Die
    BY <1>3, LoadedType DEF Die, inventoryVars, HandlerTypes, HostTypes
  <1>4. CASE Recover
    BY <1>4 DEF Recover, handlerVars, inventoryVars, HandlerTypes, HostTypes
  <1>5. CASE UNCHANGED rpcVars
    BY <1>5 DEF rpcVars, handlerVars, inventoryVars, HandlerTypes, HostTypes
  <1> QED
    BY <1>1, <1>2, <1>3, <1>4, <1>5 DEF RpcNext

LEMMA RpcTypes == Names # {} => (RpcSpec => [](HandlerTypes /\ HostTypes))
  <1> SUFFICES ASSUME Names # {} PROVE RpcSpec => [](HandlerTypes /\ HostTypes)
    OBVIOUS
  <1>1. RpcInit => HandlerTypes /\ HostTypes
    BY DEF RpcInit, HandlerTypes, HostTypes, Actions, EmptyInventory
  <1>2. HandlerTypes /\ HostTypes /\ [RpcNext]_rpcVars => HandlerTypes' /\ HostTypes'
    BY TypesStep
  <1> QED
    BY <1>1, <1>2, PTL DEF RpcSpec

\* The handlers, the inventory and the host are well typed whatever the journal's
\* saves and crashes do (rpc_service.go, state_store.go).
THEOREM InstallerTypeCorrect ==
  ASSUME Names # {}
  PROVE  RpcSpec => []RpcTypeOK
  <1>1. RpcSpec => []TypeOK
    BY InstallerUsesJournal, JournalTypeCorrect DEF UsesJournal
  <1>2. TypeOK /\ HandlerTypes /\ HostTypes => RpcTypeOK
    BY DEF HandlerTypes, HostTypes, RpcTypeOK
  <1> QED
    BY <1>1, <1>2, RpcTypes, PTL

-----------------------------------------------------------------------------
(***************************************************************************)
(* Versions.  An install brings a version of its own and has written it    *)
(* by the time it can show up in the file; another writer may bring it     *)
(* back from its snapshot, but cannot make it up.                          *)
(***************************************************************************)
Installed(n, v) ==
  /\ action[v] = "install" /\ name[v] = n
  /\ \/ pc[v] = "cut"
     \/ pc[v] = "executing" /\ step[v] = "finish"
     \/ pc[v] \in {"releasing", "answered"} /\ outcome[v] = "completed"

Genuine(n, e) ==
  e # NoEntry /\ e.version # NoVersion =>
    e.version \in Calls /\ Installed(n, e.version)

VersionsInv ==
  /\ \A n \in Names : Genuine(n, inventory[n])
  /\ \A c \in Calls, n \in Names : Genuine(n, snapshot[c][n])

\* An install that was written stays one.
InstalledKept ==
  \A n \in Names, v \in Calls : Installed(n, v) => Installed(n, v)'

LEMMA GenuineKept ==
  ASSUME InstalledKept
  PROVE  \A n \in Names : \A e : Genuine(n, e) => Genuine(n, e)'
  BY DEF InstalledKept, Genuine

\* Writers that make nothing up: every entry comes from the file or a snapshot.
LEMMA VersionsStay ==
  ASSUME VersionsInv, InstalledKept,
         \A n \in Names : inventory'[n] \in {inventory[n], NoEntry},
         \A c \in Calls, n \in Names :
           snapshot'[c][n] \in {snapshot[c][n], inventory[n], NoEntry}
  PROVE  VersionsInv'
  <1>1. \A n \in Names : Genuine(n, inventory[n])'
    BY GenuineKept DEF VersionsInv, Genuine
  <1>2. \A c \in Calls, n \in Names : Genuine(n, snapshot[c][n])'
    BY GenuineKept DEF VersionsInv, Genuine
  <1> QED
    BY <1>1, <1>2 DEF VersionsInv

\* A call that is the only one to move, and has not finished or finishes well.
LEMMA OthersKept ==
  ASSUME NEW c \in Calls,
         \A v \in Calls \ {c} :
           /\ action'[v] = action[v] /\ name'[v] = name[v] /\ step'[v] = step[v]
           /\ pc'[v] = pc[v] /\ outcome'[v] = outcome[v],
         \A n \in Names : Installed(n, c) => Installed(n, c)'
  PROVE  InstalledKept
  BY DEF InstalledKept, Installed

LEMMA RequestKeeps ==
  ASSUME TypeOK, HandlerTypes,
         NEW c \in Calls, NEW a \in Actions, NEW n \in Names, NEW r \in Requests,
         Start(c, a, n, r) \/ Refuse(c, a, n, r)
  PROVE  InstalledKept
  <1>1. pc[c] = "idle" /\ (\A v \in Calls \ {c} : pc'[v] = pc[v])
    BY DEF Start, Refuse, BeginOperation, BeginSaveFails, BeginRejected, Replay,
           Receive, TypeOK
  <1>2. \A v \in Calls \ {c} :
          action'[v] = action[v] /\ name'[v] = name[v] /\ step'[v] = step[v]
    BY DEF Start, Refuse, GoTo, HandlerTypes
  <1>3. \A v \in Calls \ {c} : outcome'[v] = outcome[v]
    BY DEF Start, Refuse, BeginOperation, BeginSaveFails, BeginRejected, Replay, TypeOK
  <1>4. \A m \in Names : ~Installed(m, c)
    BY <1>1 DEF Installed
  <1> QED
    BY <1>1, <1>2, <1>3, <1>4, OthersKept

LEMMA ProgressKeeps ==
  ASSUME TypeOK, HandlerTypes, NEW c \in Calls, Progress(c)
  PROVE  InstalledKept
  <1>1. action' = action /\ name' = name
    BY DEF Progress, Lookup, LookupFails, Work, WorkFails, WorkAbandoned,
           LoadInventory, TruncateInventory, WriteInventory, Succeed, Answer, End,
           handlerVars
  <1>2. \A v \in Calls \ {c} : step'[v] = step[v]
    BY DEF Progress, Lookup, LookupFails, Work, WorkFails, WorkAbandoned,
           LoadInventory, TruncateInventory, WriteInventory, Succeed, Answer, End,
           handlerVars, GoTo, Unrecorded, HandlerTypes
  <1>3. \A v \in Calls \ {c} : pc'[v] = pc[v] /\ outcome'[v] = outcome[v]
    BY DEF Progress, Lookup, LookupFails, Work, WorkFails, WorkAbandoned,
           LoadInventory, TruncateInventory, WriteInventory, Succeed, Answer, End,
           UpdateStage, Finish, Abandon, Release, vars, TypeOK
  <1>4. ASSUME NEW n \in Names, Installed(n, c) PROVE Installed(n, c)'
    <2>1. CASE Succeed(c)
      BY <1>1, <1>4, <2>1 DEF Succeed, End, Finish, At, Installed, TypeOK
    <2>2. CASE Answer(c)
      BY <1>1, <1>4, <2>2 DEF Answer, Release, Installed, TypeOK
    <2>3. CASE ~Succeed(c) /\ ~Answer(c)
      BY <1>4, <2>3 DEF Progress, Lookup, LookupFails, Work, WorkFails, WorkAbandoned,
           LoadInventory, TruncateInventory, WriteInventory, At, Installed
    <2> QED
      BY <2>1, <2>2, <2>3
  <1> QED
    BY <1>1, <1>2, <1>3, <1>4, OthersKept

LEMMA StepKeeps ==
  ASSUME TypeOK, HandlerTypes, [RpcNext]_rpcVars
  PROVE  InstalledKept
  <1>1. CASE Die
    <2>1. action' = action /\ name' = name /\ outcome' = outcome
      BY <1>1 DEF Die, Crash, CrashInSave, ProcessDies
    <2>2. pc' = [c \in Calls |-> IF pc[c] \in Holding THEN "cut" ELSE pc[c]]
      BY <1>1 DEF Die, Crash, CrashInSave, ProcessDies
    <2> QED
      BY <2>1, <2>2 DEF InstalledKept, Installed, Holding, Live
  <1>2. CASE Recover
    BY <1>2 DEF Recover, Boot, BootFails, handlerVars, InstalledKept, Installed
  <1>3. CASE UNCHANGED rpcVars
    BY <1>3 DEF rpcVars, vars, handlerVars, InstalledKept, Installed
  <1> QED
    BY <1>1, <1>2, <1>3, RequestKeeps, ProgressKeeps DEF RpcNext

\* The one entry a writer adds: its own version, and only when it is an install,
\* which is done with this step.
LEMMA NewEntryGenuine ==
  ASSUME HandlerTypes, NEW c \in Calls, NEW capabilities \in CapabilitySets,
         WriteInventory(c)
  PROVE  \A e : e = NewEntry(c, capabilities) => Genuine(name[c], e)'
  <1>1. /\ name'[c] = name[c] /\ action'[c] = action[c]
        /\ pc'[c] = "executing" /\ step'[c] = "finish"
    BY DEF WriteInventory, At, GoTo, Unrecorded, vars, HandlerTypes
  <1>2. CASE action[c] = "install"
    <2>1. NewEntry(c, capabilities) = [version |-> c, capabilities |-> capabilities]
      BY <1>2 DEF NewEntry
    <2>2. Installed(name[c], c)'
      BY <1>1, <1>2 DEF Installed
    <2> QED
      BY <1>1, <1>2, <2>1 DEF Genuine, Installed
  <1>3. CASE action[c] # "install"
    <2>1. action[c] \in Actions
      BY DEF HandlerTypes
    <2>2. NewEntry(c, capabilities) = NoEntry
            \/ NewEntry(c, capabilities).version = NoVersion
      BY <1>3, <2>1 DEF NewEntry, Actions
    <2> QED
      BY <2>2 DEF Genuine
  <1> QED
    BY <1>2, <1>3

LEMMA WriteGenuine ==
  ASSUME HandlerTypes, VersionsInv, InstalledKept, NEW c \in Calls, WriteInventory(c)
  PROVE  VersionsInv'
  <1>1. \A d \in Calls, n \in Names : Genuine(n, snapshot[d][n])'
    BY GenuineKept DEF WriteInventory, VersionsInv, Genuine
  <1>2. ASSUME NEW capabilities \in CapabilitySets,
               inventory' = [snapshot[c] EXCEPT ![name[c]] = NewEntry(c, capabilities)]
        PROVE  \A n \in Names : Genuine(n, inventory[n])'
    <2>1. /\ name[c] \in Names /\ snapshot[c] \in [Names -> Entry \cup {NoEntry}]
      BY DEF HandlerTypes
    <2>2. inventory'[name[c]] = NewEntry(c, capabilities)
      BY <1>2, <2>1
    <2>3. \A n \in Names \ {name[c]} : inventory'[n] = snapshot[c][n]
      BY <1>2, <2>1
    <2>4. name' = name /\ \A e : e = NewEntry(c, capabilities) => Genuine(name[c], e)'
      BY NewEntryGenuine DEF WriteInventory
    <2>5. \A n \in Names \ {name[c]} : Genuine(n, inventory[n])'
      BY <2>3, GenuineKept DEF VersionsInv, Genuine
    <2> QED
      BY <2>2, <2>4, <2>5 DEF Genuine
  <1>3. ASSUME inventory' = EmptyInventory
        PROVE  \A n \in Names : Genuine(n, inventory[n])'
    BY <1>3 DEF EmptyInventory, Genuine
  <1>4. ASSUME inventory' = inventory
        PROVE  \A n \in Names : Genuine(n, inventory[n])'
    BY <1>4, GenuineKept DEF VersionsInv, Genuine
  <1>5. \/ inventory' = inventory \/ inventory' = EmptyInventory
        \/ \E capabilities \in CapabilitySets :
             inventory' = [snapshot[c] EXCEPT ![name[c]] = NewEntry(c, capabilities)]
    BY DEF WriteInventory
  <1> QED
    BY <1>1, <1>2, <1>3, <1>4, <1>5 DEF VersionsInv

LEMMA ProgressGenuine ==
  ASSUME HandlerTypes, HostTypes, VersionsInv, InstalledKept,
         NEW c \in Calls, Progress(c)
  PROVE  VersionsInv'
  <1>1. CASE WriteInventory(c)
    BY <1>1, WriteGenuine
  <1>2. CASE ~WriteInventory(c)
    <2>1. \A n \in Names : inventory'[n] \in {inventory[n], NoEntry}
      BY <1>2 DEF Progress, Lookup, LookupFails, Work, WorkFails, WorkAbandoned,
           LoadInventory, TruncateInventory, Succeed, Answer, inventoryVars,
           EmptyInventory
    <2>2. \A d \in Calls, n \in Names :
            snapshot'[d][n] \in {snapshot[d][n], inventory[n], NoEntry}
      BY <1>2 DEF Progress, Lookup, LookupFails, Work, WorkFails, WorkAbandoned,
           LoadInventory, TruncateInventory, Succeed, Answer, End, handlerVars,
           Loaded, EmptyInventory, HandlerTypes
    <2> QED
      BY <2>1, <2>2, VersionsStay
  <1> QED
    BY <1>1, <1>2

LEMMA VersionsStep ==
  ASSUME TypeOK, HandlerTypes, HostTypes, VersionsInv, [RpcNext]_rpcVars
  PROVE  VersionsInv'
  <1>1. InstalledKept
    BY StepKeeps
  <1>2. ASSUME NEW c \in Calls, Progress(c) PROVE VersionsInv'
    BY <1>1, <1>2, ProgressGenuine
  <1>3. ASSUME \A c \in Calls : ~Progress(c) PROVE VersionsInv'
    <2>1. inventory' = inventory
      BY <1>3 DEF RpcNext, Start, Refuse, Die, Recover, inventoryVars, rpcVars
    <2>2. \A d \in Calls, n \in Names : snapshot'[d][n] \in {snapshot[d][n], NoEntry}
      BY <1>3 DEF RpcNext, Start, Refuse, Die, Recover, handlerVars, rpcVars,
           EmptyInventory
    <2> QED
      BY <1>1, <2>1, <2>2, VersionsStay
  <1> QED
    BY <1>2, <1>3

\* A version in the inventory was deployed under that very name by an install that
\* got that far, however writers of other modules overwrite each other's snapshots
\* and whatever a crash cuts (upsertInstalledModule, removeInstalledModule).
THEOREM InstallerRecordedWasInstalled ==
  ASSUME Names # {}
  PROVE  RpcSpec => []RecordedWasInstalled
  <1>1. RpcSpec => []TypeOK
    BY InstallerUsesJournal, JournalTypeCorrect DEF UsesJournal
  <1>2. RpcInit => VersionsInv
    BY DEF RpcInit, VersionsInv, Genuine, EmptyInventory
  <1>3. TypeOK /\ HandlerTypes /\ HostTypes /\ VersionsInv /\ [RpcNext]_rpcVars
          => VersionsInv'
    BY VersionsStep
  <1>4. VersionsInv => RecordedWasInstalled
    BY DEF VersionsInv, Genuine, Installed, RecordedWasInstalled
  <1> QED
    BY <1>1, <1>2, <1>3, <1>4, RpcTypes, PTL DEF RpcSpec
-----------------------------------------------------------------------------
(***************************************************************************)
(* The deployed version.  While the operations that ran are all for one    *)
(* name, the module lock lets one of them work at a time, so that nobody   *)
(* else writes the inventory between its load and its write.  From the     *)
(* work on the host to that write the inventory may disagree with the      *)
(* host, and the handler that is at it is going to record what it did, or  *)
(* to note that it could not.                                              *)
(***************************************************************************)
Quiet == OneNameUsed /\ lost = {} /\ \A c \in Calls : pc[c] # "cut"

OneAtWork ==
  \A c, d \in Calls : pc[c] = "executing" /\ pc[d] = "executing" => c = d

\* The handle is one for the module the call names.
HandleNamesModule == \A c \in Calls : Holds(c) => module[c] = Key(c)

\* The host has changed and the inventory is about to.
Recording(c) == pc[c] = "executing" /\ step[c] \in {"load", "truncate", "write"}

MatchesHost ==
  \A n \in Names \ stale : inventory[n] # NoEntry /\ inventory[n].version # NoVersion =>
    host[KeyOf[n]] \in {inventory[n].version, "broken"}

DeployInv ==
  /\ \A c \in Calls : Recording(c) /\ action[c] = "install" => host[Key(c)] = c
  /\ (\A c \in Calls : ~Recording(c)) => MatchesHost

LEMMA HandleStep ==
  ASSUME TypeOK, HandlerTypes, OnRecord, HandleNamesModule, [RpcNext]_rpcVars
  PROVE  HandleNamesModule'
  <1>0. lost \subseteq lost'
    BY InstallerStepUsesJournal, HistoriesGrow
  <1>1. ASSUME NEW c \in Calls, NEW a \in Actions, NEW n \in Names, NEW r \in Requests,
               Start(c, a, n, r) \/ Refuse(c, a, n, r)
        PROVE  HandleNamesModule'
    <2>1. CASE Start(c, a, n, r)
      <3>1. /\ module'[c] = KeyOf[n] /\ name'[c] = n
            /\ \A d \in Calls \ {c} :
                 /\ module'[d] = module[d] /\ name'[d] = name[d]
                 /\ pc'[d] = pc[d] /\ request'[d] = request[d]
        BY <1>1, <2>1 DEF Start, BeginOperation, Receive, TypeOK, HandlerTypes
      <3> QED
        BY <1>0, <3>1 DEF HandleNamesModule, Holds, Key
    <2>2. CASE Refuse(c, a, n, r)
      <3>1. /\ pc'[c] \in {"rejected", "replayed"} /\ module' = module
            /\ \A d \in Calls \ {c} :
                 name'[d] = name[d] /\ pc'[d] = pc[d] /\ request'[d] = request[d]
        BY <1>1, <2>2 DEF Refuse, BeginSaveFails, BeginRejected, Replay, Receive, TypeOK,
             HandlerTypes
      <3> QED
        BY <1>0, <3>1 DEF HandleNamesModule, Holds, Key, Holding, Live
    <2> QED
      BY <1>1, <2>1, <2>2
  <1>2. ASSUME NEW c \in Calls, Progress(c) PROVE HandleNamesModule'
    <2>1. name' = name
      BY <1>2 DEF Progress, Lookup, LookupFails, Work, WorkFails, WorkAbandoned,
           LoadInventory, TruncateInventory, WriteInventory, Succeed, Answer, End,
           handlerVars
    <2>2. \A d \in Calls : pc'[d] \in Holding => pc[d] \in Holding
      BY <1>2 DEF Progress, Lookup, LookupFails, Work, WorkFails, WorkAbandoned,
           LoadInventory, TruncateInventory, WriteInventory, Succeed, Answer, End,
           UpdateStage, Finish, Abandon, Release, At, vars, TypeOK, Holding, Live
    <2>3. \A d \in Calls : Holds(d) => module'[d] = module[d]
      <3>1. CASE UNCHANGED module
        BY <3>1
      <3>2. CASE ~UNCHANGED module
        <4>1. pc[c] = "executing" /\ module' = [module EXCEPT ![c] = journal[request[c]].module]
          BY <1>2, <3>2 DEF Progress, Lookup, LookupFails, Work, WorkFails, WorkAbandoned,
               LoadInventory, TruncateInventory, WriteInventory, Succeed, Answer, End,
               UpdateStage, Finish, Abandon, Release, vars
        <4>2. Holds(c) => journal[request[c]].module = module[c]
          BY DEF OnRecord
        <4> QED
          BY <4>1, <4>2 DEF TypeOK
      <3> QED
        BY <3>1, <3>2
    <2>4. request' = request
      BY <1>2 DEF Progress, Lookup, LookupFails, Work, WorkFails, WorkAbandoned,
           LoadInventory, TruncateInventory, WriteInventory, Succeed, Answer, End,
           UpdateStage, Finish, Abandon, Release, vars
    <2> QED
      BY <1>0, <2>1, <2>2, <2>3, <2>4 DEF HandleNamesModule, Holds, Key
  <1>3. CASE Die
    BY <1>3 DEF Die, Crash, CrashInSave, ProcessDies, HandleNamesModule, Holds, Holding, Live
  <1>4. CASE Recover
    BY <1>0, <1>4
    DEF Recover, Boot, BootFails, handlerVars, HandleNamesModule, Holds, Key
  <1>5. CASE UNCHANGED rpcVars
    BY <1>5 DEF rpcVars, vars, journalVars, handlerVars, HandleNamesModule, Holds, Key
  <1> QED
    BY <1>1, <1>2, <1>3, <1>4, <1>5 DEF RpcNext

LEMMA QuietExcludes ==
  ModuleExclusion /\ HandleNamesModule /\ Quiet => OneAtWork
  BY DEF ModuleExclusion, HandleNamesModule, Holds, Quiet, OneNameUsed, OneAtWork, Key,
         Live, Holding, Ran

\* A call that ran keeps its name and never counts as not having run.
LEMMA RanStays ==
  ASSUME TypeOK, HandlerTypes, [RpcNext]_rpcVars
  PROVE  \A c \in Calls :
           /\ pc[c] \in Ran => pc'[c] \in Ran /\ name'[c] = name[c]
           /\ pc[c] = "cut" => pc'[c] = "cut"
  <1>1. ASSUME NEW c \in Calls, NEW a \in Actions, NEW n \in Names, NEW r \in Requests,
               Start(c, a, n, r) \/ Refuse(c, a, n, r)
        PROVE  \A d \in Calls \ {c} : pc'[d] = pc[d] /\ name'[d] = name[d]
    BY <1>1 DEF Start, Refuse, BeginOperation, BeginSaveFails, BeginRejected, Replay,
         Receive, TypeOK, HandlerTypes
  <1>2. ASSUME NEW c \in Calls, NEW a \in Actions, NEW n \in Names, NEW r \in Requests,
               Start(c, a, n, r) \/ Refuse(c, a, n, r)
        PROVE  pc[c] = "idle"
    BY <1>2 DEF Start, Refuse, BeginOperation, BeginSaveFails, BeginRejected, Replay,
         Receive
  <1>3. ASSUME NEW c \in Calls, Progress(c)
        PROVE  /\ name' = name
               /\ \A d \in Calls :
                    \/ pc'[d] = pc[d]
                    \/ pc[d] \in Holding /\ pc'[d] \in Holding \cup {"answered"}
    <2>1. name' = name
      BY <1>3 DEF Progress, Lookup, LookupFails, Work, WorkFails, WorkAbandoned,
           LoadInventory, TruncateInventory, WriteInventory, Succeed, Answer, End,
           handlerVars
    <2>2. \/ pc' = pc
          \/ pc[c] \in Holding /\ \E phase \in Holding \cup {"answered"} :
               pc' = [pc EXCEPT ![c] = phase]
      BY <1>3 DEF Progress, Lookup, LookupFails, Work, WorkFails, WorkAbandoned,
           LoadInventory, TruncateInventory, WriteInventory, Succeed, Answer, End,
           UpdateStage, Finish, Abandon, Release, At, vars, Holding, Live
    <2>3. \A d \in Calls :
            \/ pc'[d] = pc[d]
            \/ pc[d] \in Holding /\ pc'[d] \in Holding \cup {"answered"}
      BY <2>2 DEF TypeOK
    <2> QED
      BY <2>1, <2>3
  <1>4. CASE Die
    BY <1>4 DEF Die, Crash, CrashInSave, ProcessDies, Live, Holding, Ran
  <1>5. CASE Recover
    BY <1>5 DEF Recover, Boot, BootFails, handlerVars
  <1>6. CASE UNCHANGED rpcVars
    BY <1>6 DEF rpcVars, vars, handlerVars
  <1>7. ASSUME NEW c \in Calls, NEW a \in Actions, NEW n \in Names, NEW r \in Requests,
               Start(c, a, n, r) \/ Refuse(c, a, n, r), NEW d \in Calls
        PROVE  /\ pc[d] \in Ran => pc'[d] \in Ran /\ name'[d] = name[d]
               /\ pc[d] = "cut" => pc'[d] = "cut"
    <2>1. d # c => pc'[d] = pc[d] /\ name'[d] = name[d]
      BY <1>1, <1>7
    <2>2. d = c => pc[d] = "idle"
      BY <1>2, <1>7
    <2> QED
      BY <2>1, <2>2 DEF Live, Holding, Ran
  <1>8. ASSUME NEW c \in Calls, Progress(c), NEW d \in Calls
        PROVE  /\ pc[d] \in Ran => pc'[d] \in Ran /\ name'[d] = name[d]
               /\ pc[d] = "cut" => pc'[d] = "cut"
    BY <1>3, <1>8 DEF Live, Holding, Ran
  <1> QED
    BY <1>4, <1>5, <1>6, <1>7, <1>8 DEF RpcNext

LEMMA QuietBefore ==
  ASSUME TypeOK, HandlerTypes, [RpcNext]_rpcVars, Quiet'
  PROVE  Quiet
  <1>1. \A c, d \in Calls : pc[c] \in Ran /\ pc[d] \in Ran => name[c] = name[d]
    BY RanStays DEF Quiet, OneNameUsed
  <1>2. \A c \in Calls : pc[c] # "cut"
    BY RanStays DEF Quiet
  <1>3. lost = {}
    BY InstallerStepUsesJournal, HistoriesGrow DEF Quiet
  <1> QED
    BY <1>1, <1>2, <1>3 DEF Quiet, OneNameUsed

\* A step that records nothing, of a call that is not recording.
LEMMA DeployUntouched ==
  ASSUME DeployInv, UNCHANGED <<inventory, stale, host>>,
         \A c \in Calls : Recording(c) <=> Recording(c)',
         \A c \in Calls : Recording(c) =>
           step'[c] = step[c] /\ action'[c] = action[c] /\ name'[c] = name[c]
  PROVE  DeployInv'
  <1>1. MatchesHost => MatchesHost'
    BY DEF MatchesHost
  <1> QED
    BY <1>1 DEF DeployInv, Recording, Key

\* The work on the host fails: nothing is recorded, and what is left is broken.
LEMMA DeployBroken ==
  ASSUME HandlerTypes, HostTypes, DeployInv, OneAtWork, NEW c \in Calls, At(c, "work"),
         UNCHANGED <<inventory, stale, action, name>>,
         host' = host \/ host' = [host EXCEPT ![Key(c)] = "broken"],
         \A d \in Calls : pc'[d] = "executing" => pc[d] = "executing" /\ d # c
  PROVE  DeployInv'
  <1>1. \A d \in Calls : ~Recording(d)
    BY DEF OneAtWork, At, Recording
  <1>2. \A d \in Calls : pc'[d] # "executing"
    BY DEF OneAtWork, At
  <1>3. \A m \in Modules : host'[m] \in {host[m], "broken"}
    BY KeyType DEF HostTypes
  <1>4. MatchesHost'
    BY <1>1, <1>3, NamesAssumption DEF DeployInv, MatchesHost
  <1> QED
    BY <1>1, <1>2, <1>4 DEF DeployInv, At, Recording

\* What the inventory names was deployed under the one name in use.
LEMMA OneNameRecorded ==
  ASSUME VersionsInv', OneNameUsed', NEW c \in Calls, pc'[c] = "executing",
         NEW n \in Names, inventory'[n] # NoEntry, inventory'[n].version # NoVersion
  PROVE  n = name'[c]
  <1>1. inventory'[n].version \in Calls /\ Installed(n, inventory[n].version)'
    BY DEF VersionsInv, Genuine
  <1>2. /\ pc'[inventory'[n].version] \in Ran /\ name'[inventory'[n].version] = n
        /\ pc'[c] \in Ran
    BY <1>1 DEF Installed, Ran, Holding, Live
  <1> QED
    BY <1>1, <1>2 DEF OneNameUsed

\* The result could not be recorded, which is noted.
LEMMA DeployUnrecorded ==
  ASSUME HandlerTypes, OneAtWork', VersionsInv', OneNameUsed', NEW c \in Calls,
         pc'[c] = "executing", name' = name, Unrecorded(c)
  PROVE  DeployInv'
  <1>1. \A d \in Calls : ~Recording(d)'
    <2>1. step'[c] = "finish"
      BY DEF Unrecorded, GoTo, HandlerTypes
    <2> QED
      BY <2>1 DEF OneAtWork, Recording
  <1>2. name[c] \in stale'
    BY DEF Unrecorded
  <1>3. MatchesHost'
    BY <1>2, OneNameRecorded DEF MatchesHost
  <1> QED
    BY <1>1, <1>3 DEF DeployInv

LEMMA DeployRecords ==
  ASSUME TypeOK, HandlerTypes, HostTypes, DeployInv, OneAtWork, OneAtWork',
         NEW c \in Calls, WriteInventory(c),
         VersionsInv', OneNameUsed'
  PROVE  DeployInv'
  <1>1. At(c, "write") /\ UNCHANGED <<host, pc, name, action>>
    BY DEF WriteInventory, vars
  <1>2. CASE Unrecorded(c)
    BY <1>1, <1>2, DeployUnrecorded DEF At
  <1>3. CASE GoTo(c, "finish")
    <2>1. \A d \in Calls : ~Recording(d)'
      <3>1. pc'[c] = "executing" /\ step'[c] = "finish"
        BY <1>1, <1>3 DEF At, GoTo, HandlerTypes
      <3> QED
        BY <3>1 DEF OneAtWork, Recording
    <2>2. CASE inventory' = EmptyInventory
      BY <2>1, <2>2 DEF DeployInv, MatchesHost, EmptyInventory
    <2>3. ASSUME NEW capabilities \in CapabilitySets,
                 inventory' = [snapshot[c] EXCEPT ![name[c]] = NewEntry(c, capabilities)]
          PROVE  DeployInv'
      <3>1. ASSUME NEW n \in Names, inventory'[n] # NoEntry,
                   inventory'[n].version # NoVersion
            PROVE  host'[KeyOf[n]] = inventory'[n].version
        <4>1. n = name[c]
          BY <1>1, <3>1, OneNameRecorded DEF At
        <4>2. inventory'[n] = NewEntry(c, capabilities)
          BY <2>3, <4>1 DEF HandlerTypes
        <4>3. action[c] = "install" /\ inventory'[n].version = c
          <5>1. action[c] \in Actions
            BY DEF HandlerTypes
          <5> QED
            BY <3>1, <4>2, <5>1 DEF NewEntry, Actions
        <4>4. host[Key(c)] = c
          BY <1>1, <4>3 DEF DeployInv, Recording, At
        <4> QED
          BY <1>1, <4>1, <4>3, <4>4 DEF Key
      <3> QED
        BY <2>1, <3>1 DEF DeployInv, MatchesHost
    <2> QED
      BY <1>2, <2>2, <2>3 DEF WriteInventory
  <1> QED
    BY <1>2, <1>3 DEF WriteInventory

\* A handler that is recording goes on with it.
LEMMA DeployMoves ==
  ASSUME DeployInv, NEW c \in Calls, Recording(c),
         UNCHANGED <<pc, action, name, host>>,
         step'[c] \in {"truncate", "write"}, \A d \in Calls \ {c} : step'[d] = step[d]
  PROVE  DeployInv'
  <1>1. \A d \in Calls : Recording(d)' <=> Recording(d)
    BY DEF Recording
  <1> QED
    BY <1>1 DEF DeployInv, Key

LEMMA DeployProgress ==
  ASSUME TypeOK, HandlerTypes, HostTypes, DeployInv, OneAtWork, OneAtWork',
         NEW c \in Calls, Progress(c),
         VersionsInv', OneNameUsed'
  PROVE  DeployInv'
  <1>1. CASE Lookup(c) \/ LookupFails(c) \/ Succeed(c)
    <2>1. ~Recording(c) /\ ~Recording(c)'
      BY <1>1 DEF Lookup, LookupFails, Succeed, End, At, GoTo, Recording, HandlerTypes
    <2>2. UNCHANGED <<stale, inventory, host, action, name>>
      BY <1>1 DEF Lookup, LookupFails, Succeed, End, inventoryVars
    <2>3. \A d \in Calls \ {c} : pc'[d] = pc[d] /\ step'[d] = step[d]
      BY <1>1 DEF Lookup, LookupFails, Succeed, End, Finish, GoTo, vars, TypeOK, HandlerTypes
    <2> QED
      BY <2>1, <2>2, <2>3, DeployUntouched DEF Recording
  <1>2. CASE Work(c)
    <2>1. UNCHANGED <<pc, action, name, stale, inventory>>
      BY <1>2 DEF Work, UpdateStage, vars, inventoryVars
    <2>2. At(c, "work") /\ pc'[c] = "executing" /\ step'[c] = "load"
      BY <1>2, <2>1 DEF Work, At, GoTo, HandlerTypes
    <2>3. \A d \in Calls : d # c => pc[d] # "executing" /\ pc'[d] # "executing"
      BY <2>1, <2>2 DEF OneAtWork, At
    <2>4. action[c] = "install" => host'[Key(c)] = c
      BY <1>2, KeyType DEF Work, Deployed, HostTypes
    <2> QED
      BY <2>1, <2>2, <2>3, <2>4 DEF DeployInv, Recording, At, Key
  <1>3. CASE WorkFails(c) \/ WorkAbandoned(c)
    <2>1. At(c, "work") /\ UNCHANGED <<stale, inventory, action, name>>
      BY <1>3 DEF WorkFails, WorkAbandoned, End, inventoryVars
    <2>2. host' = host \/ host' = [host EXCEPT ![Key(c)] = "broken"]
      BY <1>3 DEF WorkFails, WorkAbandoned
    <2>3. \A d \in Calls : pc'[d] = "executing" => pc[d] = "executing" /\ d # c
      BY <1>3 DEF WorkFails, WorkAbandoned, End, Finish, Abandon, TypeOK
    <2> QED
      BY <2>1, <2>2, <2>3, DeployBroken
  <1>4. CASE LoadInventory(c)
    <2>1. At(c, "load") /\ UNCHANGED <<pc, action, name, inventory, host>>
      BY <1>4 DEF LoadInventory, vars
    <2>2. CASE Unrecorded(c)
      BY <2>1, <2>2, DeployUnrecorded DEF At
    <2>3. CASE GoTo(c, "truncate") /\ UNCHANGED stale
      <3>1. step'[c] = "truncate" /\ \A d \in Calls \ {c} : step'[d] = step[d]
        BY <2>3 DEF GoTo, HandlerTypes
      <3> QED
        BY <2>1, <3>1, DeployMoves DEF At, Recording
    <2> QED
      BY <1>4, <2>2, <2>3 DEF LoadInventory
  <1>5. CASE TruncateInventory(c)
    <2>1. At(c, "truncate") /\ UNCHANGED <<pc, action, name, host>>
      BY <1>5 DEF TruncateInventory, vars
    <2>2. CASE Unrecorded(c)
      BY <2>1, <2>2, DeployUnrecorded DEF At
    <2>3. CASE GoTo(c, "write") /\ UNCHANGED stale
      <3>1. step'[c] = "write" /\ \A d \in Calls \ {c} : step'[d] = step[d]
        BY <2>3 DEF GoTo, HandlerTypes
      <3> QED
        BY <2>1, <3>1, DeployMoves DEF At, Recording
    <2> QED
      BY <1>5, <2>2, <2>3 DEF TruncateInventory
  <1>6. CASE WriteInventory(c)
    BY <1>6, DeployRecords
  <1>7. CASE Answer(c)
    <2>1. UNCHANGED <<stale, inventory, host, action, name, step>>
      BY <1>7 DEF Answer, handlerVars, inventoryVars
    <2>2. \A d \in Calls : pc'[d] = "executing" <=> pc[d] = "executing"
      BY <1>7 DEF Answer, Release, TypeOK
    <2> QED
      BY <2>1, <2>2, DeployUntouched DEF Recording
  <1> QED
    BY <1>1, <1>2, <1>3, <1>4, <1>5, <1>6, <1>7 DEF Progress

LEMMA DeployStep ==
  ASSUME TypeOK, HandlerTypes, HostTypes, Quiet => DeployInv, OneAtWork, OneAtWork',
         VersionsInv', [RpcNext]_rpcVars, Quiet'
  PROVE  DeployInv'
  <1>1. Quiet /\ DeployInv
    BY QuietBefore
  <1>2. ASSUME NEW c \in Calls, NEW a \in Actions, NEW n \in Names, NEW r \in Requests,
               Start(c, a, n, r) \/ Refuse(c, a, n, r)
        PROVE  DeployInv'
    <2>1. pc[c] = "idle" /\ (\A d \in Calls \ {c} : pc'[d] = pc[d])
      BY <1>2 DEF Start, Refuse, BeginOperation, BeginSaveFails, BeginRejected, Replay,
           Receive, TypeOK
    <2>2. \A d \in Calls \ {c} :
            action'[d] = action[d] /\ name'[d] = name[d] /\ step'[d] = step[d]
      BY <1>2 DEF Start, Refuse, GoTo, HandlerTypes
    <2>3. UNCHANGED <<stale, inventory, host>>
      BY <1>2 DEF Start, Refuse, inventoryVars
    <2>4. ~Recording(c)'
      <3>1. CASE Start(c, a, n, r)
        BY <1>2, <3>1 DEF Start, GoTo, Recording, HandlerTypes
      <3>2. CASE Refuse(c, a, n, r)
        <4>1. pc'[c] \in {"rejected", "replayed"}
          BY <3>2 DEF Refuse, BeginSaveFails, BeginRejected, Replay, Receive, TypeOK
        <4> QED
          BY <4>1 DEF Recording
      <3> QED
        BY <1>2, <3>1, <3>2
    <2> QED
      BY <1>1, <2>1, <2>2, <2>3, <2>4, DeployUntouched DEF Recording
  <1>3. ASSUME NEW c \in Calls, Progress(c) PROVE DeployInv'
    BY <1>1, <1>3, DeployProgress DEF Quiet
  <1>4. CASE Die
    <2>1. \A d \in Calls : pc[d] \notin Holding
      BY <1>4 DEF Die, Crash, CrashInSave, ProcessDies, Quiet
    <2>2. \A d \in Calls : pc'[d] = pc[d]
      BY <1>4, <2>1 DEF Die, Crash, CrashInSave, ProcessDies
    <2>3. UNCHANGED <<stale, inventory, host>>
      BY <1>4 DEF Die, inventoryVars
    <2> QED
      BY <1>1, <2>1, <2>2, <2>3, DeployUntouched DEF Recording, Holding, Live
  <1>5. CASE Recover
    BY <1>1, <1>5, DeployUntouched
    DEF Recover, Boot, BootFails, handlerVars, inventoryVars, Recording
  <1>6. CASE UNCHANGED rpcVars
    BY <1>1, <1>6, DeployUntouched
    DEF rpcVars, vars, handlerVars, inventoryVars, Recording
  <1> QED
    BY <1>2, <1>3, <1>4, <1>5, <1>6 DEF RpcNext

\* Clients that keep to one name find the deployed version in the inventory, unless
\* an operation left the host broken or the last one could not record its result, for
\* any number of operations one after the other and side by side: the load, the
\* truncation and the write of upsertInstalledModule and removeInstalledModule are then
\* one step for them, also when any of the three fails.
THEOREM InstallerRecordedIsDeployed ==
  ASSUME Names # {}
  PROVE  RpcSpec => []RecordedIsDeployed
  <1>1. RpcSpec => [](TypeOK /\ JournalInv /\ ModuleExclusion)
    BY InstallerUsesJournal, JournalTypeCorrect, JournalInvariant, JournalExclusion, PTL
    DEF UsesJournal
  <1>2. RpcInit => VersionsInv
    BY DEF RpcInit, VersionsInv, Genuine, EmptyInventory
  <1>3. TypeOK /\ HandlerTypes /\ HostTypes /\ VersionsInv /\ [RpcNext]_rpcVars
          => VersionsInv'
    BY VersionsStep
  <1>4. RpcInit => HandleNamesModule
    BY DEF RpcInit, Init, HandleNamesModule, Holds, Holding, Live
  <1>5. TypeOK /\ HandlerTypes /\ JournalInv /\ HandleNamesModule /\ [RpcNext]_rpcVars
          => HandleNamesModule'
    BY HandleStep DEF JournalInv
  <1>6. RpcInit => (Quiet => DeployInv)
    BY DEF RpcInit, Init, DeployInv, At, Recording, MatchesHost, EmptyInventory
  <1>7. ModuleExclusion /\ HandleNamesModule => (Quiet => OneAtWork)
    BY QuietExcludes
  <1>8. TypeOK /\ HandlerTypes /\ HostTypes /\ (Quiet => DeployInv)
          /\ (Quiet => OneAtWork) /\ (Quiet => OneAtWork)' /\ VersionsInv'
          /\ [RpcNext]_rpcVars
          => (Quiet => DeployInv)'
    <2> SUFFICES ASSUME TypeOK, HandlerTypes, HostTypes, Quiet => DeployInv,
                        Quiet => OneAtWork, (Quiet => OneAtWork)', VersionsInv',
                        [RpcNext]_rpcVars, Quiet'
                 PROVE  DeployInv'
      OBVIOUS
    <2>1. Quiet
      BY QuietBefore
    <2>2. OneAtWork /\ OneAtWork'
      BY <2>1
    <2> QED
      BY <2>2, DeployStep
  <1>9. (Quiet => DeployInv) => RecordedIsDeployed
    BY DEF DeployInv, Quiet, RecordedIsDeployed, MatchesHost, Recording, At
  <1> QED
    BY <1>1, <1>2, <1>3, <1>4, <1>5, <1>6, <1>7, <1>8, <1>9, RpcTypes, PTL DEF RpcSpec
=============================================================================
