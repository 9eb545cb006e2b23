--------------------------- MODULE OperationJournal ---------------------------
(***************************************************************************)
(* The operation journal of the module installer                           *)
(* (src/internal/agent/install/operation_journal.go) together with the way *)
(* the RPC handlers of rpc_service.go drive it.                            *)
(*                                                                         *)
(* A call is one install, restart or uninstall RPC.  It names a request id *)
(* and a module, asks beginOperation for a handle, works under the handle, *)
(* reports stages with UpdateStage and ends with Complete or Fail.  Two    *)
(* stores decide who may work: the journal, a JSON file that survives the  *)
(* process, and moduleLocks, a map in memory that does not.  The file is   *)
(* rewritten in place by os.WriteFile, so a save can fail and leave the    *)
(* file as it was ("denied"), empty ("blank": decoded as an empty journal) *)
(* or cut short ("partial": it no longer decodes).                         *)
(*                                                                         *)
(* Request ids are unique in the file because beginOperation refuses a     *)
(* known one, so the list of records is a function of the request id.      *)
(*                                                                         *)
(* Two history variables, which no guard reads, name what the code does    *)
(* not notice: the records an emptied file lost, and the final records     *)
(* that did not reach the file because Complete and Fail ignore the error. *)
(***************************************************************************)
EXTENDS Naturals, FiniteSets

CONSTANTS
  Calls,        \* RPC invocations; each is received at most once
  Requests,     \* request ids, already trimmed and not empty
  Modules,      \* module names after normalizeModuleName
  NoRequest,    \* the holder of a free module lock
  NoModule,     \* the module of a call that has no handle
  NoRecord,     \* the entry of a request id the journal does not hold
  SaveFaults,   \* how a save that returns an error may leave the file
  CrashTears,   \* how a save cut by the death of the process may leave it
  ReadFaults    \* TRUE when reading the file may fail

ASSUME SentinelsAssumption ==
  /\ NoRequest \notin Requests
  /\ NoModule \notin Modules

ASSUME FaultsAssumption ==
  /\ SaveFaults \subseteq {"denied", "blank", "partial"}
  /\ CrashTears \subseteq {"blank", "partial"}
  /\ ReadFaults \in BOOLEAN

VARIABLES
  agent,        \* "up" or "down": the process
  journal,      \* the records of installed_operations.json when it last decoded
  readable,     \* FALSE once the file no longer decodes: nothing reads it then
  moduleLocks,  \* the holder of every module lock
  pc,           \* where each call is
  request,      \* the request id the call carries
  module,       \* handle.record.Module of a call that holds a handle
  outcome,      \* what the call is about to answer, or answered
  lost,         \* history: the requests whose record an emptied file lost
  unclosed      \* history: those whose final record did not reach the file

journalVars == <<journal, readable, lost>>
vars == <<agent, journalVars, moduleLocks, pc, request, module, outcome, unclosed>>

Statuses == {"running", "completed", "failed", "interrupted"}
Stages == {"validate", "apply", "completed"}

\* operationRecord: the fields the control flow reads.
Record == [module : Modules, status : Statuses, stage : Stages]
ASSUME RecordAssumption == NoRecord \notin Record

\* The handler has not returned.
Live == {"executing", "releasing"}
\* The handle has not given its module lock back: the handler is at it, or has
\* returned without Fail and will never do it.
Holding == Live \cup {"abandoned"}
\* The handler was admitted, so the work of the operation was begun.
Ran == Holding \cup {"answered", "cut"}
Phases == Ran \cup {"idle", "rejected", "replayed"}
Outcomes == {"none", "completed", "failed", "interrupted"}

EmptyJournal == [r \in Requests |-> NoRecord]
Known(r) == readable /\ journal[r] # NoRecord
Running(r) == journal[r] # NoRecord /\ journal[r].status = "running"

-----------------------------------------------------------------------------
Init ==
  /\ agent = "up"
  /\ journal = EmptyJournal
  /\ readable = TRUE
  /\ moduleLocks = [m \in Modules |-> NoRequest]
  /\ pc = [c \in Calls |-> "idle"]
  /\ request = [c \in Calls |-> NoRequest]
  /\ module = [c \in Calls |-> NoModule]
  /\ outcome = [c \in Calls |-> "none"]
  /\ lost = {}
  /\ unclosed = {}

\* saveOperationRecords: os.WriteFile stores the new records.
SaveSucceeds(records) ==
  /\ journal' = records
  /\ UNCHANGED <<readable, lost>>

\* What a failed or cut os.WriteFile leaves behind.
SaveLeaves(damage) ==
  /\ journal' = IF damage = "blank" THEN EmptyJournal ELSE journal
  /\ readable' = (readable /\ damage # "partial")
  /\ lost' = IF damage = "blank" THEN lost \cup {r \in Requests : journal[r] # NoRecord}
             ELSE lost

Save(records) ==
  \/ SaveSucceeds(records)
  \/ \E damage \in SaveFaults : SaveLeaves(damage)

\* Mutant: the lock is not given back.
KeepModuleLock(m, r) == moduleLocks' = moduleLocks

\* releaseModuleLock frees the lock only for the request that holds it.
ReleaseModuleLock(m, r) ==
  moduleLocks' = IF moduleLocks[m] = r
                 THEN [moduleLocks EXCEPT ![m] = NoRequest]
                 ELSE moduleLocks

Receive(c, r, phase) ==
  /\ agent = "up"
  /\ pc[c] = "idle"
  /\ pc' = [pc EXCEPT ![c] = phase]
  /\ request' = [request EXCEPT ![c] = r]

\* acquireModuleLock also lets the same request id take its lock again.
LockAvailable(m, r) == moduleLocks[m] \in {NoRequest, r}

\* Mutant: operations on other requests and module locks are not looked at.
AdmitsAnyModule(r, m) == readable /\ journal[r] = NoRecord

\* Mutant: an interrupted request is run again.
AdmitsInterrupted(r, m) ==
  /\ readable
  /\ journal[r] # NoRecord => journal[r].status = "interrupted"
  /\ \A q \in Requests : Running(q) => journal[q].module # m
  /\ LockAvailable(m, r)

\* beginOperation finds no record of r, no other running record of m and the
\* lock free.
Admits(r, m) ==
  /\ readable
  /\ journal[r] = NoRecord
  /\ \A q \in Requests : Running(q) => journal[q].module # m
  /\ LockAvailable(m, r)

BeginOperation(c, r, m) ==
  /\ Admits(r, m)
  /\ Receive(c, r, "executing")
  /\ SaveSucceeds([journal EXCEPT
       ![r] = [module |-> m, status |-> "running", stage |-> "validate"]])
  /\ moduleLocks' = [moduleLocks EXCEPT ![m] = r]
  /\ module' = [module EXCEPT ![c] = m]
  /\ UNCHANGED <<agent, outcome, unclosed>>

\* The save of the new record fails: the lock just taken is given back.
BeginSaveFails(c, r, m) ==
  /\ Admits(r, m)
  /\ Receive(c, r, "rejected")
  /\ \E damage \in SaveFaults : SaveLeaves(damage)
  /\ moduleLocks' = [moduleLocks EXCEPT ![m] = NoRequest]
  /\ UNCHANGED <<agent, module, outcome, unclosed>>

\* The file cannot be read, the request is still running, or another
\* operation works on the module.
BeginRejected(c, r, m) ==
  /\ \/ ~readable
     \/ ReadFaults
     \/ Running(r)
     \/ journal[r] = NoRecord /\ ~Admits(r, m)
  /\ Receive(c, r, "rejected")
  /\ UNCHANGED <<agent, journalVars, moduleLocks, module, outcome, unclosed>>

\* A finished request is answered from its record, whatever the action and
\* the module of the new call are.
Replay(c, r) ==
  /\ Known(r)
  /\ ~Running(r)
  /\ Receive(c, r, "replayed")
  /\ outcome' = [outcome EXCEPT ![c] = journal[r].status]
  /\ UNCHANGED <<agent, journalVars, moduleLocks, module, unclosed>>

\* UpdateStage: nothing happens when the record cannot be loaded or found; the
\* handle takes the record over before the save, whose error is ignored.
UpdateStage(c) ==
  /\ pc[c] = "executing"
  /\ Known(request[c])
  /\ Save([journal EXCEPT ![request[c]].stage = "apply"])
  /\ module' = [module EXCEPT ![c] = journal[request[c]].module]
  /\ UNCHANGED <<agent, moduleLocks, pc, request, outcome, unclosed>>

\* Mutant: a failure is recorded as a success.
FinalRecordCompleted(r, o) ==
  [journal[r] EXCEPT !.status = "completed", !.stage = "completed"]

\* Mutant: only the stage is recorded.
FinalRecordRunning(r, o) == [journal[r] EXCEPT !.stage = "completed"]

FinalRecord(r, o) ==
  [journal[r] EXCEPT !.status = o,
                     !.stage = IF o = "completed" THEN "completed" ELSE @]

\* Complete (o = "completed") and Fail (o = "failed").  The deferred release
\* runs after the journal's mutex is given back: the phase "releasing".
Finish(c, o) ==
  /\ pc[c] = "executing"
  /\ pc' = [pc EXCEPT ![c] = "releasing"]
  /\ outcome' = [outcome EXCEPT ![c] = o]
  /\ \/ /\ Known(request[c])
        /\ module' = [module EXCEPT ![c] = journal[request[c]].module]
        /\ \/ /\ SaveSucceeds([journal EXCEPT ![request[c]] = FinalRecord(request[c], o)])
              /\ UNCHANGED unclosed
           \/ /\ \E damage \in SaveFaults : SaveLeaves(damage)
              /\ unclosed' = unclosed \cup {request[c]}
     \/ /\ ~Known(request[c]) \/ ReadFaults
        /\ unclosed' = unclosed \cup {request[c]}
        /\ UNCHANGED <<journalVars, module>>
  /\ UNCHANGED <<agent, moduleLocks, request>>

\* release, and the answer to the client.
Release(c) ==
  /\ pc[c] = "releasing"
  /\ pc' = [pc EXCEPT ![c] = "answered"]
  /\ ReleaseModuleLock(module[c], request[c])
  /\ UNCHANGED <<agent, journalVars, request, module, outcome, unclosed>>

\* UninstallModule returns an error after a failed removal of the binary, the
\* env file, the nginx site or an asset without calling Fail.
Abandon(c) ==
  /\ pc[c] = "executing"
  /\ pc' = [pc EXCEPT ![c] = "abandoned"]
  /\ UNCHANGED <<agent, journalVars, moduleLocks, request, module, outcome, unclosed>>

\* The process dies: handles and locks are gone, the file stays.  (A handle
\* that was abandoned earlier counts as cut from here on.)
ProcessDies ==
  /\ agent = "up"
  /\ agent' = "down"
  /\ pc' = [c \in Calls |-> IF pc[c] \in Holding THEN "cut" ELSE pc[c]]
  /\ moduleLocks' = [m \in Modules |-> NoRequest]
  /\ UNCHANGED <<request, module, outcome, unclosed>>

Crash ==
  /\ ProcessDies
  /\ UNCHANGED journalVars

\* Some handler is inside os.WriteFile.
SaveInFlight ==
  \/ \E c \in Calls : pc[c] = "executing" /\ Known(request[c])
  \/ \E c \in Calls, r \in Requests, m \in Modules :
       pc[c] = "idle" /\ Admits(r, m)

CrashInSave ==
  /\ SaveInFlight
  /\ ProcessDies
  /\ \E damage \in CrashTears : SaveLeaves(damage)

\* Mutant: the open records stay open.
InterruptedNone == journal

\* Mutant: finished records are closed once more.
InterruptedAll ==
  [r \in Requests |->
     IF journal[r] # NoRecord THEN [journal[r] EXCEPT !.status = "interrupted"]
                              ELSE journal[r]]

\* InitializeRuntimeState closes the records the previous process left open.
Interrupted ==
  [r \in Requests |->
     IF Running(r) THEN [journal[r] EXCEPT !.status = "interrupted"]
                   ELSE journal[r]]

\* agent.New succeeds after the service manager starts the process again.
Boot ==
  /\ agent = "down"
  /\ readable
  /\ agent' = "up"
  /\ SaveSucceeds(Interrupted)
  /\ UNCHANGED <<moduleLocks, pc, request, module, outcome, unclosed>>

\* InitializeRuntimeState cannot save: New fails and the process exits, or it
\* is killed inside the save.
BootFails ==
  /\ agent = "down"
  /\ readable
  /\ \E r \in Requests : Running(r)
  /\ \E damage \in SaveFaults \cup CrashTears : SaveLeaves(damage)
  /\ UNCHANGED <<agent, moduleLocks, pc, request, module, outcome, unclosed>>

Handler(c) ==
  \/ \E o \in {"completed", "failed"} : Finish(c, o)
  \/ Abandon(c)
  \/ Release(c)

Next ==
  \/ \E c \in Calls, r \in Requests, m \in Modules :
       \/ BeginOperation(c, r, m)
       \/ BeginSaveFails(c, r, m)
       \/ BeginRejected(c, r, m)
  \/ \E c \in Calls, r \in Requests : Replay(c, r)
  \/ \E c \in Calls : UpdateStage(c) \/ Handler(c)
  \/ Crash
  \/ CrashInSave
  \/ Boot
  \/ BootFails

Spec == Init /\ [][Next]_vars

\* A handler that was admitted runs to its end.
FairSpec == Spec /\ \A c \in Calls : WF_vars(Handler(c))

-----------------------------------------------------------------------------
\* Types: records only under their request, locks only for requests, one
\* phase, handle and outcome per call (operationRecord and operationHandle).
TypeOK ==
  /\ agent \in {"up", "down"}
  /\ journal \in [Requests -> Record \cup {NoRecord}]
  /\ readable \in BOOLEAN
  /\ moduleLocks \in [Modules -> Requests \cup {NoRequest}]
  /\ pc \in [Calls -> Phases]
  /\ request \in [Calls -> Requests \cup {NoRequest}]
  /\ module \in [Calls -> Modules \cup {NoModule}]
  /\ outcome \in [Calls -> Outcomes]
  /\ lost \subseteq Requests
  /\ unclosed \subseteq Requests
  /\ \A c \in Calls : pc[c] # "idle" => request[c] \in Requests
  /\ \A c \in Calls : pc[c] \in Ran => module[c] \in Modules

\* beginOperation admits one operation per module: two handlers work on the
\* same module at once only after an emptied file lost the record of one of
\* them, whatever else crashes, failing saves and reads and retries of the same
\* request id do.  (The record is what keeps a retry of a running request out:
\* acquireModuleLock lets a request take its own lock again.)
ModuleExclusion ==
  \A c, d \in Calls :
    pc[c] = "executing" /\ pc[d] = "executing" /\ module[c] = module[d] =>
      c = d \/ request[c] \in lost \/ request[d] \in lost

\* A request id is executed a second time only when its record was lost in
\* between: os.WriteFile empties the file before it writes, and a full disk or a
\* crash there leaves a journal without records.  Every other retry is refused or
\* answered from the journal, also after a crash of the first execution.
AtMostOnce ==
  \A c, d \in Calls :
    pc[c] \in Ran /\ pc[d] \in Ran /\ request[c] = request[d] =>
      c = d \/ request[c] \in lost

\* A retry is told that an operation completed (or failed) only when a handler
\* of that request did end that way.
ReplayTruthful ==
  \A c \in Calls : pc[c] = "replayed" /\ outcome[c] # "interrupted" =>
    \E d \in Calls : /\ pc[d] \in Ran
                     /\ request[d] = request[c]
                     /\ outcome[d] = outcome[c]

\* What retries of an answered request read is the outcome the client was given,
\* except in the two cases nobody is told of: the load or the save of Complete or
\* Fail went wrong (both ignore the error), or the record was lost later on.
AnswerDurable ==
  readable => \A c \in Calls : pc[c] = "answered" =>
    \/ journal[request[c]] # NoRecord /\ journal[request[c]].status = outcome[c]
    \/ request[c] \in unclosed \cup lost

\* A module lock outlives the handler that took it on one path only: the early
\* exits of UninstallModule (rpc_service.go lines 561 to 598), which return
\* without Fail and leave the module locked until the process ends.  The lock of
\* a request whose record was lost is excepted.
LockLeaksOnlyByAbandoning ==
  \A m \in Modules : moduleLocks[m] \notin lost \cup {NoRequest} =>
    \E c \in Calls :
      pc[c] \in Live \cup {"abandoned"} /\ module[c] = m /\ request[c] = moduleLocks[m]

\* While the agent runs, a record says "running" and no handler works on it in
\* two cases only: UninstallModule returned without Fail, or the final record
\* did not reach the file.  InitializeRuntimeState leaves no third one, a record
\* of the last process.
RunningHasOwner ==
  agent = "up" /\ readable =>
    \A r \in Requests : Running(r) =>
      \/ \E c \in Calls : pc[c] = "executing" /\ request[c] = r
      \/ \E c \in Calls : pc[c] = "abandoned" /\ request[c] = r
      \/ r \in unclosed

\* A finished record keeps its status whatever later calls, crashes and
\* restarts do (Complete, Fail and InitializeRuntimeState touch only their own),
\* until the record is lost.
TerminalIsFinal ==
  [][\A r \in Requests :
       journal[r] # NoRecord /\ ~Running(r) => journal'[r] = journal[r] \/ r \in lost']_vars

\* A locked module becomes free again, unless the handler that holds it
\* returned through the early exits of UninstallModule or the record of the
\* request that holds it was lost.
LockedModuleFreed ==
  \A m \in Modules :
    moduleLocks[m] # NoRequest ~>
      \/ moduleLocks[m] \in lost \cup {NoRequest}
      \/ \E c \in Calls : pc[c] = "abandoned" /\ module[c] = m

\* The journal as the record of what became of each operation: a record that
\* says "running" without a handler at work is an operation nobody can tell the
\* outcome of, and a request whose record was lost is forgotten for good, also
\* when it is executed again.
AtWork(r) == \E c \in Calls : pc[c] = "executing" /\ request[c] = r

JournalState ==
  [r \in Requests |->
     IF r \in lost THEN "forgotten"
     ELSE IF journal[r] = NoRecord THEN "none"
     ELSE IF ~Running(r) THEN journal[r].status
     ELSE IF AtWork(r) THEN "executing"
     ELSE "interrupted"]

JournalTarget ==
  [r \in Requests |->
     IF r \in lost \/ journal[r] = NoRecord THEN NoModule ELSE journal[r].module]

Operations == INSTANCE ModuleOperations
                WITH state <- JournalState, target <- JournalTarget

\* The journal implements the promise of ModuleOperations, whatever crashes and
\* failing saves and reads happen (operation_journal.go as a whole).
ImplementsModuleOperations == Operations!OpsSpec
=============================================================================
