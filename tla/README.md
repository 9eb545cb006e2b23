# Verification of aurora-agent

Aurora agent is one Go process on a host. It installs, restarts and removes
service modules there on behalf of an Admin, reports heartbeats and metrics to
that Admin over gRPC with mutual TLS, keeps `/etc/hosts` in step with the Admin's
routing table, and runs commands. This directory holds
TLA+ modules of its core logic, TLC configurations that check them on small
instances, and proofs for TLAPS. Paths below are relative to the repository.

```
tlc -workers 2 -config Journal.cfg MCOperationJournal   # a run, see "Runs"
tlapm InstallerProofs.tla                               # proofs, see "Proofs"
```

`PROJECT.json` lists the runs, which source lines every definition stands for
("map"), one mutant per property (a plausible bug under which the property
fails), the hazards of the code, and the findings.

## 1. Inventory

| Component (code) | State it keeps | Operations | Module | Status |
|---|---|---|---|---|
| Operation journal (`internal/agent/install/operation_journal.go`) | `installed_operations.json`; `moduleLocks` in memory | beginOperation, UpdateStage, Complete, Fail, release, InitializeRuntimeState | `OperationJournal`, promise: `ModuleOperations` | modelled |
| Installer RPCs and inventory (`rpc_service.go`, `state_store.go`) | `installed_modules.json`; what is deployed | InstallModule, InstallModuleStream, RestartModule, UninstallModule, upsert/removeInstalledModule | `InstallerRPC` (extends `OperationJournal`) | partly |
| Install engine and rollback (`engine.go`, `rollback.go`) | files of a module, backups, systemd, nginx | InstallModule, Capture, Restore | `InstallEngine` | partly |
| Artifact cache (`artifact_cache.go`) | cache directory, `artifactCacheMu` | ensureArtifactAvailable, pruneArtifactCache, unpack | `ArtifactCache` | modelled |
| Admin client and TLS material (`internal/adminrpc/{client,rpc,renew,bootstrap}.go`) | connection, `certRenewMu`, key and certificate files | New, Report..., invokeWithRecovery, reconnect, rotation, Close | `AdminRPC` | modelled |
| Metrics loop (`basic_metrics_loop.go`, policy in `rpc.go`) | policy, tickers, batch | sample, compute records, flush, poll policy, shut down | `BasicMetrics` | modelled |
| Agent lifecycle and probe listener (`agent.go`, `lifecycle.go`, `probe_listener.go`) | `runCtx`, errgroup, gRPC server, health | Run, loops, shutdown, GracefulStop/Stop | `AgentLifecycle` | partly |
| Host routing (`adminrpc/host_routing.go`) | managed block of `/etc/hosts`, snapshot hash | maybeSync, sync, apply, strip | `HostRouting` | modelled |
| Command service (`install_service.go`) | one child process per RPC, its pipes, send mutex | RunCommand, RunCommandStream | `CommandStream` | modelled |
| Policy and request validation, audit log, redaction, wire types, configuration, collectors, install script | none, or written once | | - | not modelled |

How they interact:

* The probe listener's gRPC server runs each RPC in a goroutine. Installer RPCs
  take a handle from the journal, call the engine, then write the inventory,
  then close the record. The engine calls the cache before it touches the host.
  Shared state: the two JSON files, the module locks, the cache directory, the
  host.
* The heartbeat loop and the metrics loop share one `HeartbeatClient`: its
  connection, its renewal mutex and the TLS files, which the probe listener
  reads once at start.
* The heartbeat loop calls the host routing after each acknowledged heartbeat,
  through the same client. Its hash lives in memory, its block in `/etc/hosts`,
  which other programs write as well.
* A command RPC owns one bash and two reader goroutines that share the stream
  to the client; nothing of it outlives the call but what the command left in
  the background.
* `Run` owns all loops through an errgroup: the first loop that fails cancels
  the others. On a signal it cancels `runCtx` and waits; the listener gives the
  handlers two seconds.
* A new process is started by systemd (`Restart=always` in
  `scripts/install.sh`). What survives it: both JSON files, the cache
  directory, the TLS files, the host.

What is hard about it:

* Two handlers race between a check and an act: `beginOperation` guards with a
  mutex, a file and an in-memory lock that is freed after the file is written;
  the inventory is read and rewritten with no lock at all.
* Files are rewritten in place, so a crash or a full disk leaves them torn or empty,
  and most errors of a save are ignored.
* The rollback of an install runs in map order, with a context that may be
  done already.
* The unpacking of a cached artifact happens outside the cache's mutex, while
  another install may prune it.
* Calls to Admin repair themselves (reconnect, rotation, renewal) while another
  loop uses the same connection and the same files.
* The policy may turn a batch into a stream, or overflow a duration, while
  records wait to be sent.
* A record counts from the sample before it, which may belong to another mode, to
  a counter that has begun again, to a figure that could not be read, or to a later
  moment of a clock set back.
* `cmd.Wait` closes the pipes of a command under the goroutines that read them.
* The managed block of `/etc/hosts` is found by two markers that anybody may
  remove, and left alone while a hash in memory says it is up to date.
* Shutdown races with loops that may be blocked, and with handlers at work.

`PROJECT.json` lists these and the rest, each at its line, with the properties
that would notice ("hazards"); those with no property say why.

## 2. Modules and the code

Each variable and action carries the name of what it stands for; the exact
lines are in "map". Common conventions: an action is a critical section or a
call to the disk or network, so that every interleaving the code allows at
those points is a behaviour; names, payloads and texts are model values;
logging and answers' wording are left out.

**OperationJournal.** A call is one RPC. `BeginOperation` is `beginOperation`
under `operationStateMu`: it looks up the request id, then other running records of
the module, then the module lock, appends a running record and saves.
`BeginRejected`, `BeginSaveFails` and `Replay` are its other ways out.
`Finish` is `Complete`/`Fail` (load, change, save; both errors ignored by the
code, so the record may stay running), `Release` the deferred unlock, a step
later. `Abandon` is the early returns of UninstallModule
(`rpc_service.go:561-598`) that never close the handle. `Crash` and
`CrashInSave` kill the process; `Boot` is `InitializeRuntimeState`, `BootFails`
its failing save. A file that does not decode is never booted from. `SaveFaults` and
`CrashTears` say how a failed or cut `os.WriteFile` may leave the file: as it was, empty
(which decodes as a journal without records) or undecodable.

Two history variables, which no guard reads, keep what the code does not notice:
`lost`, the requests whose record an emptied file took away, and `unclosed`, those
whose final record was not saved, since Complete and Fail ignore that error. The
properties name these cases and rule out all others, so that no fault has to be assumed
away: neither in the runs nor in the proofs.

**ModuleOperations** is what the journal promises, with none of its
mechanism: per module at most one operation at work, per request id one
execution, a closed result never changes, the death of the process turns what
was at work into interrupted. An emptied file is `ForgetAll`: all requests are forgotten at
once and for good. `ImplementsModuleOperations` is the refinement.

**InstallerRPC** extends the journal by the handlers. `Start`/`Refuse` receive
an RPC and begin an operation, `Lookup` reads the entry of restart and
uninstall, `Work`/`WorkFails`/`WorkAbandoned` change the host,
`LoadInventory`, `TruncateInventory`, `WriteInventory` are the three visible
stages of upsert and remove, `Succeed` closes the record, `Answer` frees the lock. Each stage
may fail (`InventoryFaults`); the handlers ignore that and answer success, which the
history `stale` remembers of the name. The inventory's keys are the names as sent, the
locks' keys their normal form (`KeyOf`).

**InstallEngine** is one install. Targets are captured and written one at a
time in the code's order, the commands (`daemon-reload`, `enable`, `restart`,
`nginx -t`, reload, health check) run from a script, and a failure at any point
starts the deferred rollback: `Restore` in any order, as Go ranges over a map,
then the rollback's commands. `Cancel` ends the context at any time, after
which every command fails.

**ArtifactCache** has the cache directory as a set of files. Under the mutex an install
goes through `Hit` or `Miss`, `Download`, and pruneArtifactCache: `StartPrune` adds up what it
can read, `Evict` is one round of its loop, `EvictFails` a round whose os.Remove fails,
`EndPrune` its end. Which file comes next is any: the order is by modification time,
which a clock set back mixes up. `MissFails`, `DownloadFails` and `PruneFails` are the error returns;
the last one leaves the new file in place. `Unpack` and `UnpackFails` are outside the mutex. `Crash` leaves
temporary files and damaged content. The history `overrun` says that something was left
behind since the last prune that read every file and made the rest fit.

**AdminRPC** has each caller at a point of `invokeWithRecovery`: preflight
(`LockRenewal`, `NothingToRenew`, `Renew`), the call, `Reconnect`, the
rotation (`Bootstrap`, `Write` one file at a time). `New` runs the same steps
at start; a call of a client without a connection returns at once (`Begin`).
A key, a certificate and a CA fit when they came with the same
`BootstrapAgent` answer. `Renew` is the call of `renewClientCertificate` that
enters `invokeWithRecovery` while `certRenewMu` is held: the caller queues
behind itself, so the rest of `renew.go` is not reached.

`env` is what may go wrong in a behaviour (`Environments`), chosen at its start. `mixed` remembers
that the last rotation overlapped with another or was cut short.

**BasicMetrics** has the four cases of the loop's select (`PolicyTick`,
`SampleTick`, `FlushTick`, `Done`) and `Start`. Durations wrap at a word of 2 * `HalfRange` values
as `time.Duration` wraps at 64. `Collected` is the collection and the two compute
functions. No counter influences another, so a behaviour follows one of three
kinds: bytes of the host, bytes of a service, CPU of the host with its idle part.
`Readings` is what the kernel may show next and what is read of it: bytes that pass, a
counter that begins again, an iowait that falls, a property that is not set and read as 0,
a line left out of a sum. `surplus` is what the records claim less what
did pass, `missed` what the readings fell short of the counter. `Start` panics on
a period that is not positive and on a batch of more than `MaxCapacity`
records; `Done` is the last flush under the ctx that is done, after which the batch is gone.

**AgentLifecycle** has the main goroutine, the four loops, the server and the
handlers. `FirstSignal`, `RunEnds`, `ForceShutdownOnSignal`, `ForceShutdown`,
`Shutdown`, `Exit` are `Run` and `shutdown`; `Drain`, `Drained`, `StopServer`
are the listener's GracefulStop with its timer.

**CommandStream** is one call of RunCommand ("unary") or RunCommandStream ("stream").
A pipe is the difference of two counters, a writer blocks while it is full. The handler
goes through `Start`, `Reap` (cmd.Wait, which closes the pipes of a stream at once), `Collect`
(both readers reported) and `Answer`; each reader through `Fetch`, `LockSend`, `Send`
and one of its ends: EOF, a closed pipe, a line beyond 4 MiB, a client that is gone.
bash, what it leaves in the background, the deadline and the client move by themselves.

**HostRouting** has `/etc/hosts` as a sequence of lines: those of others, two
markers, a snapshot's entries. A sync runs through `MaybeSync`, `GetSnapshot` (an
unchanged hash ends it), `ReadHosts` (with `Strip`, which is
stripManagedHostsBlock), `WriteTemporary`, `Rename`, `RecordHash`, or fails at
each. `AddLine` and `RemoveMarker` are an editor, `Restart` a new process without
a hash, `AdminChanges` another snapshot.

The MC modules only name small sets for the configurations.

## 3. Runs

State counts are of distinct states, rounded.

| Run | Instance | What it shows |
|---|---|---|
| Journal (430k) | 3 calls, 2 request ids, one module; crashes, every kind of failing save, failing reads | the journal implements `ModuleOperations`; one operation per module (`ModuleExclusion`) and one execution per request (`AtMostOnce`) unless a record was lost; a replay tells the recorded result (`ReplayTruthful`), and that is what was answered (`AnswerDurable`); locks and running records are left behind on named paths only (`LockLeaksOnlyByAbandoning`, `RunningHasOwner`); a finished record stays (`TerminalIsFinal`); a locked module is freed unless its handler abandoned it or its record was lost (`LockedModuleFreed`) |
| Installer (1.0M, up to symmetry) | 3 calls of any kind, 3 request ids, 2 modules; crashes at any point, torn journal saves, every access to the inventory may fail | one operation per module (`ModuleExclusion`); the inventory names only versions that were installed and, while one name is in use, the deployed one (`RecordedWasInstalled`, `RecordedIsDeployed`) |
| InstallerLostUpdate | 2 installs of 2 modules, no faults | **violation**: the inventory loses a completed install |
| Admin (210k) | both loops, in five environments: 3 rotations after the start with refused certificates and denied calls; 2 with refusals and crashes, and with disk faults and crashes; one with ageing certificates, and with refusals, each with Close and crashes | the connection is never given up for one that cannot be built (`ConnectionKept`); a rotation that nothing disturbed leaves keys and certificates that fit, also after two that overlapped (`MaterialFits`); calls end while no certificate comes near its expiry (`CallsEndBeforeExpiry`); a refusal is cured (`RefusalCured`) |
| AdminRenewal | one loop; an ageing certificate | **violation**: the call that notices it never ends |
| AdminRace | both loops rotate | **violation**: key and certificate of different rotations remain |
| Engine (710k) | 5 targets, 6 files, any failure, cancellation | an install that failed without a restore error left every file as it was (`FilesRestored`), and, once the unit file was captured, the old release is back, as is the old site (`OldReleaseRuns`); one that completed is what runs (`CompletedIsInstalled`) |
| Cache (470k, up to symmetry) | 3 installs, 3 artifacts of sizes 1, 3, 5 in a cache of 4, 2 temporary files, crashes and failures of every disk access | nothing damaged is unpacked (`UnpacksVerified`), the limit holds unless something was left behind (`CacheBounded`), nothing is evicted within the limit (`EvictsAboveLimit`) |
| Metrics (760k) | 3 samples of each kind of counter, policies of both modes, one of which overflows and one of which is too large | the running loop drops no batch record (`NothingForgotten`), its tickers follow the policy (`TickersFollowPolicy`), the records count nothing twice and nothing that did not pass, but for what a reading fell short (`CountedOnce`), batches arrive (`BatchDelivered`) |
| Lifecycle (26k) | 2 handlers, loops that may block for ever, 2 signals | a signal ends the process (`SignalEndsAgent`), so does a listener that fails while no loop is blocked (`FailureEndsAgent`), and health says disconnected at an orderly end (`DisconnectedAtExit`) |
| Command (320k) | 3 lines on each of 2 pipes of 2 lines; long lines, background processes, deadline, a client that goes | success is told only after all output of a command that ended well (`ResultIsComplete`); a returned call has left no process it waits for, no reader and no lock behind (`NothingLeftBehind`); the deadline ends a call (`CallEnds`) |
| Hosts (250k) | 2 snapshots, 2 lines of others or no file at all, 2 changes, 1 restart; failing calls, writes, renames; an editor | lines of others survive (`UserLinesKept`); there is one whole block, and a recorded hash tells which (`HashTellsBlock`); each snapshot gets into the file (`SnapshotReaches`) |

The runs of InstallerRPC (`RpcTypeOK`), AdminRPC, ArtifactCache, BasicMetrics and HostRouting also
check the type invariant; those of the other modules are left to the proofs.
The runs with a liveness property use the module's `FairSpec`, and no symmetry.

### Bounds, and why they are enough

* *Calls and modules.* Exclusion, replay and the locks relate two calls for one module; three
  calls over two request ids have that and a retry, also after a crash, with every fault
  (Journal). That the lock of one module says nothing of another is for Installer, which
  has two. Two installs suffice to lose an inventory update; the third call is the
  restart or uninstall that reads what the first two left. The theorems have no such bound.
* *Crashes.* Unbounded everywhere: in the journal and the installer records only move
  towards closed; in the cache the names of temporary files (`Temps`) run out, one
  that was left behind and one at work.
* *Faults of the installer's files.* Installer has the failures of the inventory and leaves all those of
  the journal but a torn save to Journal, since the handlers react to the journal's answers
  alone.
* *Certificates* (`answers`). The start uses the first. Three more are two rotations that
  overlap and one after them that must set it right; two more a mixture; one more
  any path through a call. The last certificate that can be issued is
  never refused, so that the bound does not stand in the way of a cure.
* *Environments.* All faults at once and three rotations are out of TLC's reach together with liveness. A
  behaviour of AdminRPC therefore chooses one environment at its start; those of Admin have
  each event at least once, and a crash beside every one of them. The theorems hold for any environments.
* *Targets.* One of every way the engine writes: an inline file, the binary
  (by rename), a directory with two files (so that it can be half written), the
  unit, the site. The env file is written like the inline file.
* *Cache sizes* fit one, or two, or none of the artifacts.
* *Durations.* Eight bits with ten units per second: 13 seconds overflow as
  about 292 years do in 64 bits.
* *Samples and steps.* A record depends on one sample before it; three samples have one
  that follows a trouble and one that follows that. Between two, one unit passes or
  none (`MaxStep`), busy or idle time, and a counter that begins again stands at or below
  its old value. The theorem is for any steps.
* *Lines and pipes.* Three lines overflow a pipe of two, so that the writer blocks,
  one line is in the pipe and one with the reader when it is closed.
* *Snapshots.* The empty one and another; two changes come back to the first. An
  editor may add one line and remove each marker once; the restart comes at any point.
* *Signals.* `sigCh` holds two; the code reads two.

Deadlock is not checked where the system may stop by itself: all calls answered, or
a journal that no longer decodes so that no start succeeds (Journal,
Installer...), an install that ended (Engine), a process that
exited (Lifecycle), a loop that ended or panicked (Metrics), a call that returned (Command), and
the two violations of AdminRPC, in which a deadlock or the bound on certificates is the
point. It is checked in Admin, Cache and Hosts.

### Fairness

* `FairSpec` of OperationJournal: an admitted handler keeps running (weak fairness per
  call, it waits for no other). A start after a crash is not assumed: the locks
  are gone with the process.
* `FairSpec` of AdminRPC: weak fairness of New and of each caller's steps,
  since each call has a deadline and each loop a ticker; strong fairness only
  for `LockRenewal`, because Go's mutex passes to a waiter that starves.
* `AdminAnswers`, the premise of RefusalCured: first and second attempts on a refused
  certificate are refused again and again rather than lost, and
  BootstrapAgent answers again and again. It stands in the property because
  CallsEndBeforeExpiry does not need it.
* `FairSpec` of BasicMetrics: start and shutdown happen, and a flush that
  is possible again and again succeeds at some point: a system in which Admin
  refuses every batch delivers none. This also assumes that the flush ticker gets to tick:
  each changed policy renews it, and one that changes at every poll (15 s) with a flush interval above
  that would keep it from ever ticking.
* `FairSpec` of AgentLifecycle: calls end unless they are among `Stuck`,
  select takes `ctx.Done` at last, timers fire. Nothing is assumed of handlers,
  signals or the listener's failures.
* `FairSpec` of CommandStream: the handler, the readers, the deadline and the killing
  goroutine run; strong fairness only for `LockSend`, the mutex. Weak fairness of `Send`
  assumes a client that reads or goes: one that stays and never reads would block the
  stream's flow control. Nothing is assumed of the command or of what it left behind.
* `FairSpec` of HostRouting: heartbeats go on (weak), and the steps of a sync that may fail
  succeed at some point if they are tried again and again (strong). Nothing is
  assumed of the Admin's changes, restarts or the editor.

## 4. Proofs

Eight modules, each named after the module it is about; `InstallerProofs` is about
`OperationJournal` and about `InstallerRPC`, which extends it. The theorems called
Journal... are stated of `Spec` and name nothing of InstallerRPC's; its assumptions are
about its own constants and can be met for all values of the journal's. All theorems hold for any
values of the constants; what a theorem assumes beyond the modules' own ASSUMEs is in
the last column.

| Theorem | States | Extra assumption |
|---|---|---|
| JournalTypeCorrect | `TypeOK` | none |
| JournalExclusion, JournalAtMostOnce | `ModuleExclusion`, `AtMostOnce` | none |
| JournalLockLeaks, JournalRunningHasOwner | `LockLeaksOnlyByAbandoning`, `RunningHasOwner` | none |
| JournalTerminalIsFinal, JournalReplayTruthful, JournalAnswerDurable | `TerminalIsFinal`, `ReplayTruthful`, `AnswerDurable` | none |
| JournalImplementsModuleOperations | `ImplementsModuleOperations` | none |
| InstallerUsesJournal | `UsesJournal` | none |
| InstallerExclusion, InstallerImplementsModuleOperations | `ModuleExclusion`, `ImplementsModuleOperations` of `RpcSpec` | none |
| InstallerTypeCorrect, InstallerRecordedWasInstalled, InstallerRecordedIsDeployed | `RpcTypeOK`, `RecordedWasInstalled`, `RecordedIsDeployed` | there is a name |
| EngineFilesRestored, EngineOldReleaseRuns, EngineCompletedIsInstalled | `FilesRestored`, `OldReleaseRuns`, `CompletedIsInstalled` | Disjoint: no target covers a file of another |
| EngineTypeCorrect | `TypeOK` | none |
| CacheTypeCorrect, CacheUnpacksVerified, CacheStaysBounded, CacheEvictsAboveLimit | `TypeOK`, `UnpacksVerified`, `CacheBounded`, `EvictsAboveLimit` | there is an artifact |
| AdminTypeCorrect, AdminConnectionKept, AdminMaterialFits | `TypeOK`, `ConnectionKept`, `MaterialFits` | none |
| MetricsTypeCorrect, MetricsTickersFollowPolicy, MetricsNothingForgotten, MetricsCountedOnce | `TypeOK`, `TickersFollowPolicy`, `NothingForgotten`, `CountedOnce` | none |
| HostsTypeCorrect, HostsUserLinesKept, HostsHashTellsBlock | `TypeOK`, `UserLinesKept`, `HashTellsBlock` | none |
| LifecycleTypeCorrect, LifecycleDisconnectedAtExit | `TypeOK`, `DisconnectedAtExit` | none |
| CommandTypeCorrect, CommandResultIsComplete, CommandNothingLeftBehind | `TypeOK`, `ResultIsComplete`, `NothingLeftBehind` | none |

### The journal

`ModuleExclusion` is not inductive: a handle is protected by its
record in the file and by its lock in memory, and either may be gone while the
other stands (the file may not decode, a record is closed before its lock is
freed). `JournalInv` therefore says of every handle that holds its module, and whose record
was not lost, that it has the lock (OwnsLock) and a record under its request id that names the
module (OnRecord), and of the other direction that a held lock has such a handle
(LockLeaksOnlyByAbandoning). The record is the delicate part: acquireModuleLock lets
a request id take its own lock again, so only the record keeps a retry out, also
after the operation ended (RanOnRecord, which gives `AtMostOnce`). That of a working handler is
running (ExecutingIsRunning), which keeps other requests for the module out.

All theorems of the journal hold for any faults. A save or crash that empties the file puts the
requests it takes away into `lost`, and nothing is promised of those any more; the
invariant shows that the damage stops there: no request that still has its
record, or comes after, is concerned unless it meets one of those.

The refinement maps a request whose record was lost to "forgotten", one without a record
to "none", a closed record to its status, and a running record to "executing" while a handler
works on it and to "interrupted" once none does. The variable `journal` keeps what the file held when it
last decoded, so an operation whose file is torn stays decided although
nobody can read it any more; the model lets nothing read it. Every action is then a
step of `ModuleOperations` or a stutter (`RefineNext`).

The last part is about what clients learn. `TruthInv` ties every record with an outcome
to a handler that ended with it (RecordsTruthful), and every replay to such a
record; since handlers keep their outcome, no later loss of the file makes a replay
untrue. `OwnerInv` and `AnswerInv` are RunningHasOwner and AnswerDurable, the latter also of
handlers that ended and have not answered yet; both rest on a finished record staying what it is until
it is lost (RecordsKept). Their exceptions are the handlers whose final record did not
reach the file, as the code ignores the error (`unclosed`), and an abandoned uninstall.

The RPC theorems follow from `InstallerUsesJournal`: each handler action
is an action of the journal on the journal's variables, or leaves them alone.

`RecordedWasInstalled` needs more than the file: a version that another writer
removed from it can come back from a snapshot, so `VersionsInv` asks of the entries
of every snapshot what the property asks of the file's. Two facts carry it: an
install that was written stays one, as it may only end well or be cut
(StepKeeps), and the only entry a writer adds is its own (NewEntryGenuine); all
else comes from the file, from a snapshot or is dropped (VersionsStay).

`RecordedIsDeployed` is about three steps that are one only while nobody comes
between them. Its premise (one name in use, nothing cut or lost) can become false but never
true again (QuietBefore), so it may be assumed of both ends of a step. Under it the
module locks leave one handler at work (QuietExcludes, from `ModuleExclusion` and from
every handle being one for the module its call names). `DeployInv` then follows that
handler: the file is empty while it stands between truncation and write, and whole
otherwise; from the work on the host to the write the inventory may disagree with
the host, and an install at that point has deployed its own version; at all other times
they agree, but for the names whose last result could not be saved (`stale`). At the write the entries that come back from the snapshot could still be of
other names; VersionsInv rules that out, because an entry with a version is one of
a call that ran. The premise is about names and not modules: two spellings of one
module share a lock and have an entry each, and the second install leaves the first
entry with a version that is no longer deployed.

### The others

*InstallEngine.* `FilesInv`: backups hold the original files (BackupsTruthful), files no
backup covers are untouched, and what was restored without an error stays so. The last
needs Disjoint, since the order of restoring is arbitrary. `ApplyInv` and
`RollbackInv` say that what is left of a script is the end of it and that the
commands before it have had their effect; the shape of the rollback's script
depends only on the backups, which do not change any more. The types need
that a script holds nginx commands only if the module has a site (ScriptsExecutable).

*ArtifactCache.* `VerifiedInv`: from the check of a file to its unpacking nothing spoils
that artifact, for a crash ends the install as well. The size of a set of files is the
number of pairs of a file and a byte, so that facts about finite
sets apply: fewer files are no larger (FewerFilesFit). `BoundInv`: unless something was left behind,
the files beside the temporary one of a download fit, and the loop of a prune counts the very
files that are there, so that the rest fits when it ends. `EvictsAboveLimit` needs less: what
the loop counts is always there (TypeOK), so while that is above the limit the directory is.

*AdminRPC.* `CountInv` and `MainInv` say where a caller can be for its number of
attempts and of written files, so that a rotation is written from its first file
to its last. `MixInv`: unless rotations overlapped or one was cut short, one process
writes, what it wrote so far is its own, and when nobody writes the material fits.
`DataTypes` needs both: Main never takes certRenewMu, and no file beyond the fifth
is written.

*BasicMetrics.* `TickersFollowPolicy` is inductive: tickers that did not panic at the start are
those of resetTickers, which falls back to defaults and never panics; a policy that leaves the
tickers alone would have led to the same ones. `BatchTypes` with
`NothingForgotten` is inductive: a flush that succeeds moves the numbers of the batch to
received, one that fails keeps them. `CountInv` adds to CountedOnce what the next record will
claim of the past: what the kept reading falls short of the counter (`Owed`). A record is the
difference of two successive readings modulo the word (FigureOnwards) and, where the
idle part stays, no more than the rise of the readings (FigureBounded), so what it claims
too much was owed before, and what is missed now is owed next. The word has
2 * HalfRange values for any HalfRange: 64 bits are HalfRange = 2^63, and nothing depends on it
being a power of two.

*HostRouting.* The properties filter a file. `Only`, the filter, is a recursive function,
so its facts are proved by induction over the file: what it keeps of two
parts put together is what it keeps of each (OnlyConcat), all of a file of wanted lines, nothing
of one without any. `HostsInv` then names the three shapes a file can have. With both
markers left alone it has no marker, or one block between lines of others, and
Strip takes out just that block (StripBlocked). Once the begin marker is gone an end
marker comes before every begin marker, Strip changes nothing from then on
(StripEndFirst), and a sync that applies a snapshot adds a block: lines of others survive, which is
all UserLinesKept says of this case. `ContentInv` says the same of what a sync is about to
write, until somebody edits the file under it. `HashInv`: only a sync that stands at
`record` has put another block there than the one the hash tells.

*AgentLifecycle.* `QuietInv`: once Run went on because the errgroup ended, no loop moves
any more, so the flag shutdown clears stays clear.

*CommandStream.* `IInv`: a reader that still reads has handed on all it fetched, one
that saw the end left nothing behind and nobody can write again (ReadersInv); sendMu is
held by the reader that sends; the handler's phase bounds what child and readers can
be. ResultIsComplete follows because an answer needs both readers to be
"done" and not only stopped.

### Only model-checked

Every liveness property (LockedModuleFreed, RefusalCured, CallsEndBeforeExpiry,
BatchDelivered, SignalEndsAgent, FailureEndsAgent, CallEnds, SnapshotReaches), which needs
fairness and ENABLED.

The theorems of the library that take an operator (NatInduction and the like) cannot be
used here; induction over numbers is done through a set of counterexamples and its least
member instead (LeastNumber and Induction in `HostRoutingProofs`).

## 5. Findings

1. `InstallerLostUpdate`: `upsertInstalledModule` (`state_store.go:45`) loads,
   changes and rewrites the inventory with no lock. Two installs of different
   modules that overlap answer success, and one of them is not in the
   inventory, although `ARCHITECTURE.md:151` has "Persist installed_modules.json"
   as a step of an install.
2. `AdminRenewal`: `maybeRenewClientCertificate` (`renew.go:20`) holds
   `certRenewMu` while the renewal goes through `invokeWithRecovery`, whose
   preflight locks it again. The first call after a certificate enters its
   renew window blocks for ever, and each later call behind it. `README.md:10`
   promises a periodic heartbeat.
3. `AdminRace`: nothing keeps the two loops from rotating the TLS material at
   the same time (`rpc.go:199`); the files may end mixed, and reconnect
   then fails before a rotation is tried again. `DEVELOPMENT.md:23` asks for
   idempotent reconnects.
One more contradiction has no run of its own: the intervals and the batch size of the first
policy go unchecked to `time.NewTicker` and `make` (`basic_metrics_loop.go:43-52`). A large
interval overflows to a negative one (`rpc.go:222`); both panic, and the agent ends with the
loop, while `DEVELOPMENT.md:22` rules out panics in the runtime path. `Start` of `BasicMetrics` has these
panics and the run Metrics reaches them. No property counts them as right:
`TickersFollowPolicy`, `NothingForgotten` and `CountedOnce` are about the loop before them.

Limits of the code met on the way, where no document says otherwise; the
properties are stated around them:

* `Abandon`: the early returns of UninstallModule after a failed removal leave the record
  running and the lock taken until a restart.
* An ignored error of the save in Complete or Fail leaves the record running: the
  module is refused until a restart.
* A journal emptied by a crash or a full disk after `O_TRUNC` (`operation_journal.go:265`)
  forgets what ran: a retry runs again, and a second operation of the module may run
  beside one that is at work. An undecodable one keeps the agent from starting.
* The handlers ignore errors of loading and saving the inventory and answer
  success (`rpc_service.go:192`); the old version stays on record.
* A property of a service that cannot be read counts as 0 (`service_metrics.go:165`), and
  the next record claims the whole counter.
* An error of the prune after a download leaves the new file in the cache and fails the install; a
  file that cannot be removed makes the cache evict newer ones instead.
* The last flush at shutdown uses a context that is done, so the last
  batch is not sent.
* Handlers still at work two seconds after the shutdown are killed with the
  process; their records become interrupted at the next start.
* A crash or an exit in the middle of a rotation leaves TLS files
  that do not fit, until a rotation that nothing disturbs; `MaterialFits` excepts them.
* An install that fails before it reaches the unit file stops the old service
  in its rollback and does not start it again, without reporting an error.
* A cached artifact may be pruned between its path being returned and its
  unpacking; the install then fails, and is not given another file.
* `cmd.Wait` (`install_service.go:183`) closes the pipes while the readers may
  still have lines to read: the client of a command that succeeded then gets an
  RPC error, and lines are lost. `ResultIsComplete` shows that no success is told for such a call.
* A line beyond 4 MiB stops its reader; the command then blocks on a full pipe until the
  deadline.
* RunCommand waits for a background process that inherited the output, also
  after its deadline (`cmd.WaitDelay` is not set).
* Whether a command timed out is looked up when the readers are through
  (`install_service.go:209`): one that failed by itself shortly before the deadline may be
  told to have timed out.
* A marker that vanishes from `/etc/hosts` is not noticed while the hash is
  unchanged. After a lost begin marker blocks pile up; after a lost end marker the next block's end
  closes the old begin, and lines of others between them are deleted. An edit between
  a sync's read and its rename is lost.
* When iowait falls, `totalDelta - idleDelta` (`basic_metrics_loop.go:174`) may wrap around
  below zero, and the CPU percentage of the host, unlike that of a service, is not clamped.
* The host's disk counters add up a disk, its partitions and the device-mapper volumes
  on it (`system/disk.go:155`), and the CPU total adds guest time that is part of
  user time already; the model takes what the collectors return.

## 6. Not modelled

* *ListInstalledModules, GetVersion, audit log, redaction, logs*: read-only, or
  output whose errors all callers ignore.
* *Policy and request validation, authorization interceptors*: sequential
  checks with no state; a refused request is a failure of the first step.
* *Configuration, collectors, host counters*: pure input. `BasicMetrics` takes from them
  what a counter may do and when a service is missing. The elapsed time by which a
  record divides is not modelled, so rates stand for amounts.
* *The install script*: runs once, before the agent; the models take the
  initial TLS files and the restart policy from it.
* *Modification times*: the order in which the cache is pruned is any order.
* *Contents*: templates, archive bytes, path checks of the unpacking, blank lines and
  line endings in `/etc/hosts`.
* *Two engines at once, paths that contain each other*: not in `InstallEngine`. nginx -t
  may fail there for any reason, which includes another module's site.
* *A crash in the middle of an install*: the code has no recovery for the files; the
  record's is in `InstallerRPC`.
* *The probe listener's certificate*, loaded once at start.
* *libvirt metrics, scheduler, WebSocket stream*: described in `README.md` and
  `ARCHITECTURE.md`, with no code in the repository.

## 7. Plan

Done, most important behaviour first:

1. `ModuleOperations`, `OperationJournal`: exclusion, replay, crash recovery.
2. `InstallerRPC`: composes the journal with the handlers and the inventory.
3. `AdminRPC`: recovery, rotation, renewal of the shared client.
4. `InstallEngine` and `ArtifactCache`: rollback and cache.
5. `BasicMetrics`, with the counters behind its records, and `AgentLifecycle`.
6. `HostRouting`: the managed block among the lines of others.
7. `CommandStream`: readers, child, `cmd.Wait`, deadline.
8. Proofs of all safety properties that are checked.

Left:

* `InstallEngine` with nested paths and with two engines that share nginx; `AdminRPC`
  composed with the listener's certificate.
* An atomic install (all or nothing) as an abstract specification of
  `InstallEngine`, and a delivery specification for `BasicMetrics`.

Runs are kept few, one per question.
