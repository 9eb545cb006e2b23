----------------------------- MODULE InstallEngine -----------------------------
(***************************************************************************)
(* Engine.InstallModule (src/internal/agent/install/engine.go) and the     *)
(* rollback it defers (rollback.go): one install of a module on a host     *)
(* that may hold an older release of it.                                   *)
(*                                                                         *)
(* The host is a set of leaf files; a target of the install is a path that *)
(* is captured and written as a whole and covers one leaf or, when it is a *)
(* directory, several.  The content of a leaf is "none", "old", "new" or   *)
(* "partial".  What the engine does before it touches the host (validate,  *)
(* download, unpack, manifest) is one step here; ArtifactCache has the     *)
(* download.  Commands that change nothing when they succeed (nginx -t and *)
(* the healthcheck) are kept for the failures they cause.                  *)
(***************************************************************************)
EXTENDS Sequences, FiniteSets, Naturals

CONSTANTS
  Leaves,     \* the files of the module
  Inline,     \* targets from req.Files
  Managed,    \* the other targets, in the order of InstallModule
  Covers,     \* the leaves of a target
  UnitFile, SiteFile,  \* the leaves of the systemd unit and the nginx site
  Atomic,     \* the targets that are written by a rename
  Uncaptured, \* a target that has no backup yet
  DiskFaults  \* whether reading and writing files may fail

Targets == Inline \cup {Managed[i] : i \in DOMAIN Managed}
Contents == {"none", "old", "new", "partial"}
NginxEnabled == SiteFile \in Leaves

ASSUME TargetsAssumption ==
  /\ Managed \in Seq(Targets) /\ Inline \cap {Managed[i] : i \in DOMAIN Managed} = {}
  /\ Covers \in [Targets -> SUBSET Leaves \ {{}}]
  /\ \A l \in Leaves : \E t \in Targets : l \in Covers[t]
  /\ UnitFile \in Leaves /\ Atomic \subseteq Targets

VARIABLES
  phase,     \* "prepare", "write", "apply", "restore", "rollback", "completed" or "failed"
  alive,     \* ctx is not done
  original,  \* the leaves before the install
  disk,      \* the leaves
  backups,   \* per target what Capture copied
  done,      \* the targets written
  pending,   \* the targets to restore
  script,    \* the commands to run
  running,   \* what the service runs: "none", "old", "new" or "other"
  enabled,
  served,    \* the site nginx has loaded
  ioError, commandError  \* restoreErrs, from files and from commands

files == <<original, disk, backups, done, pending>>
service == <<running, enabled, served>>
errors == <<ioError, commandError>>
vars == <<phase, alive, files, script, service, errors>>

Captured == {t \in Targets : backups[t] # Uncaptured}

\* Mutant: nginx is not reloaded.
ApplyScriptWithoutReload == <<"daemon-reload", "enable", "restart", "healthcheck">>

ApplyScript ==
  <<"daemon-reload", "enable", "restart">>
    \o (IF NginxEnabled THEN <<"nginx-test", "nginx-reload">> ELSE <<>>)
    \o <<"healthcheck">>

UnitTarget == CHOOSE t \in Targets : UnitFile \in Covers[t] /\ Cardinality(Covers[t]) = 1
UnitExisted == UnitTarget \in Captured /\ backups[UnitTarget][UnitFile] # "none"

\* Mutant: nginx keeps what it loaded.
RollbackScriptWithoutNginx ==
  <<"daemon-reload">> \o (IF UnitExisted THEN <<"enable", "restart">> ELSE <<"stop", "disable">>)

RollbackScript ==
  <<"daemon-reload">>
    \o (IF UnitExisted THEN <<"enable", "restart">> ELSE <<"stop", "disable">>)
    \o (IF NginxEnabled THEN <<"nginx-test", "nginx-reload">> ELSE <<>>)

-----------------------------------------------------------------------------
\* A fresh host, or one with an older release, running or not.
Init ==
  /\ phase = "prepare"
  /\ alive = TRUE
  /\ original \in {[l \in Leaves |-> "none"], [l \in Leaves |-> "old"]}
  /\ disk = original
  /\ backups = [t \in Targets |-> Uncaptured]
  /\ done = {} /\ pending = {}
  /\ script = <<>>
  /\ running \in (IF original[UnitFile] = "old" THEN {"none", "old"} ELSE {"none"})
  /\ enabled \in (IF original[UnitFile] = "old" THEN BOOLEAN ELSE {FALSE})
  /\ served = (IF NginxEnabled THEN original[SiteFile] ELSE "none")
  /\ ioError = FALSE /\ commandError = FALSE

\* The deferred rollback.  Restore does nothing when nothing was captured, else
\* it stops the service first and ignores whether that works.
StartRollback ==
  IF Captured = {}
  THEN phase' = "failed" /\ UNCHANGED <<pending, running>>
  ELSE /\ phase' = "restore"
       /\ pending' = Captured
       /\ running' \in {running} \cup (IF alive THEN {"none"} ELSE {})

Prepare ==
  /\ phase = "prepare"
  /\ phase' = "write"
  /\ UNCHANGED <<alive, files, script, service, errors>>

\* Any error before the first Capture: no host file was touched.
PrepareFails ==
  /\ phase = "prepare"
  /\ StartRollback
  /\ UNCHANGED <<alive, original, disk, backups, done, script, enabled, served, errors>>

\* All inline files are captured before the first of them is written; every
\* other target is captured and written before the next one.
Position(t) == CHOOSE i \in DOMAIN Managed : Managed[i] = t
Reached(t) ==
  /\ phase = "write"
  /\ t \notin Inline =>
       /\ Inline \subseteq done
       /\ \A i \in 1 .. Position(t) - 1 : Managed[i] \in done

Capture(t) ==
  /\ Reached(t)
  /\ t \notin Captured
  /\ backups' = [backups EXCEPT ![t] = [l \in Covers[t] |-> disk[l]]]
  /\ UNCHANGED <<phase, alive, original, disk, done, pending, script, service, errors>>

\* Mutant: a target is written without waiting for its backup.
MayWriteUncaptured(t) == Reached(t) /\ t \notin done

MayWrite(t) ==
  /\ Reached(t)
  /\ t \in Captured \ done
  /\ t \in Inline => Inline \subseteq Captured

Overwrite(t, content) == [l \in Leaves |-> IF l \in Covers[t] THEN content[l] ELSE disk[l]]

Write(t) ==
  /\ MayWrite(t)
  /\ disk' = Overwrite(t, [l \in Covers[t] |-> "new"])
  /\ done' = done \cup {t}
  /\ UNCHANGED <<phase, alive, original, backups, pending, script, service, errors>>

\* What a failed write of t, or a failed removal and copy, may leave; "partial"
\* stands for any content that is neither release.
Damaged(t) ==
  {Overwrite(t, content) :
     content \in [Covers[t] -> {"none", "partial"}]} \cup {disk}

\* Capture or the write fails; a rename that fails leaves the old file.
WriteFails ==
  /\ DiskFaults
  /\ \E t \in Targets :
       \/ Reached(t) /\ t \notin Captured /\ UNCHANGED disk
       \/ MayWrite(t) /\ disk' \in (IF t \in Atomic THEN {disk} ELSE Damaged(t))
  /\ StartRollback
  /\ UNCHANGED <<alive, original, backups, done, script, enabled, served, errors>>

Apply ==
  /\ phase = "write"
  /\ done = Targets
  /\ phase' = "apply"
  /\ script' = ApplyScript
  /\ UNCHANGED <<alive, files, service, errors>>

\* What the service runs when it is started from these files.
Started(content) ==
  IF content = original THEN "old"
  ELSE IF \A l \in Leaves : content[l] = "new" THEN "new" ELSE "other"

Execute(command) ==
  /\ running' = (CASE command = "restart" -> Started(disk)
                   [] command = "stop" -> "none"
                   [] OTHER -> running)
  /\ enabled' = (CASE command = "enable" -> TRUE
                   [] command = "disable" -> FALSE
                   [] OTHER -> enabled)
  /\ served' = IF command = "nginx-reload" THEN disk[SiteFile] ELSE served

\* A command that fails; a service that does not come up again is stopped.
Misfire(command) ==
  /\ running' \in {running} \cup (IF command = "restart" /\ alive THEN {"none"} ELSE {})
  /\ UNCHANGED <<enabled, served>>

\* Commands run under ctx: once it is done they all fail.
ApplyCommand ==
  /\ phase = "apply"
  /\ alive
  /\ script # <<>>
  /\ Execute(Head(script))
  /\ script' = Tail(script)
  /\ UNCHANGED <<phase, alive, files, errors>>

ApplyFails ==
  /\ phase = "apply"
  /\ script # <<>>
  /\ phase' = "restore"
  /\ pending' = Captured
  /\ script' = <<>>
  /\ \/ Misfire(Head(script))
     \/ alive /\ running' = "none" /\ UNCHANGED <<enabled, served>>
  /\ UNCHANGED <<alive, original, disk, backups, done, errors>>

Complete ==
  /\ phase = "apply"
  /\ script = <<>>
  /\ phase' = "completed"
  /\ UNCHANGED <<alive, files, script, service, errors>>

\* Restore goes over the backups in the random order of a map.
Restore(t) ==
  /\ phase = "restore"
  /\ t \in pending
  /\ disk' = Overwrite(t, backups[t])
  /\ pending' = pending \ {t}
  /\ UNCHANGED <<phase, alive, original, backups, done, script, service, errors>>

RestoreFails(t) ==
  /\ DiskFaults
  /\ phase = "restore"
  /\ t \in pending
  /\ disk' \in Damaged(t)
  /\ pending' = pending \ {t}
  /\ ioError' = TRUE
  /\ UNCHANGED <<phase, alive, original, backups, done, script, service, commandError>>

Restored ==
  /\ phase = "restore"
  /\ pending = {}
  /\ phase' = "rollback"
  /\ script' = RollbackScript
  /\ UNCHANGED <<alive, files, service, errors>>

RollbackCommand ==
  /\ phase = "rollback"
  /\ alive
  /\ script # <<>>
  /\ Execute(Head(script))
  /\ script' = Tail(script)
  /\ UNCHANGED <<phase, alive, files, errors>>

\* Errors are collected, those of stop and disable ignored; nginx is reloaded
\* only when its configuration passed the test.
RollbackCommandFails ==
  /\ phase = "rollback"
  /\ script # <<>>
  /\ Misfire(Head(script))
  /\ commandError' = (commandError \/ Head(script) \notin {"stop", "disable"})
  /\ script' = IF Head(script) = "nginx-test" THEN <<>> ELSE Tail(script)
  /\ UNCHANGED <<phase, alive, files, ioError>>

Fail ==
  /\ phase = "rollback"
  /\ script = <<>>
  /\ phase' = "failed"
  /\ UNCHANGED <<alive, files, script, service, errors>>

\* The client goes away, the deadline passes or the agent shuts down.
Cancel ==
  /\ alive
  /\ phase \notin {"completed", "failed"}
  /\ alive' = FALSE
  /\ UNCHANGED <<phase, files, script, service, errors>>

Next ==
  \/ Prepare \/ PrepareFails
  \/ \E t \in Targets : Capture(t) \/ Write(t) \/ Restore(t) \/ RestoreFails(t)
  \/ WriteFails
  \/ Apply \/ ApplyCommand \/ ApplyFails \/ Complete
  \/ Restored \/ RollbackCommand \/ RollbackCommandFails \/ Fail
  \/ Cancel

Spec == Init /\ [][Next]_vars

-----------------------------------------------------------------------------
\* Types of installRollback, of the files and of what systemd and nginx hold.
TypeOK ==
  /\ phase \in {"prepare", "write", "apply", "restore", "rollback", "completed", "failed"}
  /\ alive \in BOOLEAN
  /\ original \in [Leaves -> {"none", "old"}]
  /\ disk \in [Leaves -> Contents]
  /\ \A t \in Targets : backups[t] = Uncaptured \/ backups[t] \in [Covers[t] -> Contents]
  /\ done \subseteq Captured /\ pending \subseteq Captured
  /\ running \in {"none", "old", "new", "other"} /\ enabled \in BOOLEAN
  /\ served \in Contents
  /\ ioError \in BOOLEAN /\ commandError \in BOOLEAN

\* Wherever the install fails, also with ctx done, the rollback leaves every
\* file as it was, or reports that it could not; in whatever order it restores.
FilesRestored == phase = "failed" /\ ~ioError => disk = original

\* A failed install whose rollback reports no error leaves the old release
\* running and enabled, once the unit file had been captured, and nginx with the
\* site it had before, although nginx is reloaded only when its test passes.
OldReleaseRuns ==
  phase = "failed" /\ ~ioError /\ ~commandError =>
    /\ UnitExisted => running = "old" /\ enabled
    /\ NginxEnabled => served = original[SiteFile]

\* An install that completes has all its files in place, and the service and
\* nginx work with them.
CompletedIsInstalled ==
  phase = "completed" =>
    /\ \A l \in Leaves : disk[l] = "new"
    /\ running = "new" /\ enabled
    /\ NginxEnabled => served = "new"
=============================================================================
