-------------------------- MODULE InstallEngineProofs --------------------------
(***************************************************************************)
(* InstallEngine, for every set of files and targets: the rollback puts    *)
(* every file back and the old release to work, if no path covers a file   *)
(* of another one, and an install that completes has replaced all files,   *)
(* the service and the site.                                               *)
(***************************************************************************)
EXTENDS InstallEngine, TLAPS

\* No target lies inside another one, as for the paths of one module.
Disjoint ==
  \A s, t \in Targets : s # t => Covers[s] \cap Covers[t] = {}

\* A backup holds what the host had before the install, ...
BackupsTruthful ==
  \A t \in Captured : backups[t] = [l \in Covers[t] |-> original[l]]

\* ... what no backup covers was not touched, ...
OthersUntouched ==
  \A l \in Leaves : (\A t \in Captured : l \notin Covers[t]) => disk[l] = original[l]

\* ... and a target that was restored without an error stays so.
RestoredStays ==
  phase = "restore" /\ ~ioError =>
    \A t \in Captured \ pending : \A l \in Covers[t] : disk[l] = original[l]

FilesInv ==
  /\ original \in [Leaves -> {"none", "old"}]
  /\ disk \in [Leaves -> Contents]
  /\ backups = [t \in Targets |-> backups[t]]
  /\ BackupsTruthful
  /\ OthersUntouched
  /\ RestoredStays
  /\ pending \subseteq Captured
  /\ phase = "prepare" => Captured = {}
  /\ phase \in {"rollback", "failed"} /\ ~ioError => disk = original

LEMMA CoversLeaves == \A t \in Targets : Covers[t] \subseteq Leaves
BY TargetsAssumption

LEMMA FilesInit == Init => FilesInv
<1> SUFFICES ASSUME Init PROVE FilesInv
  OBVIOUS
<1>1. original \in [Leaves -> {"none", "old"}] /\ disk = original
  BY DEF Init
<1>2. backups = [t \in Targets |-> Uncaptured] /\ phase = "prepare" /\ pending = {}
  BY DEF Init
<1>3. Captured = {}
  BY <1>2 DEF Captured
<1> QED
  BY <1>1, <1>2, <1>3 DEF FilesInv, BackupsTruthful, OthersUntouched, RestoredStays, Contents

\* A step that changes no file and no backup, and does not enter a phase about
\* which FilesInv says something.
LEMMA FilesUnchanged ==
  ASSUME FilesInv, UNCHANGED <<original, disk, backups>>,
         pending' = pending \/ pending' = Captured,
         \/ phase' = phase /\ ioError' = ioError /\ pending' = pending
         \/ phase' \in {"write", "apply", "completed"}
         \/ phase' = "restore" /\ pending' = Captured
         \/ phase' = "failed" /\ Captured = {}
         \/ phase = "rollback" /\ phase' = "failed" /\ ioError' = ioError
  PROVE  FilesInv'
<1>1. Captured' = Captured
  BY DEF Captured
<1>2. disk = original \/ Captured # {}
  BY DEF FilesInv, OthersUntouched
<1> QED
  BY <1>1, <1>2 DEF FilesInv, BackupsTruthful, OthersUntouched, RestoredStays

LEMMA CaptureFiles ==
  ASSUME Disjoint, FilesInv, NEW t \in Targets, Capture(t)
  PROVE  FilesInv'
<1>1. /\ phase = "write" /\ phase' = phase /\ ioError' = ioError /\ pending' = pending
      /\ UNCHANGED <<original, disk>> /\ t \notin Captured
      /\ backups' = [backups EXCEPT ![t] = [l \in Covers[t] |-> disk[l]]]
  BY DEF Capture, Reached, errors
<1>2. backups' = [s \in Targets |-> backups'[s]] /\ Captured \subseteq Captured'
  BY <1>1 DEF FilesInv, Captured
<1>3. \A s \in Captured' : (s \in Captured /\ backups'[s] = backups[s]) \/ s = t
  BY <1>1 DEF FilesInv, Captured
<1>4. \A l \in Covers[t] : disk[l] = original[l]
  BY <1>1, CoversLeaves DEF FilesInv, OthersUntouched, Disjoint, Captured
<1>5. backups'[t] = [l \in Covers[t] |-> original[l]]
  BY <1>1, <1>4 DEF FilesInv
<1>6. BackupsTruthful'
  BY <1>1, <1>3, <1>5 DEF FilesInv, BackupsTruthful
<1>7. OthersUntouched'
  BY <1>1, <1>2 DEF FilesInv, OthersUntouched
<1> QED BY <1>1, <1>2, <1>6, <1>7 DEF FilesInv, RestoredStays

\* What writes or damages a captured target leaves all other files alone.
LEMMA OverwriteFiles ==
  ASSUME Disjoint, FilesInv, NEW t \in Captured,
         NEW content \in [Covers[t] -> Contents],
         disk' = Overwrite(t, content), UNCHANGED <<original, backups>>
  PROVE  /\ Captured' = Captured /\ disk' \in [Leaves -> Contents]
         /\ BackupsTruthful' /\ OthersUntouched'
         /\ \A s \in Captured \ {t} : \A l \in Covers[s] : disk'[l] = disk[l]
         /\ \A l \in Covers[t] : disk'[l] = content[l]
<1>1. Captured' = Captured
  BY DEF Captured
<1>2. t \in Targets /\ Captured \subseteq Targets
  BY DEF Captured
<1>3. /\ disk' \in [Leaves -> Contents]
      /\ \A l \in Leaves : disk'[l] = IF l \in Covers[t] THEN content[l] ELSE disk[l]
  BY DEF FilesInv, Overwrite
<1>4. BackupsTruthful'
  BY <1>1 DEF FilesInv, BackupsTruthful
<1>5. OthersUntouched'
  BY <1>1, <1>3 DEF FilesInv, OthersUntouched
<1>6. \A s \in Captured \ {t} : \A l \in Covers[s] : disk'[l] = disk[l]
  BY <1>2, <1>3, CoversLeaves DEF Disjoint
<1>7. \A l \in Covers[t] : disk'[l] = content[l]
  BY <1>2, <1>3, CoversLeaves
<1> QED BY <1>1, <1>3, <1>4, <1>5, <1>6, <1>7

LEMMA WriteFiles ==
  ASSUME Disjoint, FilesInv, NEW t \in Targets, Write(t)
  PROVE  FilesInv'
<1>1. /\ phase = "write" /\ phase' = phase /\ pending' = pending /\ t \in Captured
      /\ disk' = Overwrite(t, [l \in Covers[t] |-> "new"])
      /\ UNCHANGED <<original, backups>>
  BY DEF Write, MayWrite, Reached
<1>2. [l \in Covers[t] |-> "new"] \in [Covers[t] -> Contents]
  BY DEF Contents
<1> QED BY <1>1, <1>2, OverwriteFiles DEF FilesInv, RestoredStays

\* Damage to a captured target, or none at all.
LEMMA DamagedFiles ==
  ASSUME Disjoint, FilesInv, NEW t \in Captured, disk' \in Damaged(t),
         UNCHANGED <<original, backups>>
  PROVE  /\ Captured' = Captured /\ disk' \in [Leaves -> Contents]
         /\ BackupsTruthful' /\ OthersUntouched'
<1>1. CASE disk' = disk
  <2>1. Captured' = Captured
    BY DEF Captured
  <2> QED BY <1>1, <2>1 DEF FilesInv, BackupsTruthful, OthersUntouched
<1>2. CASE disk' # disk
  <2>1. PICK content \in [Covers[t] -> {"none", "partial"}] : disk' = Overwrite(t, content)
    BY <1>2 DEF Damaged
  <2>2. content \in [Covers[t] -> Contents]
    BY DEF Contents
  <2> QED BY <2>1, <2>2, OverwriteFiles
<1> QED BY <1>1, <1>2

LEMMA WriteFailsFiles ==
  ASSUME Disjoint, FilesInv, WriteFails
  PROVE  FilesInv'
<1>1. UNCHANGED <<original, backups>> /\ phase = "write"
  BY DEF WriteFails, Reached, MayWrite
<1>2. \/ phase' = "failed" /\ Captured = {} /\ pending' = pending
      \/ phase' = "restore" /\ pending' = Captured
  BY DEF WriteFails, StartRollback
<1>3. CASE disk' = disk
  BY <1>1, <1>2, <1>3, FilesUnchanged
<1>4. CASE disk' # disk
  <2>1. PICK t \in Targets : MayWrite(t) /\ disk' \in Damaged(t)
    BY <1>4 DEF WriteFails
  <2>2. t \in Captured
    BY <2>1 DEF MayWrite
  <2>3. phase' = "restore" /\ pending' = Captured
    BY <1>2, <2>2
  <2> QED BY <1>1, <2>1, <2>2, <2>3, DamagedFiles DEF FilesInv, RestoredStays
<1> QED BY <1>3, <1>4

LEMMA RestoreFiles ==
  ASSUME Disjoint, FilesInv, NEW t \in Targets, Restore(t)
  PROVE  FilesInv'
<1>1. /\ phase = "restore" /\ phase' = phase /\ ioError' = ioError /\ t \in Captured
      /\ disk' = Overwrite(t, backups[t]) /\ pending' = pending \ {t}
      /\ UNCHANGED <<original, backups>>
  BY DEF Restore, errors, FilesInv
<1>2. backups[t] = [l \in Covers[t] |-> original[l]]
  BY <1>1 DEF FilesInv, BackupsTruthful
<1>3. backups[t] \in [Covers[t] -> Contents]
  BY <1>2, CoversLeaves DEF FilesInv, Contents
<1>4. /\ Captured' = Captured /\ disk' \in [Leaves -> Contents]
      /\ BackupsTruthful' /\ OthersUntouched'
      /\ \A s \in Captured \ {t} : \A l \in Covers[s] : disk'[l] = disk[l]
      /\ \A l \in Covers[t] : disk'[l] = original[l]
  BY <1>1, <1>2, <1>3, OverwriteFiles
<1>5. RestoredStays'
  BY <1>1, <1>4 DEF FilesInv, RestoredStays
<1> QED BY <1>1, <1>4, <1>5 DEF FilesInv

LEMMA RestoredFiles ==
  ASSUME FilesInv, Restored
  PROVE  FilesInv'
<1>1. /\ phase = "restore" /\ phase' = "rollback" /\ pending = {} /\ pending' = pending
      /\ ioError' = ioError
      /\ UNCHANGED <<original, disk, backups>>
  BY DEF Restored, files, errors
<1>2. Captured' = Captured
  BY <1>1 DEF Captured
<1>3. ~ioError => disk = original
  BY <1>1 DEF FilesInv, RestoredStays, OthersUntouched
<1> QED BY <1>1, <1>2, <1>3 DEF FilesInv, BackupsTruthful, OthersUntouched, RestoredStays

LEMMA RestoreFailsFiles ==
  ASSUME Disjoint, FilesInv, NEW t \in Targets, RestoreFails(t)
  PROVE  FilesInv'
<1>1. /\ phase = "restore" /\ phase' = phase /\ ioError' = TRUE /\ t \in Captured
      /\ disk' \in Damaged(t) /\ pending' \subseteq pending
      /\ UNCHANGED <<original, backups>>
  BY DEF RestoreFails, FilesInv
<1>2. /\ Captured' = Captured /\ disk' \in [Leaves -> Contents]
      /\ BackupsTruthful' /\ OthersUntouched'
  BY <1>1, DamagedFiles
<1> QED BY <1>1, <1>2 DEF FilesInv, RestoredStays

LEMMA FilesStep == Disjoint /\ FilesInv /\ [Next]_vars => FilesInv'
<1> SUFFICES ASSUME Disjoint, FilesInv, [Next]_vars PROVE FilesInv'
  OBVIOUS
<1> DEFINE Same == UNCHANGED <<original, disk, backups>>
<1> USE DEF files, errors
<1>1. CASE Prepare
  <2>1. phase' = "write" /\ pending' = pending /\ Same
    BY <1>1 DEF Prepare
  <2> QED BY <2>1, FilesUnchanged
<1>2. CASE PrepareFails
  <2>1. Captured = {} /\ Same /\ phase' = "failed" /\ pending' = pending
    BY <1>2 DEF PrepareFails, FilesInv, StartRollback
  <2> QED BY <2>1, FilesUnchanged
<1>3. ASSUME NEW t \in Targets, Capture(t) PROVE FilesInv'
  BY <1>3, CaptureFiles
<1>4. ASSUME NEW t \in Targets, Write(t) PROVE FilesInv'
  BY <1>4, WriteFiles
<1>5. ASSUME NEW t \in Targets, Restore(t) PROVE FilesInv'
  BY <1>5, RestoreFiles
<1>6. ASSUME NEW t \in Targets, RestoreFails(t) PROVE FilesInv'
  BY <1>6, RestoreFailsFiles
<1>7. CASE WriteFails
  BY <1>7, WriteFailsFiles
<1>8. CASE Apply
  <2>1. phase' = "apply" /\ pending' = pending /\ Same
    BY <1>8 DEF Apply
  <2> QED BY <2>1, FilesUnchanged
<1>9. CASE ApplyCommand \/ RollbackCommand \/ Cancel
  <2>1. phase' = phase /\ pending' = pending /\ ioError' = ioError /\ Same
    BY <1>9 DEF ApplyCommand, RollbackCommand, Cancel
  <2> QED BY <2>1, FilesUnchanged
<1>10. CASE ApplyFails
  <2>1. phase' = "restore" /\ pending' = Captured /\ Same
    BY <1>10 DEF ApplyFails
  <2> QED BY <2>1, FilesUnchanged
<1>11. CASE Complete
  <2>1. phase' = "completed" /\ pending' = pending /\ Same
    BY <1>11 DEF Complete
  <2> QED BY <2>1, FilesUnchanged
<1>12. CASE Restored
  BY <1>12, RestoredFiles
<1>13. CASE RollbackCommandFails
  <2>1. phase' = phase /\ pending' = pending /\ ioError' = ioError /\ Same
    BY <1>13 DEF RollbackCommandFails
  <2> QED BY <2>1, FilesUnchanged
<1>14. CASE Fail
  <2>1. /\ phase = "rollback" /\ phase' = "failed" /\ pending' = pending
        /\ ioError' = ioError /\ Same
    BY <1>14 DEF Fail
  <2> QED BY <2>1, FilesUnchanged
<1>15. CASE UNCHANGED vars
  <2>1. phase' = phase /\ pending' = pending /\ ioError' = ioError /\ Same
    BY <1>15 DEF vars
  <2> QED BY <2>1, FilesUnchanged
<1> QED
  BY <1>1, <1>2, <1>3, <1>4, <1>5, <1>6, <1>7, <1>8, <1>9, <1>10, <1>11, <1>12,
     <1>13, <1>14, <1>15 DEF Next

\* Wherever the install fails, and in whatever order the rollback restores, it
\* leaves every file as it was, or reports that it could not (rollback.go), when
\* no target lies inside another one.
THEOREM EngineFilesRestored ==
  ASSUME Disjoint
  PROVE  Spec => []FilesRestored
<1>1. FilesInv => FilesRestored
  BY DEF FilesInv, FilesRestored
<1> QED BY <1>1, FilesInit, FilesStep, PTL DEF Spec
-----------------------------------------------------------------------------
Commands ==
  {"daemon-reload", "enable", "restart", "nginx-test", "nginx-reload", "healthcheck"}

LEMMA ApplyScriptWithNginx ==
  NginxEnabled =>
    /\ ApplyScript \in Seq(Commands) /\ Len(ApplyScript) = 6
    /\ ApplyScript[1] = "daemon-reload" /\ ApplyScript[2] = "enable"
    /\ ApplyScript[3] = "restart" /\ ApplyScript[4] = "nginx-test"
    /\ ApplyScript[5] = "nginx-reload" /\ ApplyScript[6] = "healthcheck"
BY DEF ApplyScript, Commands

LEMMA ApplyScriptWithoutNginx ==
  ~NginxEnabled =>
    /\ ApplyScript \in Seq(Commands) /\ Len(ApplyScript) = 4
    /\ ApplyScript[1] = "daemon-reload" /\ ApplyScript[2] = "enable"
    /\ ApplyScript[3] = "restart" /\ ApplyScript[4] = "healthcheck"
BY DEF ApplyScript, Commands

\* The first k commands of ApplyScript have been run.
Ran(k) == Len(script) <= Len(ApplyScript) - k

\* What is left to run is the end of ApplyScript, and what was run has had its
\* effect.
ScriptInv ==
  phase = "apply" =>
    /\ script \in Seq(Commands)
    /\ Len(script) <= Len(ApplyScript)
    /\ \A i \in 1 .. Len(script) :
         script[i] = ApplyScript[Len(ApplyScript) - Len(script) + i]
    /\ Ran(2) => enabled = TRUE
    /\ Ran(3) => running = "new"
    /\ NginxEnabled /\ Ran(5) => served = "new"

WrittenInv ==
  /\ done \subseteq Targets
  /\ phase \in {"write", "apply", "completed"} =>
       \A t \in done : \A l \in Covers[t] : disk[l] = "new"
  /\ phase \in {"apply", "completed"} => done = Targets
  /\ phase = "prepare" => done = {}

CompletedInv ==
  phase = "completed" =>
    running = "new" /\ enabled = TRUE /\ (NginxEnabled => served = "new")

ApplyInv == WrittenInv /\ ScriptInv /\ CompletedInv

LEMMA ApplyInit == Init => ApplyInv
BY DEF Init, ApplyInv, WrittenInv, ScriptInv, CompletedInv

LEMMA AllNew ==
  ASSUME FilesInv, ApplyInv, phase \in {"apply", "completed"}
  PROVE  (\A l \in Leaves : disk[l] = "new") /\ Started(disk) = "new"
<1>1. \A l \in Leaves : disk[l] = "new"
  BY TargetsAssumption DEF ApplyInv, WrittenInv
<1>2. disk # original
  BY <1>1, TargetsAssumption DEF FilesInv
<1> QED BY <1>1, <1>2 DEF Started

\* The command at the head of the script, and the effect of running it.
LEMMA ApplyCommandScript ==
  ASSUME FilesInv, ApplyInv, ApplyCommand
  PROVE  ScriptInv'
<1> DEFINE n == Len(ApplyScript)
           k == n - Len(script) + 1
<1>1. /\ phase = "apply" /\ script # <<>> /\ script' = Tail(script)
      /\ Execute(Head(script)) /\ UNCHANGED disk
  BY DEF ApplyCommand, files
<1>2. /\ script \in Seq(Commands) /\ Len(script) <= n
      /\ \A i \in 1 .. Len(script) : script[i] = ApplyScript[n - Len(script) + i]
  BY <1>1 DEF ApplyInv, ScriptInv
<1>3. /\ script' \in Seq(Commands) /\ Len(script') = Len(script) - 1
      /\ \A i \in 1 .. Len(script') : script'[i] = script[i + 1]
      /\ Head(script) = script[1] /\ Len(script) \in Nat \ {0}
  BY <1>1, <1>2
<1>4. /\ ApplyScript \in Seq(Commands) /\ n \in Nat /\ (n = 4 \/ n = 6)
      /\ NginxEnabled => n = 6
  BY ApplyScriptWithNginx, ApplyScriptWithoutNginx
<1>5. k \in 1 .. n /\ Head(script) = ApplyScript[k]
  BY <1>2, <1>3, <1>4
<1>6. \A j \in 1 .. 6 : Ran(j)' <=> j <= k
  BY <1>3, <1>4, <1>5 DEF Ran, ApplyScript, NginxEnabled
<1>7. \A j \in 1 .. 6 : Ran(j) <=> j < k
  BY <1>2, <1>3, <1>4, <1>5 DEF Ran
<1>8. /\ ApplyScript[k] = "enable" <=> k = 2
      /\ ApplyScript[k] = "restart" <=> k = 3
      /\ NginxEnabled => (ApplyScript[k] = "nginx-reload" <=> k = 5)
      /\ ~NginxEnabled => ApplyScript[k] # "nginx-reload"
      /\ ApplyScript[k] \notin {"stop", "disable"}
  <2>1. CASE NginxEnabled
    <3>1. k \in 1 .. 6
      BY <1>4, <1>5, <2>1
    <3> HIDE DEF k
    <3> QED BY <2>1, <3>1, ApplyScriptWithNginx
  <2>2. CASE ~NginxEnabled
    <3>1. k \in 1 .. 4
      BY <1>5, <2>2, ApplyScriptWithoutNginx
    <3> HIDE DEF k
    <3> QED BY <2>2, <3>1, ApplyScriptWithoutNginx
  <2> QED BY <2>1, <2>2
<1>9. script' \in Seq(Commands) /\ Len(script') <= Len(ApplyScript)'
  BY <1>2, <1>3, <1>4 DEF ApplyScript, NginxEnabled
<1>10. \A i \in 1 .. Len(script') :
         script'[i] = (ApplyScript[Len(ApplyScript) - Len(script) + i])'
  BY <1>2, <1>3, <1>4 DEF ApplyScript, NginxEnabled
<1>11. Ran(2)' => enabled' = TRUE
  BY <1>1, <1>5, <1>6, <1>7, <1>8 DEF Execute, ApplyInv, ScriptInv
<1>12. Ran(3)' => running' = "new"
  <2>1. CASE k = 3
    <3>1. Head(script) = "restart" /\ Started(disk) = "new"
      BY <1>1, <1>5, <1>8, <2>1, AllNew
    <3> QED BY <1>1, <3>1 DEF Execute
  <2>2. CASE k > 3
    <3>1. Head(script) # "restart" /\ Head(script) # "stop"
      BY <1>5, <1>8, <2>2
    <3>2. running = "new"
      BY <1>1, <1>7, <2>2 DEF ApplyInv, ScriptInv
    <3> QED BY <1>1, <3>1, <3>2 DEF Execute
  <2> QED BY <1>5, <1>6, <2>1, <2>2
<1>13. NginxEnabled /\ Ran(5)' => served' = "new"
  <2> SUFFICES ASSUME NginxEnabled PROVE Ran(5)' => served' = "new"
    OBVIOUS
  <2>1. CASE k = 5
    <3>1. Head(script) = "nginx-reload" /\ disk[SiteFile] = "new"
      BY <1>1, <1>5, <1>8, <2>1, AllNew DEF NginxEnabled
    <3> QED BY <1>1, <3>1 DEF Execute
  <2>2. CASE k > 5
    <3>1. Head(script) # "nginx-reload"
      BY <1>5, <1>8, <2>2
    <3>2. served = "new"
      BY <1>1, <1>7, <2>2 DEF ApplyInv, ScriptInv
    <3> QED BY <1>1, <3>1, <3>2 DEF Execute
  <2> QED BY <1>5, <1>6, <2>1, <2>2
<1> QED
  BY <1>9, <1>10, <1>11, <1>12, <1>13 DEF ScriptInv, NginxEnabled

\* A step that leaves the files, the service and the rest of the script alone.
LEMMA ApplyUnchanged ==
  ASSUME ApplyInv, UNCHANGED <<disk, done, script, service>>,
         phase' = phase \/ phase' \in {"restore", "rollback", "failed"}
  PROVE  ApplyInv'
BY DEF ApplyInv, WrittenInv, ScriptInv, CompletedInv, Ran, ApplyScript, NginxEnabled, service

\* A step of the rollback.
LEMMA RollbackApply ==
  ASSUME phase' \in {"restore", "rollback", "failed"}, done' \subseteq Targets
  PROVE  ApplyInv'
BY DEF ApplyInv, WrittenInv, ScriptInv, CompletedInv

LEMMA WriteApply ==
  ASSUME FilesInv, ApplyInv, NEW t \in Targets, Write(t)
  PROVE  ApplyInv'
<1>1. /\ phase = "write" /\ phase' = phase /\ done' = done \cup {t}
      /\ disk' = Overwrite(t, [l \in Covers[t] |-> "new"])
  BY DEF Write, MayWrite, Reached
<1>2. \A l \in Leaves : disk'[l] = IF l \in Covers[t] THEN "new" ELSE disk[l]
  BY <1>1 DEF Overwrite
<1> QED BY <1>1, <1>2, CoversLeaves DEF ApplyInv, WrittenInv, ScriptInv, CompletedInv

LEMMA ApplyStep == FilesInv /\ ApplyInv /\ [Next]_vars => ApplyInv'
<1> SUFFICES ASSUME FilesInv, ApplyInv, [Next]_vars PROVE ApplyInv'
  OBVIOUS
<1> USE DEF files
<1>1. CASE Prepare
  BY <1>1 DEF Prepare, ApplyInv, WrittenInv, ScriptInv, CompletedInv
<1>2. CASE PrepareFails \/ WriteFails \/ ApplyFails \/ Restored \/ Fail
  <2>1. phase' \in {"restore", "rollback", "failed"} /\ done' = done
    BY <1>2 DEF PrepareFails, WriteFails, ApplyFails, Restored, Fail, StartRollback
  <2> QED BY <2>1, RollbackApply DEF ApplyInv, WrittenInv
<1>3. ASSUME NEW t \in Targets, Capture(t) PROVE ApplyInv'
  <2>1. phase' = phase /\ UNCHANGED <<disk, done, script, service>>
    BY <1>3 DEF Capture
  <2> QED BY <2>1, ApplyUnchanged
<1>4. ASSUME NEW t \in Targets, Write(t) PROVE ApplyInv'
  BY <1>4, WriteApply
<1>5. ASSUME NEW t \in Targets, Restore(t) \/ RestoreFails(t) PROVE ApplyInv'
  <2>1. phase' = "restore" /\ done' = done
    BY <1>5 DEF Restore, RestoreFails
  <2> QED BY <2>1, RollbackApply DEF ApplyInv, WrittenInv
<1>6. CASE Apply
  <2>1. /\ phase = "write" /\ phase' = "apply" /\ done = Targets
        /\ script' = ApplyScript /\ UNCHANGED <<disk, done>>
    BY <1>6 DEF Apply
  <2>2. ApplyScript' = ApplyScript
    BY DEF ApplyScript, NginxEnabled
  <2>3. ScriptInv'
    <3>1. Len(ApplyScript) \in Nat /\ ApplyScript \in Seq(Commands)
      BY ApplyScriptWithNginx, ApplyScriptWithoutNginx
    <3>2. ~Ran(2)' /\ ~Ran(3)' /\ ~Ran(5)'
      BY <2>1, <2>2, <3>1 DEF Ran
    <3> QED BY <2>1, <2>2, <3>1, <3>2 DEF ScriptInv
  <2> QED BY <2>1, <2>3 DEF ApplyInv, WrittenInv, CompletedInv
<1>7. CASE ApplyCommand
  <2>1. phase = "apply" /\ phase' = phase /\ UNCHANGED <<disk, done>>
    BY <1>7 DEF ApplyCommand
  <2> QED BY <1>7, <2>1, ApplyCommandScript DEF ApplyInv, WrittenInv, CompletedInv
<1>8. CASE Complete
  <2>1. /\ phase = "apply" /\ script = <<>> /\ phase' = "completed"
        /\ UNCHANGED <<disk, done, running, enabled, served>>
    BY <1>8 DEF Complete, service
  <2>2. Ran(2) /\ Ran(3) /\ (NginxEnabled => Ran(5))
    BY <2>1, ApplyScriptWithNginx, ApplyScriptWithoutNginx DEF Ran
  <2>3. running = "new" /\ enabled = TRUE /\ (NginxEnabled => served = "new")
    BY <2>1, <2>2 DEF ApplyInv, ScriptInv
  <2>4. CompletedInv'
    BY <2>1, <2>3 DEF CompletedInv, NginxEnabled
  <2> QED BY <2>1, <2>4 DEF ApplyInv, WrittenInv, ScriptInv
<1>9. CASE RollbackCommand \/ RollbackCommandFails
  <2>1. phase' = "rollback" /\ done' = done
    BY <1>9 DEF RollbackCommand, RollbackCommandFails
  <2> QED BY <2>1, RollbackApply DEF ApplyInv, WrittenInv
<1>10. CASE Cancel
  <2>1. phase' = phase /\ UNCHANGED <<disk, done, script, service>>
    BY <1>10 DEF Cancel
  <2> QED BY <2>1, ApplyUnchanged
<1>11. CASE UNCHANGED vars
  <2>1. phase' = phase /\ UNCHANGED <<disk, done, script, service>>
    BY <1>11 DEF vars
  <2> QED BY <2>1, ApplyUnchanged
<1> QED
  BY <1>1, <1>2, <1>3, <1>4, <1>5, <1>6, <1>7, <1>8, <1>9, <1>10, <1>11 DEF Next

\* An install that completes has all its files in place, and the service and
\* nginx work with them: no command of InstallModule is left out and none runs
\* before all files are written.
THEOREM EngineCompletedIsInstalled ==
  ASSUME Disjoint
  PROVE  Spec => []CompletedIsInstalled
<1>1. FilesInv /\ ApplyInv => CompletedIsInstalled
  BY AllNew DEF ApplyInv, CompletedInv, CompletedIsInstalled
<1>2. FilesInv /\ ApplyInv /\ [Next]_vars => FilesInv' /\ ApplyInv'
  BY FilesStep, ApplyStep
<1> QED BY <1>1, <1>2, FilesInit, ApplyInit, PTL DEF Spec

-----------------------------------------------------------------------------
RollbackCommands ==
  {"daemon-reload", "enable", "restart", "stop", "disable", "nginx-test", "nginx-reload"}
RollbackLength == IF NginxEnabled THEN 5 ELSE 3

LEMMA RollbackScriptShape ==
  /\ RollbackScript \in Seq(RollbackCommands) /\ Len(RollbackScript) = RollbackLength
  /\ RollbackScript[1] = "daemon-reload"
  /\ UnitExisted => RollbackScript[2] = "enable" /\ RollbackScript[3] = "restart"
  /\ ~UnitExisted => RollbackScript[2] = "stop" /\ RollbackScript[3] = "disable"
  /\ NginxEnabled => RollbackScript[4] = "nginx-test" /\ RollbackScript[5] = "nginx-reload"
<1>1. CASE UnitExisted /\ NginxEnabled
  BY <1>1 DEF RollbackScript, RollbackCommands, RollbackLength
<1>2. CASE UnitExisted /\ ~NginxEnabled
  BY <1>2 DEF RollbackScript, RollbackCommands, RollbackLength
<1>3. CASE ~UnitExisted /\ NginxEnabled
  BY <1>3 DEF RollbackScript, RollbackCommands, RollbackLength
<1>4. CASE ~UnitExisted /\ ~NginxEnabled
  BY <1>4 DEF RollbackScript, RollbackCommands, RollbackLength
<1> QED BY <1>1, <1>2, <1>3, <1>4

\* The first k commands of RollbackScript have been run.
Undid(k) == Len(script) <= RollbackLength - k

\* What the first commands of the rollback have brought back.
BroughtBack ==
  /\ UnitExisted /\ Undid(2) => enabled = TRUE
  /\ UnitExisted /\ Undid(3) => running = "old"
  /\ NginxEnabled /\ Undid(5) => served = original[SiteFile]

RollbackInv ==
  /\ phase \in {"prepare", "write"} /\ NginxEnabled => served = original[SiteFile]
  /\ phase = "rollback" /\ ~ioError /\ ~commandError =>
       /\ script \in Seq(RollbackCommands)
       /\ Len(script) <= RollbackLength
       /\ \A i \in 1 .. Len(script) :
            script[i] = RollbackScript[RollbackLength - Len(script) + i]
       /\ BroughtBack
  /\ phase = "failed" /\ ~ioError /\ ~commandError =>
       /\ UnitExisted => running = "old" /\ enabled = TRUE
       /\ NginxEnabled => served = original[SiteFile]

LEMMA RollbackInit == Init => RollbackInv
BY DEF Init, RollbackInv

\* The backups alone tell whether the unit existed.
LEMMA ShapeUnchanged ==
  ASSUME backups' = backups
  PROVE  /\ Captured' = Captured /\ UnitExisted' = UnitExisted
         /\ RollbackScript' = RollbackScript /\ RollbackLength' = RollbackLength
         /\ NginxEnabled' = NginxEnabled
<1>1. Captured' = Captured
  BY DEF Captured
<1>2. UnitExisted' = UnitExisted
  BY <1>1 DEF UnitExisted, UnitTarget, Targets
<1> QED BY <1>1, <1>2 DEF RollbackScript, RollbackLength, NginxEnabled

\* One command of the rollback has been run, or failed without an error that
\* the rollback reports.
LEMMA RollbackCommandScript ==
  ASSUME FilesInv, RollbackInv, ~ioError, ~commandError,
         phase = "rollback", phase' = phase, script # <<>>, script' = Tail(script),
         UNCHANGED <<original, disk, backups>>,
         \/ Execute(Head(script))
         \/ Head(script) \in {"stop", "disable"} /\ UNCHANGED <<enabled, served>>
  PROVE  RollbackInv'
<1> DEFINE n == RollbackLength
           k == n - Len(script) + 1
<1>1. /\ script \in Seq(RollbackCommands) /\ Len(script) <= n
      /\ \A i \in 1 .. Len(script) : script[i] = RollbackScript[n - Len(script) + i]
      /\ BroughtBack
  BY DEF RollbackInv
<1>2. /\ script' \in Seq(RollbackCommands) /\ Len(script') = Len(script) - 1
      /\ \A i \in 1 .. Len(script') : script'[i] = script[i + 1]
      /\ Head(script) = script[1] /\ Len(script) \in Nat \ {0}
  BY <1>1
<1>3. n \in Nat /\ (n = 3 \/ n = 5) /\ (NginxEnabled <=> n = 5)
  BY DEF RollbackLength
<1>4. k \in 1 .. n /\ Head(script) = RollbackScript[k]
  BY <1>1, <1>2, <1>3
<1>5. (\A j \in 1 .. 5 : Undid(j)' <=> j <= k) /\ (\A j \in 1 .. 5 : Undid(j) <=> j < k)
  BY <1>1, <1>2, <1>3, <1>4, ShapeUnchanged DEF Undid
<1>6. /\ UnitExisted => (Head(script) = "enable" <=> k = 2)
      /\ UnitExisted => (Head(script) = "restart" <=> k = 3)
      /\ UnitExisted => Head(script) \notin {"stop", "disable"}
      /\ NginxEnabled => (Head(script) = "nginx-reload" <=> k = 5)
  <2>1. k \in 1 .. 5 /\ (k >= 4 => NginxEnabled) /\ Head(script) = RollbackScript[k]
    BY <1>3, <1>4
  <2> HIDE DEF k
  <2> QED BY <2>1, RollbackScriptShape
<1>7. /\ script' \in Seq(RollbackCommands) /\ Len(script') <= n
      /\ \A i \in 1 .. Len(script') : script'[i] = RollbackScript[n - Len(script') + i]
  BY <1>1, <1>2, <1>3
<1>8. disk = original /\ Started(disk) = "old"
  BY DEF FilesInv, Started
<1>9. UnitExisted /\ k >= 2 => enabled' = TRUE
  <2> SUFFICES ASSUME UnitExisted, k >= 2 PROVE enabled' = TRUE
    OBVIOUS
  <2>1. Execute(Head(script)) /\ Head(script) # "disable"
    BY <1>6
  <2>2. CASE k = 2
    BY <1>6, <2>1, <2>2 DEF Execute
  <2>3. CASE k > 2
    <3>1. enabled = TRUE
      BY <1>1, <1>3, <1>4, <1>5, <2>3 DEF BroughtBack
    <3>2. Head(script) # "enable"
      BY <1>6, <2>3
    <3>3. enabled' = enabled
      BY <2>1, <3>2 DEF Execute
    <3> QED BY <3>1, <3>3, Zenon
  <2>4. k = 2 \/ k > 2
    BY <1>3, <1>4
  <2> QED BY <2>2, <2>3, <2>4, Zenon
<1>10. UnitExisted /\ k >= 3 => running' = "old"
  <2> SUFFICES ASSUME UnitExisted, k >= 3 PROVE running' = "old"
    OBVIOUS
  <2>1. Execute(Head(script)) /\ Head(script) # "stop"
    BY <1>6
  <2>2. CASE k = 3
    BY <1>6, <1>8, <2>1, <2>2 DEF Execute
  <2>3. CASE k > 3
    <3>1. running = "old" /\ Head(script) # "restart"
      BY <1>1, <1>3, <1>4, <1>5, <1>6, <2>3 DEF BroughtBack
    <3> QED BY <2>1, <3>1 DEF Execute
  <2> QED BY <1>3, <1>4, <2>2, <2>3
<1>11. NginxEnabled /\ k >= 5 => served' = original[SiteFile]
  <2> SUFFICES ASSUME NginxEnabled, k >= 5 PROVE served' = original[SiteFile]
    OBVIOUS
  <2>1. k = 5 /\ Head(script) = "nginx-reload"
    BY <1>3, <1>4, <1>6
  <2> QED BY <1>8, <2>1 DEF Execute
<1>12. BroughtBack'
  BY <1>3, <1>4, <1>5, <1>9, <1>10, <1>11, ShapeUnchanged DEF BroughtBack
<1> QED BY <1>7, <1>12, ShapeUnchanged DEF RollbackInv

\* A step that concerns neither the service nor the rollback.
LEMMA RollbackUnchanged ==
  ASSUME RollbackInv, UNCHANGED <<original, script, service, ioError, commandError>>,
         \/ phase' = phase /\ backups' = backups
         \/ phase = "prepare" /\ phase' = "write"
         \/ phase = "write" /\ phase' = phase
  PROVE  RollbackInv'
<1>1. CASE backups' = backups /\ phase' = phase
  BY <1>1, ShapeUnchanged DEF RollbackInv, BroughtBack, Undid, service
<1>2. CASE phase' = "write" /\ phase \in {"prepare", "write"}
  BY <1>2 DEF RollbackInv, NginxEnabled, service
<1> QED BY <1>1, <1>2

LEMMA RollbackStep ==
  Disjoint /\ FilesInv /\ RollbackInv /\ [Next]_vars => RollbackInv'
<1> SUFFICES ASSUME Disjoint, FilesInv, RollbackInv, [Next]_vars PROVE RollbackInv'
  OBVIOUS
<1> DEFINE Same == UNCHANGED <<original, script, service, ioError, commandError>>
<1> USE DEF files, errors, service
<1>1. CASE Prepare
  <2>1. phase = "prepare" /\ phase' = "write" /\ Same
    BY <1>1 DEF Prepare
  <2> QED BY <2>1, RollbackUnchanged
<1>2. CASE PrepareFails \/ WriteFails
  <2>1. /\ phase \in {"prepare", "write"} /\ UNCHANGED <<original, backups, enabled, served>>
        /\ phase' = "restore" \/ (phase' = "failed" /\ Captured = {})
    BY <1>2 DEF PrepareFails, WriteFails, StartRollback, Reached, MayWrite
  <2>2. phase' = "failed" => ~UnitExisted'
    BY <2>1, ShapeUnchanged DEF UnitExisted
  <2>3. NginxEnabled => served' = original'[SiteFile]
    BY <2>1 DEF RollbackInv
  <2> QED BY <2>1, <2>2, <2>3 DEF RollbackInv, NginxEnabled
<1>3. ASSUME NEW t \in Targets, Capture(t) \/ Write(t) PROVE RollbackInv'
  <2>1. phase = "write" /\ phase' = phase /\ Same
    BY <1>3 DEF Capture, Write, Reached, MayWrite
  <2> QED BY <2>1, RollbackUnchanged
<1>4. ASSUME NEW t \in Targets, Restore(t) \/ RestoreFails(t) PROVE RollbackInv'
  <2>1. phase' = "restore"
    BY <1>4 DEF Restore, RestoreFails
  <2> QED BY <2>1 DEF RollbackInv
<1>5. CASE Apply \/ ApplyCommand \/ ApplyFails \/ Complete
  <2>1. phase' \in {"apply", "restore", "completed"}
    BY <1>5 DEF Apply, ApplyCommand, ApplyFails, Complete
  <2> QED BY <2>1 DEF RollbackInv
<1>6. CASE Restored
  <2>1. phase' = "rollback" /\ script' = RollbackScript /\ backups' = backups
    BY <1>6 DEF Restored
  <2>2. RollbackLength \in Nat /\ RollbackScript \in Seq(RollbackCommands)
    BY RollbackScriptShape DEF RollbackLength
  <2>3. ~Undid(2)' /\ ~Undid(3)' /\ ~Undid(5)'
    BY <2>1, <2>2, RollbackScriptShape, ShapeUnchanged DEF Undid
  <2> QED
    BY <2>1, <2>2, <2>3, RollbackScriptShape, ShapeUnchanged DEF RollbackInv, BroughtBack
<1>7. CASE RollbackCommand
  <2>1. /\ phase = "rollback" /\ phase' = phase /\ script # <<>> /\ script' = Tail(script)
        /\ UNCHANGED <<original, disk, backups, ioError, commandError>>
        /\ Execute(Head(script))
    BY <1>7 DEF RollbackCommand
  <2>2. CASE ~ioError /\ ~commandError
    BY <2>1, <2>2, RollbackCommandScript
  <2>3. CASE ioError \/ commandError
    BY <2>1, <2>3 DEF RollbackInv
  <2> QED BY <2>2, <2>3
<1>8. CASE RollbackCommandFails
  <2>1. /\ phase = "rollback" /\ phase' = phase /\ script # <<>>
        /\ UNCHANGED <<original, disk, backups, ioError, enabled, served>>
        /\ commandError' = (commandError \/ Head(script) \notin {"stop", "disable"})
        /\ Head(script) # "nginx-test" => script' = Tail(script)
    BY <1>8 DEF RollbackCommandFails, Misfire
  <2>2. CASE ~ioError /\ ~commandError /\ Head(script) \in {"stop", "disable"}
    BY <2>1, <2>2, RollbackCommandScript
  <2>3. CASE ioError \/ commandError \/ Head(script) \notin {"stop", "disable"}
    <3>1. ioError' \/ commandError'
      BY <2>1, <2>3
    <3> QED BY <2>1, <3>1 DEF RollbackInv
  <2> QED BY <2>2, <2>3
<1>9. CASE Fail
  <2>1. /\ phase = "rollback" /\ phase' = "failed" /\ script = <<>>
        /\ UNCHANGED <<original, backups, running, enabled, served, ioError, commandError>>
    BY <1>9 DEF Fail
  <2>2. Undid(2) /\ Undid(3) /\ (NginxEnabled => Undid(5))
    BY <2>1 DEF Undid, RollbackLength
  <2>3. ~ioError /\ ~commandError =>
          /\ UnitExisted => running = "old" /\ enabled = TRUE
          /\ NginxEnabled => served = original[SiteFile]
    BY <2>1, <2>2 DEF RollbackInv, BroughtBack
  <2> QED BY <2>1, <2>3, ShapeUnchanged DEF RollbackInv
<1>10. CASE Cancel \/ UNCHANGED vars
  <2>1. phase' = phase /\ backups' = backups /\ Same
    BY <1>10 DEF Cancel, vars
  <2> QED BY <2>1, RollbackUnchanged
<1> QED
  BY <1>1, <1>2, <1>3, <1>4, <1>5, <1>6, <1>7, <1>8, <1>9, <1>10 DEF Next

\* A failed install whose rollback reports no error leaves the old release
\* running and enabled, once the unit file had been captured, and nginx with the
\* site it had before, although nginx is reloaded only when its test passes
\* (installRollback.Restore).
THEOREM EngineOldReleaseRuns ==
  ASSUME Disjoint
  PROVE  Spec => []OldReleaseRuns
<1>1. RollbackInv => OldReleaseRuns
  BY DEF RollbackInv, OldReleaseRuns
<1>2. FilesInv /\ RollbackInv /\ [Next]_vars => FilesInv' /\ RollbackInv'
  BY FilesStep, RollbackStep
<1> QED BY <1>1, <1>2, FilesInit, RollbackInit, PTL DEF Spec

-----------------------------------------------------------------------------
(***************************************************************************)
(* Types, also for targets that lie inside one another.  The site nginx    *)
(* has loaded is typed because nginx is only ever reloaded when the module *)
(* has a site: no script holds the command otherwise.                      *)
(***************************************************************************)
Executable ==
  {"daemon-reload", "enable", "restart", "stop", "disable", "healthcheck"}
    \cup (IF NginxEnabled THEN {"nginx-test", "nginx-reload"} ELSE {})

EngineTypes ==
  /\ TypeOK
  /\ backups = [t \in Targets |-> backups[t]]
  /\ script \in Seq(Executable)

LEMMA ScriptsExecutable ==
  ApplyScript \in Seq(Executable) /\ RollbackScript \in Seq(Executable)
<1>1. CASE NginxEnabled
  <2>1. ApplyScript \in Seq(Executable)
    BY <1>1 DEF ApplyScript, Executable
  <2>2. CASE UnitExisted
    BY <1>1, <2>1, <2>2 DEF RollbackScript, Executable
  <2>3. CASE ~UnitExisted
    BY <1>1, <2>1, <2>3 DEF RollbackScript, Executable
  <2> QED BY <2>2, <2>3
<1>2. CASE ~NginxEnabled
  <2>1. ApplyScript \in Seq(Executable)
    BY <1>2 DEF ApplyScript, Executable
  <2>2. CASE UnitExisted
    BY <1>2, <2>1, <2>2 DEF RollbackScript, Executable
  <2>3. CASE ~UnitExisted
    BY <1>2, <2>1, <2>3 DEF RollbackScript, Executable
  <2> QED BY <2>2, <2>3
<1> QED BY <1>1, <1>2

LEMMA TypesInit == Init => EngineTypes
<1> SUFFICES ASSUME Init PROVE EngineTypes
  OBVIOUS
<1>1. original \in [Leaves -> {"none", "old"}] /\ disk \in [Leaves -> Contents]
  BY DEF Init, Contents
<1>2. served \in Contents
  BY <1>1 DEF Init, Contents, NginxEnabled
<1>3. enabled \in BOOLEAN /\ running \in {"none", "old", "new", "other"}
  BY DEF Init
<1>4. script \in Seq(Executable)
  BY DEF Init
<1> QED BY <1>1, <1>2, <1>3, <1>4 DEF Init, EngineTypes, TypeOK

LEMMA OverwriteType ==
  ASSUME EngineTypes, NEW t \in Targets, NEW content \in [Covers[t] -> Contents]
  PROVE  Overwrite(t, content) \in [Leaves -> Contents]
BY DEF EngineTypes, TypeOK, Overwrite

LEMMA DamagedType ==
  ASSUME EngineTypes, NEW t \in Targets
  PROVE  Damaged(t) \subseteq [Leaves -> Contents]
<1>1. [Covers[t] -> {"none", "partial"}] \subseteq [Covers[t] -> Contents]
  BY DEF Contents
<1>2. disk \in [Leaves -> Contents]
  BY DEF EngineTypes, TypeOK
<1> QED BY <1>1, <1>2, OverwriteType DEF Damaged

\* Execute and Misfire keep the types of what they may change.
LEMMA ServiceTypes ==
  ASSUME EngineTypes, NEW command \in Executable, Execute(command) \/ Misfire(command)
  PROVE  /\ running' \in {"none", "old", "new", "other"} /\ enabled' \in BOOLEAN
         /\ served' \in Contents
<1>1. CASE Execute(command)
  <2>1. running' \in {"none", "old", "new", "other"}
    BY <1>1 DEF Execute, Started, EngineTypes, TypeOK
  <2>2. enabled' \in BOOLEAN
    BY <1>1 DEF Execute, EngineTypes, TypeOK
  <2>3. command = "nginx-reload" => SiteFile \in Leaves
    BY DEF Executable, NginxEnabled
  <2>4. served' \in Contents
    BY <1>1, <2>3 DEF Execute, EngineTypes, TypeOK
  <2> QED BY <2>1, <2>2, <2>4
<1>2. CASE Misfire(command)
  BY <1>2 DEF Misfire, EngineTypes, TypeOK
<1> QED BY <1>1, <1>2

LEMMA ScriptTail ==
  ASSUME EngineTypes, script # <<>>
  PROVE  Head(script) \in Executable /\ Tail(script) \in Seq(Executable)
BY DEF EngineTypes

\* Steps that leave the files alone.
LEMMA TypesKept ==
  ASSUME EngineTypes, UNCHANGED <<original, disk, backups, done>>,
         pending' = pending \/ pending' = Captured,
         phase' \in {"prepare", "write", "apply", "restore", "rollback", "completed", "failed"},
         alive' \in BOOLEAN, script' \in Seq(Executable),
         running' \in {"none", "old", "new", "other"}, enabled' \in BOOLEAN,
         served' \in Contents, ioError' \in BOOLEAN, commandError' \in BOOLEAN
  PROVE  EngineTypes'
<1>1. Captured' = Captured
  BY DEF Captured
<1> QED BY <1>1 DEF EngineTypes, TypeOK

\* Steps that write one target.
LEMMA TypesWritten ==
  ASSUME EngineTypes, UNCHANGED <<alive, original, backups, script, enabled, served>>,
         disk' \in [Leaves -> Contents],
         done' \subseteq Captured, pending' \subseteq Captured,
         phase' \in {"write", "restore", "failed"},
         running' \in {"none", "old", "new", "other"},
         ioError' \in BOOLEAN, commandError' = commandError
  PROVE  EngineTypes'
<1>1. Captured' = Captured
  BY DEF Captured
<1> QED BY <1>1 DEF EngineTypes, TypeOK

LEMMA CaptureTypes ==
  ASSUME EngineTypes, NEW t \in Targets, Capture(t)
  PROVE  EngineTypes'
<1>1. [l \in Covers[t] |-> disk[l]] \in [Covers[t] -> Contents]
  BY CoversLeaves DEF EngineTypes, TypeOK
<1>2. /\ backups' = [backups EXCEPT ![t] = [l \in Covers[t] |-> disk[l]]]
      /\ t \notin Captured
      /\ UNCHANGED <<phase, alive, original, disk, done, pending, script, running,
                     enabled, served, ioError, commandError>>
  BY DEF Capture, service, errors
<1>3. backups' = [s \in Targets |-> backups'[s]]
  BY <1>2 DEF EngineTypes
<1>4. \A s \in Targets : s # t => backups'[s] = backups[s]
  BY <1>2 DEF EngineTypes
<1>5. backups'[t] \in [Covers[t] -> Contents]
  BY <1>1, <1>2 DEF EngineTypes
<1>6. \A s \in Targets : backups'[s] = Uncaptured \/ backups'[s] \in [Covers[s] -> Contents]
  BY <1>4, <1>5 DEF EngineTypes, TypeOK
<1>7. Captured \subseteq Captured'
  BY <1>2, <1>4 DEF Captured
<1> QED BY <1>2, <1>3, <1>6, <1>7 DEF EngineTypes, TypeOK

LEMMA TargetTypes ==
  ASSUME EngineTypes, NEW t \in Targets,
         Write(t) \/ Restore(t) \/ RestoreFails(t)
  PROVE  EngineTypes'
<1>1. CASE Write(t)
  <2>1. [l \in Covers[t] |-> "new"] \in [Covers[t] -> Contents]
    BY DEF Contents
  <2>2. disk' \in [Leaves -> Contents]
    BY <1>1, <2>1, OverwriteType DEF Write
  <2>3. /\ UNCHANGED <<phase, alive, original, backups, pending, script, running, enabled,
                       served, ioError, commandError>>
        /\ phase = "write" /\ done' = done \cup {t} /\ t \in Captured
    BY <1>1 DEF Write, MayWrite, Reached, service, errors
  <2>4. /\ done \subseteq Captured /\ pending \subseteq Captured
        /\ running \in {"none", "old", "new", "other"} /\ ioError \in BOOLEAN
    BY DEF EngineTypes, TypeOK
  <2> QED BY <2>2, <2>3, <2>4, TypesWritten
<1>2. CASE Restore(t) \/ RestoreFails(t)
  <2>1. /\ UNCHANGED <<phase, alive, original, backups, done, script, running, enabled,
                       served, commandError>>
        /\ phase = "restore" /\ t \in pending /\ pending' = pending \ {t}
        /\ ioError' \in {ioError, TRUE}
    BY <1>2 DEF Restore, RestoreFails, service, errors
  <2>2. /\ done \subseteq Captured /\ pending \subseteq Captured
        /\ running \in {"none", "old", "new", "other"} /\ ioError \in BOOLEAN
    BY DEF EngineTypes, TypeOK
  <2>3. backups[t] \in [Covers[t] -> Contents]
    BY <2>1, <2>2 DEF EngineTypes, TypeOK, Captured
  <2>4. disk' \in [Leaves -> Contents]
    BY <1>2, <2>3, OverwriteType, DamagedType DEF Restore, RestoreFails
  <2> QED BY <2>1, <2>2, <2>4, TypesWritten
<1> QED BY <1>1, <1>2

LEMMA RollbackStartTypes ==
  ASSUME EngineTypes, StartRollback
  PROVE  /\ phase' \in {"restore", "failed"}
         /\ pending' = pending \/ pending' = Captured
         /\ running' \in {"none", "old", "new", "other"}
BY DEF StartRollback, EngineTypes, TypeOK

LEMMA FailureTypes ==
  ASSUME EngineTypes, PrepareFails \/ WriteFails
  PROVE  EngineTypes'
<1>1. /\ UNCHANGED <<alive, original, backups, done, script, enabled, served, ioError,
                     commandError>>
      /\ StartRollback
  BY DEF PrepareFails, WriteFails, errors
<1>2. disk' \in [Leaves -> Contents]
  <2>1. disk \in [Leaves -> Contents]
    BY DEF EngineTypes, TypeOK
  <2> QED BY <2>1, DamagedType DEF PrepareFails, WriteFails
<1>3. /\ done \subseteq Captured /\ pending \subseteq Captured /\ ioError \in BOOLEAN
  BY DEF EngineTypes, TypeOK
<1> QED BY <1>1, <1>2, <1>3, RollbackStartTypes, TypesWritten

LEMMA CommandTypes ==
  ASSUME EngineTypes,
         ApplyCommand \/ ApplyFails \/ RollbackCommand \/ RollbackCommandFails
  PROVE  EngineTypes'
<1>1. /\ UNCHANGED <<alive, original, disk, backups, done, ioError>>
      /\ pending' = pending \/ pending' = Captured
      /\ script # <<>>
  BY DEF ApplyCommand, ApplyFails, RollbackCommand, RollbackCommandFails, files, errors
<1>2. phase' \in {"apply", "restore", "rollback"} /\ script' \in {<<>>, Tail(script)}
  BY DEF ApplyCommand, ApplyFails, RollbackCommand, RollbackCommandFails
<1>3. \/ Execute(Head(script)) \/ Misfire(Head(script))
      \/ running' = "none" /\ UNCHANGED <<enabled, served>>
  BY DEF ApplyCommand, ApplyFails, RollbackCommand, RollbackCommandFails
<1>4. commandError' \in BOOLEAN
  <2>1. CASE RollbackCommandFails
    BY <2>1, Zenon DEF RollbackCommandFails
  <2>2. CASE ApplyCommand \/ ApplyFails \/ RollbackCommand
    BY <2>2 DEF ApplyCommand, ApplyFails, RollbackCommand, errors, EngineTypes, TypeOK
  <2> QED BY <2>1, <2>2
<1>5. script' \in Seq(Executable) /\ Head(script) \in Executable
  <2>1. <<>> \in Seq(Executable)
    OBVIOUS
  <2>2. Head(script) \in Executable /\ Tail(script) \in Seq(Executable)
    BY <1>1, ScriptTail
  <2> QED BY <1>2, <2>1, <2>2
<1>6. /\ running' \in {"none", "old", "new", "other"} /\ enabled' \in BOOLEAN
      /\ served' \in Contents
  <2>1. enabled \in BOOLEAN /\ served \in Contents
    BY DEF EngineTypes, TypeOK
  <2> QED BY <1>3, <1>5, <2>1, ServiceTypes
<1>7. alive' \in BOOLEAN /\ ioError' \in BOOLEAN
  BY <1>1 DEF EngineTypes, TypeOK
<1> QED BY <1>1, <1>2, <1>4, <1>5, <1>6, <1>7, TypesKept

LEMMA TypesStep == EngineTypes /\ [Next]_vars => EngineTypes'
<1> SUFFICES ASSUME EngineTypes, [Next]_vars PROVE EngineTypes'
  OBVIOUS
<1>1. ASSUME NEW t \in Targets, Capture(t) PROVE EngineTypes'
  BY <1>1, CaptureTypes
<1>2. ASSUME NEW t \in Targets, Write(t) \/ Restore(t) \/ RestoreFails(t)
      PROVE  EngineTypes'
  BY <1>2, TargetTypes
<1>3. CASE PrepareFails \/ WriteFails
  BY <1>3, FailureTypes
<1>4. CASE ApplyCommand \/ ApplyFails \/ RollbackCommand \/ RollbackCommandFails
  BY <1>4, CommandTypes
<1>5. CASE \/ Prepare \/ Apply \/ Complete \/ Restored \/ Fail \/ Cancel
           \/ UNCHANGED vars
  <2>1. /\ UNCHANGED <<original, disk, backups, done, pending>>
        /\ UNCHANGED <<running, enabled, served, ioError, commandError>>
    BY <1>5 DEF Prepare, Apply, Complete, Restored, Fail, Cancel, vars, files, service,
       errors
  <2>2. /\ phase' \in {phase, "write", "apply", "completed", "rollback", "failed"}
        /\ alive' \in {alive, FALSE}
        /\ script' \in {script, ApplyScript, RollbackScript}
    BY <1>5 DEF Prepare, Apply, Complete, Restored, Fail, Cancel, vars
  <2>3. script' \in Seq(Executable)
    BY <2>2, ScriptsExecutable DEF EngineTypes
  <2>4. /\ phase' \in {"prepare", "write", "apply", "restore", "rollback", "completed",
                       "failed"}
        /\ alive' \in BOOLEAN
    BY <2>2 DEF EngineTypes, TypeOK
  <2>5. /\ running' \in {"none", "old", "new", "other"} /\ enabled' \in BOOLEAN
        /\ served' \in Contents /\ ioError' \in BOOLEAN /\ commandError' \in BOOLEAN
    BY <2>1 DEF EngineTypes, TypeOK
  <2> QED BY <2>1, <2>3, <2>4, <2>5, TypesKept
<1> QED BY <1>1, <1>2, <1>3, <1>4, <1>5 DEF Next

\* The engine is well typed for every set of files and targets, whether or not some
\* lie inside others (Engine.InstallModule, installRollback.Capture and Restore).
THEOREM EngineTypeCorrect == Spec => []TypeOK
<1>1. EngineTypes => TypeOK
  BY DEF EngineTypes
<1> QED BY <1>1, TypesInit, TypesStep, PTL DEF Spec
=============================================================================
