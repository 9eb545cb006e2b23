------------------------------ MODULE HostRouting ------------------------------
(***************************************************************************)
(* The synchronisation of /etc/hosts with the Admin's routing snapshot     *)
(* (src/internal/adminrpc/host_routing.go), which the heartbeat loop runs  *)
(* after an acknowledged heartbeat, and the other writers of that file.    *)
(*                                                                         *)
(* The file is a sequence of lines: lines of others, two markers, and the  *)
(* entries of a snapshot.  The sorted entries of one snapshot are one      *)
(* line here, and equal snapshots are those with equal hashes.             *)
(* A sync reads the file, replaces the managed block in memory, writes a   *)
(* temporary file and renames it; nothing keeps others from editing        *)
(* in between.  The hash of the last applied snapshot lives in memory      *)
(* only, and an unchanged hash ends a sync before it looks at the file.    *)
(***************************************************************************)
EXTENDS Naturals, Sequences, SequencesExt

CONSTANTS
  Snapshots,      \* what Admin may answer
  EmptySnapshot,  \* the one without entries
  Lines,          \* lines that are not Aurora's
  FirstLine,      \* the one an agent finds when it first starts
  Begin, End,     \* the markers
  Torn,           \* the content of a file whose write failed
  NoFile,
  NoHash,         \* lastHostSyncHash of a new process
  MaxChanges,     \* bound on the changes of the Admin's snapshot
  MaxRestarts     \* bound on the restarts of the agent

ASSUME LinesAssumption ==
  /\ EmptySnapshot \in Snapshots /\ FirstLine \in Lines
  /\ Begin # End /\ NoHash \notin Snapshots
  /\ {Begin, End} \cap (Lines \cup Snapshots) = {} /\ Lines \cap Snapshots = {}
ASSUME BoundsAssumption == MaxChanges \in Nat /\ MaxRestarts \in Nat

VARIABLES
  snapshot,   \* the Admin's current snapshot
  changes,
  hosts,      \* /etc/hosts; no file is read as one without lines
  tmp,        \* /etc/hosts.aurora.tmp
  pc,         \* where the sync is
  entries,    \* the snapshot it applies
  content,    \* what it is about to write
  due,        \* hostRoutingSyncInterval has passed since lastHostSyncAt
  lastHash,   \* lastHostSyncHash
  restarts,
  users,      \* history: the lines of others, as they last left them
  removed,    \* history: the markers an editor removed
  raced       \* history: somebody edited the file under a sync

syncVars == <<pc, entries, content, due, lastHash>>
adminVars == <<snapshot, changes, restarts>>
historyVars == <<users, removed, raced>>
vars == <<adminVars, hosts, tmp, syncVars, historyVars>>

Block(s) == <<Begin>> \o (IF s = EmptySnapshot THEN <<>> ELSE <<s>>) \o <<End>>
\* The wanted lines of a file, in their order.  (SelectSeq would do, but the
\* provers cannot expand it.)
Only(file, wanted) ==
  LET kept[i \in 0 .. Len(file)] ==
        IF i = 0 THEN <<>>
        ELSE IF file[i] \in wanted THEN Append(kept[i - 1], file[i]) ELSE kept[i - 1]
  IN  kept[Len(file)]
UserLines(file) == Only(file, Lines)
Managed(file) == Only(file, Snapshots \cup {Begin, End})
IsBegin(l) == l = Begin
IsEnd(l) == l = End

\* Mutant: everything from the begin marker on is replaced.
StripToTheEnd(file) ==
  LET begin == SelectInSeq(file, IsBegin)
      end == SelectInSeq(file, IsEnd)
  IN  IF begin = 0 \/ end = 0 \/ end < begin THEN file ELSE SubSeq(file, 1, begin - 1)

\* Mutant: only the markers and nothing between them are taken out.
StripMarkers(file) == Only(file, Lines \cup Snapshots)

\* stripManagedHostsBlock: from the first begin marker to the first end marker,
\* and nothing when one is missing or they stand in the wrong order.
Strip(file) ==
  LET begin == SelectInSeq(file, IsBegin)
      end == SelectInSeq(file, IsEnd)
  IN  IF begin = 0 \/ end = 0 \/ end < begin
      THEN file
      ELSE SubSeq(file, 1, begin - 1) \o SubSeq(file, end + 1, Len(file))

-----------------------------------------------------------------------------
Init ==
  /\ snapshot \in Snapshots
  /\ changes = 0
  /\ hosts \in {<<FirstLine>>, <<>>}
  /\ tmp = NoFile
  /\ pc = "idle"
  /\ entries = EmptySnapshot
  /\ content = <<>>
  /\ due = TRUE
  /\ lastHash = NoHash
  /\ restarts = 0
  /\ users = hosts
  /\ removed = {}
  /\ raced = FALSE

\* The sync ends; its results are forgotten.
Return ==
  /\ pc' = "idle"
  /\ entries' = EmptySnapshot
  /\ content' = <<>>

\* maybeSyncHostRouting: the interval counts from the start of an attempt,
\* whatever becomes of it.
MaybeSync ==
  /\ pc = "idle"
  /\ due
  /\ due' = FALSE
  /\ pc' = "call"
  /\ UNCHANGED <<adminVars, hosts, tmp, entries, content, lastHash, historyVars>>

\* The snapshot arrives: a known hash ends the sync.
GetSnapshot ==
  /\ pc = "call"
  /\ IF snapshot = lastHash
     THEN Return
     ELSE pc' = "read" /\ entries' = snapshot /\ UNCHANGED content
  /\ UNCHANGED <<adminVars, hosts, tmp, due, lastHash, historyVars>>

\* applyHostRoutingSnapshot reads the file and makes the new one.
ReadHosts ==
  /\ pc = "read"
  /\ pc' = "write"
  /\ content' = Strip(hosts) \o Block(entries)
  /\ UNCHANGED <<adminVars, hosts, tmp, entries, due, lastHash, historyVars>>

WriteTemporary ==
  /\ pc = "write"
  /\ pc' = "rename"
  /\ tmp' = content
  /\ UNCHANGED <<adminVars, hosts, entries, content, due, lastHash, historyVars>>

\* Mutant: the error of the write is not looked at.
WriteFailsUnnoticed ==
  /\ pc = "write"
  /\ pc' = "rename"
  /\ tmp' = Torn
  /\ UNCHANGED <<adminVars, hosts, entries, content, due, lastHash, historyVars>>

\* What was written stays behind.
WriteFails ==
  /\ pc = "write"
  /\ tmp' \in {tmp, Torn}
  /\ Return
  /\ UNCHANGED <<adminVars, hosts, due, lastHash, historyVars>>

Rename ==
  /\ pc = "rename"
  /\ pc' = "record"
  /\ hosts' = tmp
  /\ tmp' = NoFile
  /\ UNCHANGED <<adminVars, entries, content, due, lastHash, historyVars>>

\* Mutant: the hash is recorded although nothing was applied.
RenameFailsRecorded ==
  /\ pc = "rename"
  /\ tmp' = NoFile
  /\ lastHash' = entries
  /\ Return
  /\ UNCHANGED <<adminVars, hosts, due, historyVars>>

RenameFails ==
  /\ pc = "rename"
  /\ tmp' = NoFile
  /\ Return
  /\ UNCHANGED <<adminVars, hosts, due, lastHash, historyVars>>

RecordHash ==
  /\ pc = "record"
  /\ lastHash' = entries
  /\ Return
  /\ UNCHANGED <<adminVars, hosts, tmp, due, historyVars>>

\* The call or the read of the file fails.
SyncFails ==
  /\ pc \in {"call", "read"}
  /\ Return
  /\ UNCHANGED <<adminVars, hosts, tmp, due, lastHash, historyVars>>

\* The agent ends and is started again; the files stay as they are, a write cut short.
Restart ==
  /\ restarts < MaxRestarts
  /\ restarts' = restarts + 1
  /\ tmp' \in (IF pc = "write" THEN {tmp, Torn} ELSE {tmp})
  /\ due' = TRUE
  /\ lastHash' = NoHash
  /\ Return
  /\ UNCHANGED <<snapshot, changes, hosts, historyVars>>

\* When it passes during a sync, the next one is due at the end of this one.
IntervalPasses ==
  /\ pc = "idle" /\ ~due
  /\ due' = TRUE
  /\ UNCHANGED <<adminVars, hosts, tmp, pc, entries, content, lastHash, historyVars>>

AdminChanges ==
  /\ changes < MaxChanges
  /\ changes' = changes + 1
  /\ snapshot' \in Snapshots \ {snapshot}
  /\ UNCHANGED <<hosts, tmp, syncVars, restarts, historyVars>>

\* Somebody else saves the file; a sync that read it before will not notice.
Edit(file) ==
  /\ hosts' = file
  /\ users' = UserLines(file)
  /\ raced' = (raced \/ pc \in {"write", "rename"})
  /\ UNCHANGED <<adminVars, tmp, syncVars>>

\* A line of somebody else's, at the top or at the end of the file.
AddLine ==
  /\ \E l \in Lines \ Range(hosts) : Edit(<<l>> \o hosts) \/ Edit(Append(hosts, l))
  /\ UNCHANGED removed

RemoveMarker ==
  \E i \in 1 .. Len(hosts) :
    /\ hosts[i] \in {Begin, End} \ removed
    /\ removed' = removed \cup {hosts[i]}
    /\ Edit(RemoveAt(hosts, i))

Sync ==
  \/ GetSnapshot \/ ReadHosts \/ WriteTemporary \/ Rename \/ RecordHash
  \/ SyncFails \/ WriteFails \/ RenameFails

Next ==
  \/ MaybeSync \/ Sync
  \/ Restart \/ IntervalPasses \/ AdminChanges
  \/ AddLine \/ RemoveMarker

Spec == Init /\ [][Next]_vars

\* Heartbeats go on and are acknowledged; Admin answers and the disk takes a
\* file again and again.
FairSpec ==
  /\ Spec
  /\ WF_vars(IntervalPasses) /\ WF_vars(MaybeSync) /\ WF_vars(Sync)
  /\ SF_vars(GetSnapshot) /\ SF_vars(ReadHosts) /\ SF_vars(WriteTemporary)
  /\ SF_vars(Rename)

-----------------------------------------------------------------------------
FileContents == Seq(Lines \cup Snapshots \cup {Begin, End})

\* Types: /etc/hosts is always a whole file, the temporary one need not be.
TypeOK ==
  /\ snapshot \in Snapshots /\ entries \in Snapshots
  /\ changes \in 0 .. MaxChanges /\ restarts \in 0 .. MaxRestarts
  /\ hosts \in FileContents /\ content \in FileContents /\ users \in Seq(Lines)
  /\ tmp \in {Torn, NoFile} \/ tmp \in FileContents
  /\ pc \in {"idle", "call", "read", "write", "rename", "record"}
  /\ due \in BOOLEAN /\ raced \in BOOLEAN
  /\ lastHash \in Snapshots \cup {NoHash}
  /\ removed \subseteq {Begin, End}

\* A sync touches nobody else's lines, wherever they stand and also when the begin
\* marker is gone.  Two cases are excepted, where it does lose lines: a
\* removed end marker (the next block's end then closes the old begin) and an edit
\* between a sync's read and its rename.
UserLinesKept == End \notin removed /\ ~raced => UserLines(hosts) = users

\* As long as nobody removes a marker there is one block, in one piece, however
\* often snapshots change and the agent restarts; and a recorded hash tells what is
\* in it, on which the early return of a sync relies.
HasBlock(s) == Block(s) \in SubSeqs(hosts)
HashTellsBlock ==
  removed = {} /\ Managed(hosts) # <<>> =>
    \E s \in Snapshots :
      /\ Managed(hosts) = Block(s) /\ HasBlock(s)
      /\ lastHash \in {s, NoHash} \/ pc = "record"

\* Every snapshot of the Admin's gets into the file unless another one follows
\* it, through failed calls and writes, restarts and edits.  One case is excepted:
\* a marker lost from a block whose hash is recorded, which no sync looks for.
SnapshotReaches ==
  \A s \in Snapshots :
    snapshot = s ~>
      \/ HasBlock(s)
      \/ snapshot # s
      \/ lastHash = s /\ removed # {}
=============================================================================
