----------------------------- MODULE ArtifactCache -----------------------------
(***************************************************************************)
(* The artifact cache of src/internal/agent/install/artifact_cache.go:     *)
(* ensureArtifactAvailable and pruneArtifactCache, which artifactCacheMu   *)
(* covers, and the unpacking of the returned path (engine.go), which it    *)
(* does not.                                                               *)
(*                                                                         *)
(* An artifact stands for its URL and checksum together.  The order in     *)
(* which files are pruned, by their modification times, is any order: the  *)
(* clock may be set back between two downloads, and a file that cannot be  *)
(* read while sorting is placed by its name.                               *)
(***************************************************************************)
EXTENDS Naturals, FiniteSets

CONSTANTS
  Installs,        \* the installs at work, the goroutines
  Artifacts,
  Temps,           \* the temporary files of downloads (bounds those left behind)
  SizeOf,          \* the size of an artifact, or of what is left of a download
  MaxBytes,        \* artifactCacheMaxBytes
  Nobody,
  None             \* no temporary file

Names == Artifacts \cup Temps

ASSUME ArtifactsAssumption ==
  /\ IsFiniteSet(Names) /\ Artifacts \cap Temps = {}
  /\ SizeOf \in [Names -> Nat] /\ MaxBytes \in Nat \ {0}
  /\ Nobody \notin Installs /\ None \notin Names

VARIABLES
  files,       \* the names in the cache directory
  spoiled,     \* cached artifacts whose content is damaged
  mutex,       \* artifactCacheMu
  temp,        \* the temporary file of the download at work
  counted,     \* the files whose sizes make up totalSize, in pruneArtifactCache
  todo,        \* those of them its loop has not come to
  pc,          \* where each install is
  want,        \* the artifact it installs
  overrun      \* history: a download or a prune since the last whole prune left
               \* something behind

vars == <<files, spoiled, mutex, temp, counted, todo, pc, want, overrun>>
pruneVars == <<counted, todo>>

Cached(a) == a \in files
TotalSize(names) == Cardinality(UNION {{f} \X (1 .. SizeOf[f]) : f \in names})

\* Mutant: a cache that is exactly full is pruned.
AboveOrAtLimit == TotalSize(counted) >= MaxBytes
AboveLimit == TotalSize(counted) > MaxBytes

-----------------------------------------------------------------------------
Init ==
  /\ files = {} /\ spoiled = {}
  /\ mutex = Nobody /\ temp = None
  /\ counted = {} /\ todo = {}
  /\ pc = [p \in Installs |-> "idle"]
  /\ want = [p \in Installs |-> CHOOSE a \in Artifacts : TRUE]
  /\ overrun = FALSE

GoTo(p, phase) == pc' = [pc EXCEPT ![p] = phase]

Request(p, a) ==
  /\ pc[p] = "idle"
  /\ GoTo(p, "waiting")
  /\ want' = [want EXCEPT ![p] = a]
  /\ UNCHANGED <<files, spoiled, mutex, temp, pruneVars, overrun>>

\* Mutant: the checksum of a cached file is not verified.
UsableUnverified(a) == Cached(a)

\* The cached file has the checksum asked for.
Usable(a) == Cached(a) /\ a \notin spoiled

Hit(p) ==
  /\ pc[p] = "waiting" /\ mutex = Nobody
  /\ Usable(want[p])
  /\ GoTo(p, "unpack")
  /\ UNCHANGED <<files, spoiled, mutex, temp, pruneVars, want, overrun>>

\* What may become of a file that is damaged or cannot be read: it is removed,
\* unless that fails, too.
Rejected(a) == {files \ {a}, files}

\* No usable file was found; a temporary one is created.
Miss(p) ==
  /\ pc[p] = "waiting" /\ mutex = Nobody
  /\ mutex' = p
  /\ GoTo(p, "download")
  /\ \E t \in Temps \ files, left \in Rejected(want[p]) :
       temp' = t /\ files' = left \cup {t}
  /\ spoiled' = spoiled \cap files'
  /\ UNCHANGED <<pruneVars, want, overrun>>

\* The directory or the temporary file cannot be created.
MissFails(p) ==
  /\ pc[p] = "waiting" /\ mutex = Nobody
  /\ GoTo(p, "failed")
  /\ files' \in Rejected(want[p])
  /\ spoiled' = spoiled \cap files'
  /\ UNCHANGED <<mutex, temp, pruneVars, want, overrun>>

\* Downloaded, verified and renamed to its place.
Download(p) ==
  /\ pc[p] = "download"
  /\ GoTo(p, "prune")
  /\ files' = (files \ {temp}) \cup {want[p]}
  /\ spoiled' = spoiled \ {want[p]}
  /\ temp' = None
  /\ UNCHANGED <<mutex, pruneVars, want, overrun>>

\* The server, the checksum or the disk; the temporary file is removed, or stays.
DownloadFails(p) ==
  /\ pc[p] = "download"
  /\ GoTo(p, "failed")
  /\ files' \in {files \ {temp}, files}
  /\ overrun' = (overrun \/ temp \in files')
  /\ temp' = None /\ mutex' = Nobody
  /\ UNCHANGED <<spoiled, pruneVars, want>>

\* pruneArtifactCache adds up the sizes of the files it can read.
StartPrune(p) ==
  /\ pc[p] = "prune"
  /\ GoTo(p, "pruning")
  /\ \E unread \in SUBSET files :
       counted' = files \ unread /\ overrun' = (unread # {})
  /\ todo' = counted'
  /\ UNCHANGED <<files, spoiled, mutex, temp, want>>

\* Mutant: this way out keeps the mutex.
PruneFailsHolding(p) ==
  /\ pc[p] = "prune"
  /\ GoTo(p, "failed")
  /\ overrun' = TRUE
  /\ UNCHANGED <<files, spoiled, mutex, temp, pruneVars, want>>

\* The directory cannot be read: the install fails, its new file stays.
PruneFails(p) ==
  /\ pc[p] = "prune"
  /\ GoTo(p, "failed")
  /\ mutex' = Nobody
  /\ overrun' = TRUE
  /\ UNCHANGED <<files, spoiled, temp, pruneVars, want>>

\* One round of the loop; a file that cannot be removed is passed over.
Evict(p, f) ==
  /\ pc[p] = "pruning" /\ AboveLimit
  /\ f \in todo
  /\ todo' = todo \ {f}
  /\ counted' = counted \ {f}
  /\ files' = files \ {f}
  /\ spoiled' = spoiled \ {f}
  /\ UNCHANGED <<mutex, temp, pc, want, overrun>>

\* Mutant: the size of a file that stays is subtracted as well.
EvictFailsSubtracted(p, f) ==
  /\ pc[p] = "pruning" /\ AboveLimit
  /\ f \in todo
  /\ todo' = todo \ {f}
  /\ counted' = counted \ {f}
  /\ UNCHANGED <<files, spoiled, mutex, temp, pc, want, overrun>>

EvictFails(p, f) ==
  /\ pc[p] = "pruning" /\ AboveLimit
  /\ f \in todo
  /\ todo' = todo \ {f}
  /\ UNCHANGED <<files, spoiled, mutex, temp, counted, pc, want, overrun>>

\* The rest fits, or no file is left to try; the install goes on either way.
EndPrune(p) ==
  /\ pc[p] = "pruning"
  /\ ~AboveLimit \/ todo = {}
  /\ overrun' = (overrun \/ AboveLimit)
  /\ counted' = {} /\ todo' = {}
  /\ mutex' = Nobody
  /\ GoTo(p, "unpack")
  /\ UNCHANGED <<files, spoiled, temp, want>>

\* unpackTarGz opens the path it was given.
Unpack(p) ==
  /\ pc[p] = "unpack"
  /\ Cached(want[p])
  /\ GoTo(p, "unpacked")
  /\ UNCHANGED <<files, spoiled, mutex, temp, pruneVars, want, overrun>>

\* The file is no longer there, or it cannot be unpacked.
UnpackFails(p) ==
  /\ pc[p] = "unpack"
  /\ GoTo(p, "failed")
  /\ UNCHANGED <<files, spoiled, mutex, temp, pruneVars, want, overrun>>

\* The install ends; another one may run in its place.
End(p) ==
  /\ pc[p] \in {"unpacked", "failed"}
  /\ GoTo(p, "idle")
  /\ UNCHANGED <<files, spoiled, mutex, temp, pruneVars, want, overrun>>

\* The host goes down: what a download or a prune was about stays where it is, a
\* cached file that was not yet on the disk is damaged.
Crash ==
  /\ overrun' = (overrun \/ mutex # Nobody)
  /\ \E lost \in SUBSET (files \cap Artifacts) : spoiled' = spoiled \cup lost
  /\ mutex' = Nobody /\ temp' = None
  /\ counted' = {} /\ todo' = {}
  /\ pc' = [p \in Installs |-> "idle"]
  /\ UNCHANGED <<files, want>>

Step(p) ==
  \/ Hit(p) \/ Miss(p) \/ MissFails(p)
  \/ Download(p) \/ DownloadFails(p)
  \/ StartPrune(p) \/ PruneFails(p) \/ EndPrune(p)
  \/ \E f \in todo : Evict(p, f) \/ EvictFails(p, f)
  \/ Unpack(p) \/ UnpackFails(p)
  \/ End(p)

Next ==
  \/ \E p \in Installs : Step(p) \/ \E a \in Artifacts : Request(p, a)
  \/ Crash

Spec == Init /\ [][Next]_vars

-----------------------------------------------------------------------------
\* Types of the cache directory, the mutex and the installs; the mutex is held by
\* the install that downloads or prunes.
TypeOK ==
  /\ files \subseteq Names
  /\ spoiled \subseteq files \cap Artifacts
  /\ temp \in {None} \cup (files \cap Temps)
  /\ todo \subseteq counted /\ counted \subseteq files
  /\ mutex \in Installs \cup {Nobody}
  /\ pc \in [Installs -> {"idle", "waiting", "download", "prune", "pruning", "unpack",
                          "unpacked", "failed"}]
  /\ \A p \in Installs : pc[p] \in {"download", "prune", "pruning"} <=> mutex = p
  /\ (\A p \in Installs : pc[p] # "download") => temp = None
  /\ (\A p \in Installs : pc[p] # "pruning") => counted = {}
  /\ want \in [Installs -> Artifacts]
  /\ overrun \in BOOLEAN

\* Whoever is about to unpack a cached file unpacks the content it asked for,
\* also after a crash damaged the cache (verifyArtifactChecksum on every hit).
UnpacksVerified ==
  \A p \in Installs : pc[p] = "unpack" /\ Cached(want[p]) => want[p] \notin spoiled

\* While nobody downloads or prunes, the cache is within its limit, unless since the
\* last prune that read every file and made the rest fit something was left behind:
\* by a crash, by a temporary file that could not be removed, by a prune that could
\* not read the directory or a file, or by one that tried every file and failed.  A
\* file that cannot be removed is no such excuse as long as others can be.
CacheBounded ==
  mutex = Nobody /\ ~overrun => TotalSize(files) <= MaxBytes

\* A file goes only as the temporary file of the download at work, as one that the
\* install which wants it could not use, or while the directory is above its limit:
\* a prune takes no file, least of all one another install is about to unpack, once
\* the rest fits, whatever could not be read or removed before.
EvictsAboveLimit ==
  [][\A f \in files \ files' :
       \/ f = temp
       \/ \E p \in Installs : pc[p] = "waiting" /\ pc'[p] # "waiting" /\ f = want[p]
       \/ TotalSize(files) > MaxBytes]_vars
=============================================================================
