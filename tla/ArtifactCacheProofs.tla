-------------------------- MODULE ArtifactCacheProofs --------------------------
(***************************************************************************)
(* ArtifactCache: what an install unpacks is what it asked for, the cache  *)
(* stays within its limit, and a prune takes no more than it must, for     *)
(* every number of installs and files, whatever sizes they have.           *)
(***************************************************************************)
EXTENDS ArtifactCache, FiniteSetTheorems, TLAPS

(***************************************************************************)
(* The size of a set of files.                                             *)
(***************************************************************************)
BytesOf(S) == UNION {{f} \X (1 .. SizeOf[f]) : f \in S}

LEMMA BytesFinite ==
  ASSUME NEW S \in SUBSET Names
  PROVE  IsFiniteSet(BytesOf(S))
<1> DEFINE File(f) == {f} \X (1 .. SizeOf[f])
           Files == {File(f) : f \in S}
           g == [f \in S |-> File(f)]
<1>1. IsFiniteSet(Files)
  <2>1. IsFiniteSet(S)
    BY ArtifactsAssumption, FS_Subset
  <2>2. g \in Surjection(S, Files)
    BY DEF Surjection
  <2> QED BY <2>1, <2>2, FS_Surjection
<1>2. ASSUME NEW f \in S PROVE IsFiniteSet(File(f))
  <2>1. SizeOf[f] \in Int
    BY ArtifactsAssumption
  <2>2. IsFiniteSet(1 .. SizeOf[f])
    BY <2>1, FS_Interval
  <2>3. IsFiniteSet({f})
    BY FS_Singleton
  <2> QED BY <2>2, <2>3, FS_Product
<1>3. IsFiniteSet(UNION Files)
  BY <1>1, <1>2, FS_UNION
<1> QED BY <1>3 DEF BytesOf

\* Fewer files are not larger.
LEMMA FewerFilesFit ==
  ASSUME NEW S \in SUBSET Names, NEW T \in SUBSET S
  PROVE  /\ TotalSize(S) \in Nat /\ TotalSize(T) \in Nat
         /\ TotalSize(T) <= TotalSize(S)
<1>1. IsFiniteSet(BytesOf(S)) /\ IsFiniteSet(BytesOf(T))
  BY BytesFinite
<1>2. BytesOf(T) \in SUBSET BytesOf(S)
  BY DEF BytesOf
<1>3. Cardinality(BytesOf(T)) <= Cardinality(BytesOf(S))
  BY <1>1, <1>2, FS_Subset
<1>4. Cardinality(BytesOf(T)) \in Nat /\ Cardinality(BytesOf(S)) \in Nat
  BY <1>1, FS_CardinalityType
<1> QED BY <1>3, <1>4 DEF TotalSize, BytesOf

LEMMA EmptyFits == TotalSize({}) <= MaxBytes
<1>1. BytesOf({}) = {}
  BY DEF BytesOf
<1>2. TotalSize({}) = 0
  BY <1>1, FS_EmptySet DEF TotalSize, BytesOf
<1> QED BY <1>2, ArtifactsAssumption

-----------------------------------------------------------------------------
(***************************************************************************)
(* Types.                                                                  *)
(***************************************************************************)
LEMMA CacheTypesInit == Artifacts # {} /\ Init => TypeOK
BY ArtifactsAssumption DEF Init, TypeOK

\* The conjuncts of TypeOK about the installs, and those about the directory.
InstallTypes ==
  /\ mutex \in Installs \cup {Nobody}
  /\ pc \in [Installs -> {"idle", "waiting", "download", "prune", "pruning", "unpack",
                          "unpacked", "failed"}]
  /\ \A p \in Installs : pc[p] \in {"download", "prune", "pruning"} <=> mutex = p
  /\ want \in [Installs -> Artifacts]

DirectoryTypes ==
  /\ files \subseteq Names
  /\ spoiled \subseteq files \cap Artifacts
  /\ temp \in {None} \cup (files \cap Temps)
  /\ todo \subseteq counted /\ counted \subseteq files
  /\ overrun \in BOOLEAN

LocalsUsed ==
  /\ (\A p \in Installs : pc[p] # "download") => temp = None
  /\ (\A p \in Installs : pc[p] # "pruning") => counted = {}

LEMMA TypesSplit == TypeOK <=> InstallTypes /\ DirectoryTypes /\ LocalsUsed
BY DEF TypeOK, InstallTypes, DirectoryTypes, LocalsUsed

LEMMA InstallTypesStep == InstallTypes /\ [Next]_vars => InstallTypes'
<1> SUFFICES ASSUME InstallTypes, [Next]_vars PROVE InstallTypes'
  OBVIOUS
<1> USE ArtifactsAssumption DEF InstallTypes, GoTo
<1>1. ASSUME NEW p \in Installs, NEW a \in Artifacts, Request(p, a) PROVE InstallTypes'
  BY <1>1 DEF Request
<1>2. ASSUME NEW p \in Installs, Hit(p) \/ MissFails(p) PROVE InstallTypes'
  BY <1>2 DEF Hit, MissFails
<1>3. ASSUME NEW p \in Installs, Miss(p) PROVE InstallTypes'
  BY <1>3 DEF Miss
<1>4. ASSUME NEW p \in Installs, Download(p) \/ StartPrune(p) PROVE InstallTypes'
  BY <1>4 DEF Download, StartPrune
<1>5. ASSUME NEW p \in Installs, DownloadFails(p) \/ PruneFails(p) \/ EndPrune(p)
      PROVE  InstallTypes'
  BY <1>5 DEF DownloadFails, PruneFails, EndPrune
<1>6. ASSUME NEW p \in Installs, NEW f \in todo, Evict(p, f) \/ EvictFails(p, f)
      PROVE  InstallTypes'
  BY <1>6 DEF Evict, EvictFails
<1>7. ASSUME NEW p \in Installs, Unpack(p) \/ UnpackFails(p) \/ End(p)
      PROVE  InstallTypes'
  BY <1>7 DEF Unpack, UnpackFails, End
<1>8. CASE Crash
  BY <1>8 DEF Crash
<1>9. CASE UNCHANGED vars
  BY <1>9 DEF vars
<1> QED BY <1>1, <1>2, <1>3, <1>4, <1>5, <1>6, <1>7, <1>8, <1>9 DEF Next, Step

LEMMA LocalsUsedStep == InstallTypes /\ LocalsUsed /\ [Next]_vars => LocalsUsed'
<1> SUFFICES ASSUME InstallTypes, LocalsUsed, [Next]_vars PROVE LocalsUsed'
  OBVIOUS
<1> USE DEF InstallTypes, LocalsUsed, GoTo, pruneVars
<1>1. ASSUME NEW p \in Installs, NEW a \in Artifacts, Request(p, a) PROVE LocalsUsed'
  BY <1>1 DEF Request
<1>2. ASSUME NEW p \in Installs, Hit(p) \/ MissFails(p) PROVE LocalsUsed'
  BY <1>2 DEF Hit, MissFails
<1>3. ASSUME NEW p \in Installs, Miss(p) PROVE LocalsUsed'
  BY <1>3 DEF Miss
<1>4. ASSUME NEW p \in Installs, Download(p) \/ StartPrune(p) PROVE LocalsUsed'
  BY <1>4 DEF Download, StartPrune
<1>5. ASSUME NEW p \in Installs, DownloadFails(p) \/ PruneFails(p) \/ EndPrune(p)
      PROVE  LocalsUsed'
  BY <1>5 DEF DownloadFails, PruneFails, EndPrune
<1>6. ASSUME NEW p \in Installs, NEW f \in todo, Evict(p, f) \/ EvictFails(p, f)
      PROVE  LocalsUsed'
  BY <1>6 DEF Evict, EvictFails
<1>7. ASSUME NEW p \in Installs, Unpack(p) \/ UnpackFails(p) \/ End(p)
      PROVE  LocalsUsed'
  BY <1>7 DEF Unpack, UnpackFails, End
<1>8. CASE Crash
  BY <1>8 DEF Crash
<1>9. CASE UNCHANGED vars
  BY <1>9 DEF vars
<1> QED BY <1>1, <1>2, <1>3, <1>4, <1>5, <1>6, <1>7, <1>8, <1>9 DEF Next, Step

LEMMA DirectoryTypesStep == TypeOK /\ [Next]_vars => DirectoryTypes'
<1> SUFFICES ASSUME DirectoryTypes, InstallTypes, LocalsUsed, [Next]_vars
             PROVE  DirectoryTypes'
  BY TypesSplit
<1> USE ArtifactsAssumption DEF DirectoryTypes, Names, pruneVars
<1>1. ASSUME NEW p \in Installs, mutex = Nobody \/ pc[p] \in {"download", "prune"}
      PROVE  todo = {} /\ counted = {}
  <2>1. \A q \in Installs : pc[q] # "pruning"
    BY <1>1 DEF InstallTypes
  <2> QED BY <2>1 DEF LocalsUsed
<1>2. ASSUME NEW p \in Installs, Miss(p) \/ MissFails(p) PROVE DirectoryTypes'
  <2>1. todo' = {} /\ counted' = {}
    BY <1>1, <1>2 DEF Miss, MissFails
  <2>2. want[p] \in Artifacts
    BY DEF InstallTypes
  <2>3. files' \subseteq Names /\ spoiled' = spoiled \cap files' /\ overrun' = overrun
    BY <1>2 DEF Miss, MissFails, Rejected
  <2>4. temp' \in {None} \cup (files' \cap Temps)
    BY <1>2, <2>2 DEF Miss, MissFails, Rejected
  <2> QED BY <2>1, <2>3, <2>4
<1>3. ASSUME NEW p \in Installs, Download(p) PROVE DirectoryTypes'
  <2>1. todo' = {} /\ counted' = {} /\ temp' = None /\ overrun' = overrun
    BY <1>1, <1>3 DEF Download
  <2>2. want[p] \in Artifacts
    BY DEF InstallTypes
  <2>3. files' \subseteq Names
    BY <1>3, <2>2 DEF Download
  <2>4. spoiled' \subseteq files' \cap Artifacts
    BY <1>3, <2>2 DEF Download
  <2> QED BY <2>1, <2>3, <2>4
<1>4. ASSUME NEW p \in Installs, DownloadFails(p) PROVE DirectoryTypes'
  <2>1. todo' = {} /\ counted' = {} /\ temp' = None /\ overrun' \in BOOLEAN
    BY <1>1, <1>4 DEF DownloadFails
  <2>2. files' \subseteq Names /\ spoiled' \subseteq files' \cap Artifacts
    BY <1>4 DEF DownloadFails
  <2> QED BY <2>1, <2>2
<1>5. ASSUME NEW p \in Installs, StartPrune(p) \/ PruneFails(p) \/ EndPrune(p)
      PROVE  DirectoryTypes'
  BY <1>5 DEF StartPrune, PruneFails, EndPrune
<1>6. ASSUME NEW p \in Installs, NEW f \in todo, Evict(p, f) PROVE DirectoryTypes'
  <2>1. temp' = None
    BY <1>6 DEF Evict, InstallTypes, LocalsUsed
  <2> QED BY <1>6, <2>1 DEF Evict
<1>7. ASSUME NEW p \in Installs, NEW f \in todo, EvictFails(p, f) PROVE DirectoryTypes'
  BY <1>7 DEF EvictFails
<1>8. CASE Crash
  BY <1>8 DEF Crash
<1>9. CASE UNCHANGED <<files, spoiled, temp, todo, counted, overrun>>
  BY <1>9
<1> QED BY <1>2, <1>3, <1>4, <1>5, <1>6, <1>7, <1>8, <1>9
        DEF Next, Step, Request, Hit, Unpack, UnpackFails, End, vars

LEMMA CacheTypesStep == TypeOK /\ [Next]_vars => TypeOK'
<1>1. TypeOK' <=> InstallTypes' /\ DirectoryTypes' /\ LocalsUsed'
  BY DEF TypeOK, InstallTypes, DirectoryTypes, LocalsUsed
<1> QED BY <1>1, TypesSplit, InstallTypesStep, LocalsUsedStep, DirectoryTypesStep

\* The variables have their types, and the mutex is held by the one install that
\* downloads or prunes, on every way out of ensureArtifactAvailable.
THEOREM CacheTypeCorrect ==
  ASSUME Artifacts # {}
  PROVE  Spec => []TypeOK
BY CacheTypesInit, CacheTypesStep, PTL DEF Spec

-----------------------------------------------------------------------------
(***************************************************************************)
(* What an install finds at the path it was given.                         *)
(***************************************************************************)

\* From the moment an install found its file in order, or downloaded it, nothing
\* spoils that artifact before a crash ends the install as well.
VerifiedInv ==
  \A p \in Installs : pc[p] \in {"prune", "pruning", "unpack"} => want[p] \notin spoiled

LEMMA VerifiedStep == TypeOK /\ VerifiedInv /\ [Next]_vars => VerifiedInv'
<1> SUFFICES ASSUME TypeOK, VerifiedInv, [Next]_vars PROVE VerifiedInv'
  OBVIOUS
<1> USE DEF VerifiedInv, TypeOK, GoTo, pruneVars
<1>1. ASSUME NEW p \in Installs, NEW a \in Artifacts, Request(p, a) PROVE VerifiedInv'
  BY <1>1 DEF Request
<1>2. ASSUME NEW p \in Installs, Hit(p) PROVE VerifiedInv'
  BY <1>2 DEF Hit, Usable
<1>3. ASSUME NEW p \in Installs, Miss(p) \/ MissFails(p) PROVE VerifiedInv'
  BY <1>3 DEF Miss, MissFails
<1>4. ASSUME NEW p \in Installs, Download(p) \/ DownloadFails(p) PROVE VerifiedInv'
  BY <1>4 DEF Download, DownloadFails
<1>5. ASSUME NEW p \in Installs, StartPrune(p) \/ PruneFails(p) \/ EndPrune(p)
      PROVE  VerifiedInv'
  BY <1>5 DEF StartPrune, PruneFails, EndPrune
<1>6. ASSUME NEW p \in Installs, NEW f \in todo, Evict(p, f) \/ EvictFails(p, f)
      PROVE  VerifiedInv'
  BY <1>6 DEF Evict, EvictFails
<1>7. ASSUME NEW p \in Installs, Unpack(p) \/ UnpackFails(p) \/ End(p) PROVE VerifiedInv'
  BY <1>7 DEF Unpack, UnpackFails, End
<1>8. CASE Crash
  BY <1>8 DEF Crash
<1>9. CASE UNCHANGED vars
  BY <1>9 DEF vars
<1> QED BY <1>1, <1>2, <1>3, <1>4, <1>5, <1>6, <1>7, <1>8, <1>9 DEF Next, Step

\* Whoever is about to unpack a cached file unpacks the content it asked for,
\* after any number of crashes that damaged the cache (verifyArtifactChecksum on
\* every hit).
THEOREM CacheUnpacksVerified ==
  ASSUME Artifacts # {}
  PROVE  Spec => []UnpacksVerified
<1>1. Init => VerifiedInv
  BY DEF Init, VerifiedInv
<1>2. VerifiedInv => UnpacksVerified
  BY DEF VerifiedInv, UnpacksVerified
<1> QED BY <1>1, <1>2, CacheTypeCorrect, VerifiedStep, PTL DEF Spec

-----------------------------------------------------------------------------
(***************************************************************************)
(* The limit.                                                              *)
(***************************************************************************)

\* Unless something was left behind, the files beside the temporary one of a
\* download fit, and the loop of a prune counts the very files that are there.
RestFits == \A p \in Installs :
  pc[p] = "download" /\ ~overrun => TotalSize(files \ {temp}) <= MaxBytes
AllCounted == \A p \in Installs :
  pc[p] = "pruning" /\ ~overrun => counted = files

BoundInv == CacheBounded /\ RestFits /\ AllCounted

LEMMA StillFits ==
  ASSUME NEW S \in SUBSET Names, TotalSize(S) <= MaxBytes, NEW T \in SUBSET S
  PROVE  TotalSize(T) <= MaxBytes
BY FewerFilesFit, ArtifactsAssumption

LEMMA BoundStep == TypeOK /\ BoundInv /\ [Next]_vars => BoundInv'
<1> SUFFICES ASSUME TypeOK, BoundInv, [Next]_vars PROVE BoundInv'
  OBVIOUS
<1> USE DEF GoTo, pruneVars
<1>0. files \in SUBSET Names
  BY DEF TypeOK
<1>1. ASSUME NEW p \in Installs,
             (\E a \in Artifacts : Request(p, a)) \/ Hit(p) \/ Unpack(p) \/ UnpackFails(p)
               \/ End(p)
      PROVE  BoundInv'
  <2>1. UNCHANGED <<files, temp, mutex, counted, overrun>>
    BY <1>1 DEF Request, Hit, Unpack, UnpackFails, End
  <2>2. \A q \in Installs : pc'[q] \in {"download", "pruning"} => pc[q] = pc'[q]
    BY <1>1 DEF Request, Hit, Unpack, UnpackFails, End, TypeOK
  <2> QED BY <2>1, <2>2 DEF BoundInv, CacheBounded, RestFits, AllCounted
<1>2. ASSUME NEW p \in Installs, Miss(p) PROVE BoundInv'
  <2>1. mutex = Nobody /\ mutex' = p /\ overrun' = overrun /\ p # Nobody
    BY <1>2, ArtifactsAssumption DEF Miss
  <2>2. files' \ {temp'} \in SUBSET files
    BY <1>2 DEF Miss, Rejected
  <2>3. ~overrun => TotalSize(files' \ {temp'}) <= MaxBytes
    BY <1>0, <2>1, <2>2, StillFits DEF BoundInv, CacheBounded
  <2>4. \A q \in Installs : pc'[q] # "pruning"
    BY <1>2, ArtifactsAssumption DEF Miss, TypeOK
  <2> QED BY <2>1, <2>3, <2>4 DEF BoundInv, CacheBounded, RestFits, AllCounted
<1>3. ASSUME NEW p \in Installs, MissFails(p) PROVE BoundInv'
  <2>1. mutex = Nobody /\ overrun' = overrun
    BY <1>3 DEF MissFails
  <2>2. files' \in SUBSET files
    BY <1>3 DEF MissFails, Rejected
  <2>3. ~overrun => TotalSize(files') <= MaxBytes
    BY <1>0, <2>1, <2>2, StillFits DEF BoundInv, CacheBounded
  <2>4. \A q \in Installs : pc'[q] \notin {"download", "pruning"}
    BY <1>3, ArtifactsAssumption DEF MissFails, TypeOK
  <2> QED BY <2>1, <2>3, <2>4 DEF BoundInv, CacheBounded, RestFits, AllCounted
<1>4. ASSUME NEW p \in Installs, Download(p) PROVE BoundInv'
  <2>1. mutex' = p /\ p # Nobody
    BY <1>4, ArtifactsAssumption DEF Download, TypeOK
  <2>2. \A q \in Installs : pc'[q] \notin {"download", "pruning"}
    BY <1>4 DEF Download, TypeOK
  <2> QED BY <2>1, <2>2 DEF BoundInv, CacheBounded, RestFits, AllCounted
<1>5. ASSUME NEW p \in Installs, DownloadFails(p) PROVE BoundInv'
  <2>1. ~overrun' => files' = files \ {temp} /\ ~overrun
    BY <1>5 DEF DownloadFails
  <2>2. ~overrun' => TotalSize(files') <= MaxBytes
    BY <1>5, <2>1 DEF DownloadFails, BoundInv, RestFits
  <2>3. \A q \in Installs : pc'[q] \notin {"download", "pruning"}
    BY <1>5 DEF DownloadFails, TypeOK
  <2> QED BY <2>2, <2>3 DEF BoundInv, CacheBounded, RestFits, AllCounted
<1>6. ASSUME NEW p \in Installs, StartPrune(p) PROVE BoundInv'
  <2>1. mutex' = p /\ p # Nobody
    BY <1>6, ArtifactsAssumption DEF StartPrune, TypeOK
  <2>2. \A q \in Installs : pc'[q] # "download"
    BY <1>6 DEF StartPrune, TypeOK
  <2>3. ~overrun' => counted' = files'
    BY <1>6 DEF StartPrune
  <2> QED BY <2>1, <2>2, <2>3 DEF BoundInv, CacheBounded, RestFits, AllCounted
<1>7. ASSUME NEW p \in Installs, PruneFails(p) PROVE BoundInv'
  BY <1>7 DEF PruneFails, BoundInv, CacheBounded, RestFits, AllCounted
<1>8. ASSUME NEW p \in Installs, NEW f \in todo, Evict(p, f) \/ EvictFails(p, f)
      PROVE  BoundInv'
  <2>1. mutex' = p /\ p # Nobody
    BY <1>8, ArtifactsAssumption DEF Evict, EvictFails, TypeOK
  <2>2. pc' = pc /\ overrun' = overrun /\ pc[p] = "pruning"
    BY <1>8 DEF Evict, EvictFails
  <2>3. \A q \in Installs : pc'[q] # "download"
    BY <2>2 DEF TypeOK
  <2>4. ~overrun => counted' = files'
    BY <1>8, <2>2 DEF Evict, EvictFails, BoundInv, AllCounted
  <2> QED BY <2>1, <2>2, <2>3, <2>4 DEF BoundInv, CacheBounded, RestFits, AllCounted
<1>9. ASSUME NEW p \in Installs, EndPrune(p) PROVE BoundInv'
  <2>1. ~overrun' => ~overrun /\ ~AboveLimit
    BY <1>9 DEF EndPrune
  <2>2. TotalSize(files) \in Nat /\ files' = files
    BY <1>0, <1>9, FewerFilesFit DEF EndPrune
  <2>3. ~overrun' => counted = files
    BY <1>9, <2>1 DEF EndPrune, BoundInv, AllCounted
  <2>4. ~overrun' => TotalSize(files) <= MaxBytes
    BY <2>1, <2>2, <2>3, ArtifactsAssumption DEF AboveLimit
  <2>5. \A q \in Installs : pc'[q] \notin {"download", "pruning"}
    BY <1>9 DEF EndPrune, TypeOK
  <2> QED BY <2>2, <2>4, <2>5 DEF BoundInv, CacheBounded, RestFits, AllCounted
<1>10. CASE Crash
  <2>1. \A q \in Installs : pc'[q] \notin {"download", "pruning"}
    BY <1>10 DEF Crash
  <2>2. ~overrun' => ~overrun /\ mutex = Nobody /\ files' = files
    BY <1>10 DEF Crash
  <2> QED BY <2>1, <2>2 DEF BoundInv, CacheBounded, RestFits, AllCounted
<1>11. CASE UNCHANGED vars
  BY <1>11 DEF vars, BoundInv, CacheBounded, RestFits, AllCounted
<1> QED BY <1>1, <1>2, <1>3, <1>4, <1>5, <1>6, <1>7, <1>8, <1>9, <1>10, <1>11
        DEF Next, Step

\* While nobody downloads or prunes, the cache is within its limit, unless something
\* was left behind since the last prune that read every file and made the rest fit
\* (CacheBounded names what): also with files that a prune could not remove, as long
\* as removing others was enough.
THEOREM CacheStaysBounded ==
  ASSUME Artifacts # {}
  PROVE  Spec => []CacheBounded
<1>1. Init => BoundInv
  BY EmptyFits DEF Init, BoundInv, CacheBounded, RestFits, AllCounted
<1>2. BoundInv => CacheBounded
  BY DEF BoundInv
<1> QED BY <1>1, <1>2, CacheTypeCorrect, BoundStep, PTL DEF Spec

-----------------------------------------------------------------------------
(***************************************************************************)
(* What goes.                                                              *)
(***************************************************************************)
MayGo(f) ==
  \/ f = temp
  \/ \E p \in Installs : pc[p] = "waiting" /\ pc'[p] # "waiting" /\ f = want[p]
  \/ TotalSize(files) > MaxBytes

LEMMA EvictsStep ==
  ASSUME TypeOK, [Next]_vars, NEW f \in files \ files'
  PROVE  MayGo(f)
<1> USE DEF GoTo
<1>1. ASSUME NEW p \in Installs, Miss(p) \/ MissFails(p) PROVE MayGo(f)
  <2>1. f = want[p] /\ pc[p] = "waiting"
    BY <1>1 DEF Miss, MissFails, Rejected
  <2>2. pc'[p] # "waiting"
    BY <1>1 DEF Miss, MissFails, TypeOK
  <2> QED BY <2>1, <2>2 DEF MayGo
<1>2. ASSUME NEW p \in Installs, Download(p) \/ DownloadFails(p) PROVE MayGo(f)
  BY <1>2 DEF Download, DownloadFails, MayGo
<1>3. ASSUME NEW p \in Installs, NEW g \in todo, Evict(p, g) PROVE MayGo(f)
  <2>1. files \in SUBSET Names /\ counted \in SUBSET files
    BY DEF TypeOK
  <2>2. /\ TotalSize(files) \in Nat /\ TotalSize(counted) \in Nat
        /\ TotalSize(counted) <= TotalSize(files)
    BY <2>1, FewerFilesFit
  <2>3. TotalSize(counted) > MaxBytes
    BY <1>3 DEF Evict, AboveLimit
  <2>4. TotalSize(files) > MaxBytes
    BY <2>2, <2>3, ArtifactsAssumption
  <2> QED BY <2>4 DEF MayGo
<1>4. ASSUME UNCHANGED files PROVE MayGo(f)
  BY <1>4
<1> QED BY <1>1, <1>2, <1>3, <1>4
        DEF Next, Step, Request, Hit, StartPrune, PruneFails, EndPrune, EvictFails,
            Unpack, UnpackFails, End, Crash, vars

\* A file goes only as the temporary file of the download at work, as one that the
\* install which wants it could not use, or while the directory is above its limit
\* (pruneArtifactCache), whatever earlier prunes could not read or remove.
THEOREM CacheEvictsAboveLimit ==
  ASSUME Artifacts # {}
  PROVE  Spec => EvictsAboveLimit
<1>1. TypeOK /\ [Next]_vars => [\A f \in files \ files' :
       \/ f = temp
       \/ \E p \in Installs : pc[p] = "waiting" /\ pc'[p] # "waiting" /\ f = want[p]
       \/ TotalSize(files) > MaxBytes]_vars
  BY EvictsStep DEF MayGo
<1> QED BY <1>1, CacheTypeCorrect, PTL DEF Spec, EvictsAboveLimit
=============================================================================
