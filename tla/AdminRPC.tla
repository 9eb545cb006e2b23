------------------------------- MODULE AdminRPC -------------------------------
(***************************************************************************)
(* The client of src/internal/adminrpc that the heartbeat loop and the     *)
(* metrics loop share: invokeWithRecovery with its preflight renewal       *)
(* check, reconnect, and the rotation of the TLS material with the         *)
(* bootstrap token (rpc.go, renew.go, client.go, bootstrap.go).            *)
(*                                                                         *)
(* TLS material is known by the number of the BootstrapAgent answer it     *)
(* came with: a key and a certificate fit when their numbers are equal.    *)
(* The process starts in New, played by Main, with the same steps as a     *)
(* rotation.  maybeRenewClientCertificate calls invokeWithRecovery with    *)
(* certRenewMu locked; the nested call locks it again and Go's mutexes are *)
(* not reentrant, so nothing after that point of renew.go is ever reached  *)
(* and nothing of it is modelled.                                          *)
(***************************************************************************)
EXTENDS Naturals, Sequences, FiniteSets

CONSTANTS
  Callers,      \* the loops that call Admin
  Main,         \* NewHeartbeatClient
  Nobody,       \* an unlocked mutex
  Torn,         \* the content of a file whose write failed or was cut
  Absent,       \* a file that does not exist, a connection that is nil
  Environments  \* what may go wrong, and a bound on the answers of BootstrapAgent

\* Errors of a call other than a refused certificate, and what else may happen.
Faults == {"unreachable", "denied", "other"}
Events == {"age", "refuse", "disk", "crash", "close"}

ASSUME CallersAssumption == Main \notin Callers /\ Nobody \notin Callers
ASSUME ContentAssumption == {Torn, Absent} \cap Nat = {}
ASSUME EnvironmentsAssumption ==
  Environments \subseteq [may : SUBSET (Faults \cup Events), answers : Nat \ {0}]

VARIABLES
  env,  \* the environment of this behaviour
  agent,        \* "down", "starting", "up" or "closed" (after Close)
  files,        \* the TLS material on disk
  conn,         \* the number of the material c.conn was dialled with
  certRenewMu,
  checked,      \* certRenewCheckInterval has not passed since lastCertCheckAt
  aged,         \* certificates inside their renew window
  refused,      \* certificates Admin does not accept any more
  issued,       \* the last number BootstrapAgent gave
  pc,           \* where each caller is
  attempt,      \* how often it invoked the RPC
  stale,        \* the connection it invokes on was closed by a reconnect
  material,     \* the number of the material it writes
  written,      \* how many of the files it has written
  mixed         \* history: the last rotation was cut short, or others wrote during it

callerVars == <<pc, attempt, stale, material, written>>
vars == <<env, agent, files, conn, certRenewMu, checked, aged, refused, issued, callerVars,
          mixed>>

Processes == Callers \cup {Main}
Ids == Nat
\* The order in which ensureAgentClientCertificate writes the files.
WriteOrder == <<"clientKey", "clientCert", "serverKey", "serverCert", "ca">>
Files == {WriteOrder[i] : i \in 1 .. 5}

Phases == {"idle", "preflight", "check", "call", "reconnect", "rotate", "write"}

\* isRecoverableAdminRPCError and shouldTryBootstrapRotation.
Recoverable == {"unreachable", "refused"}
\* Mutant: a refused certificate does not lead to a rotation.
CuredByRotationDenied == {"denied"}
CuredByRotation == {"refused", "denied"}

\* certAndKeyExists for both pairs.
MaterialExists == \A f \in Files \ {"ca"} : files[f] # Absent

\* AdminTLSConfig: the CA file is usable and key and certificate fit.
Loads ==
  /\ files["ca"] # Torn
  /\ files["clientCert"] \in Ids
  /\ files["clientCert"] = files["clientKey"]

-----------------------------------------------------------------------------
\* install.sh put the CA in place and removed older keys and certificates.
Init ==
  /\ env \in Environments
  /\ agent = "down"
  /\ files = [f \in Files |-> IF f = "ca" THEN 0 ELSE Absent]
  /\ conn = Absent
  /\ certRenewMu = Nobody
  /\ checked = FALSE
  /\ aged = {} /\ refused = {}
  /\ issued = 0
  /\ pc = [p \in Processes |-> "idle"]
  /\ attempt = [p \in Processes |-> 0]
  /\ stale = [p \in Processes |-> FALSE]
  /\ material = [p \in Processes |-> 0]
  /\ written = [p \in Processes |-> 0]
  /\ mixed = FALSE

GoTo(p, phase) == pc' = [pc EXCEPT ![p] = phase]

\* Mutant: the attempts of the last call are counted on.
ReturnCounting(p) ==
  /\ GoTo(p, "idle")
  /\ UNCHANGED attempt
  /\ stale' = [stale EXCEPT ![p] = FALSE]
  /\ material' = [material EXCEPT ![p] = 0]
  /\ written' = [written EXCEPT ![p] = 0]

\* The caller returns, with or without an error; when Main cannot go on, New
\* fails and the process exits.
Return(p) ==
  /\ GoTo(p, "idle")
  /\ attempt' = [attempt EXCEPT ![p] = 0]
  /\ stale' = [stale EXCEPT ![p] = FALSE]
  /\ material' = [material EXCEPT ![p] = 0]
  /\ written' = [written EXCEPT ![p] = 0]

GiveUp(p) ==
  /\ Return(p)
  /\ agent' = IF p = Main THEN "down" ELSE agent

\* NewHeartbeatClient: material on disk is taken as it is, else bootstrapped.
New ==
  /\ agent = "down"
  /\ agent' = "starting"
  /\ GoTo(Main, IF MaterialExists THEN "reconnect" ELSE "rotate")
  /\ UNCHANGED <<env, files, conn, certRenewMu, checked, aged, refused, issued,
                 attempt, stale, material, written, mixed>>

\* A call of the client, up to certRenewMu.Lock in its invokeWithRecovery.  Every
\* method first returns an error when c.conn is nil, so after Close none begins,
\* unless a call that was under way made a new connection.
Begin(p) ==
  /\ agent \in {"up", "closed"}
  /\ conn # Absent
  /\ pc[p] = "idle"
  /\ GoTo(p, "preflight")
  /\ UNCHANGED <<env, agent, files, conn, certRenewMu, checked, aged, refused, issued,
                 attempt, stale, material, written, mixed>>

LockRenewal(p) ==
  /\ pc[p] = "preflight"
  /\ certRenewMu = Nobody
  /\ certRenewMu' = p
  /\ GoTo(p, "check")
  /\ UNCHANGED <<env, agent, files, conn, checked, aged, refused, issued,
                 attempt, stale, material, written, mixed>>

LeafCertificatesLoad == files["clientCert"] \in Ids /\ files["serverCert"] \in Ids
NearExpiry == LeafCertificatesLoad /\ {files["clientCert"], files["serverCert"]} \cap aged # {}

\* Mutant: the early return does not unlock.
NothingToRenewLocked(p) ==
  /\ pc[p] = "check"
  /\ checked \/ ~NearExpiry
  /\ checked' = TRUE
  /\ IF conn = Absent
     THEN GoTo(p, "reconnect") /\ UNCHANGED attempt
     ELSE GoTo(p, "call") /\ attempt' = [attempt EXCEPT ![p] = 1]
  /\ UNCHANGED <<env, agent, files, conn, certRenewMu, aged, refused, issued,
                 stale, material, written, mixed>>

\* Nothing to renew, or the check failed: the call goes on over the current
\* connection; without one it reconnects first.
NothingToRenew(p) ==
  /\ pc[p] = "check"
  /\ checked \/ ~NearExpiry
  /\ certRenewMu' = Nobody
  /\ checked' = TRUE
  /\ IF conn = Absent
     THEN GoTo(p, "reconnect") /\ UNCHANGED attempt
     ELSE GoTo(p, "call") /\ attempt' = [attempt EXCEPT ![p] = 1]
  /\ UNCHANGED <<env, agent, files, conn, aged, refused, issued, stale, material, written, mixed>>

\* renewClientCertificate: invokeWithRecovery again, with the mutex held.
Renew(p) ==
  /\ pc[p] = "check"
  /\ ~checked /\ NearExpiry
  /\ checked' = TRUE
  /\ GoTo(p, "preflight")
  /\ UNCHANGED <<env, agent, files, conn, certRenewMu, aged, refused, issued,
                 attempt, stale, material, written, mixed>>

\* The errors the call can end with on the connection it has.
Errors(p) ==
  IF stale[p] THEN {"other"}
  ELSE (Faults \cap env.may) \cup (IF conn \in refused THEN {"refused"} ELSE {})

CallSucceeds(p) ==
  /\ pc[p] = "call"
  /\ ~stale[p] /\ conn \in Ids \ refused
  /\ Return(p)
  /\ UNCHANGED <<env, agent, files, conn, certRenewMu, checked, aged, refused, issued, mixed>>

\* The first error is retried over a new connection when it is recoverable; the
\* second one after a rotation when that may cure it; the third is final.
Recovery(p, e) ==
  CASE attempt[p] = 1 /\ e \in Recoverable -> "reconnect"
    [] attempt[p] = 2 /\ e \in CuredByRotation -> "rotate"
    [] OTHER -> "idle"

CallFailsWith(p, e) ==
  /\ pc[p] = "call"
  /\ e \in Errors(p)
  /\ IF Recovery(p, e) = "idle"
     THEN Return(p)
     ELSE GoTo(p, Recovery(p, e)) /\ UNCHANGED <<attempt, stale, material, written>>
  /\ UNCHANGED <<env, agent, files, conn, certRenewMu, checked, aged, refused, issued, mixed>>

CallFails(p) == \E e \in Faults \cup {"refused"} : CallFailsWith(p, e)

\* reconnect, under reconnectMu: the new connection replaces the old one, which
\* is closed under whoever still uses it.
Reconnect(p) ==
  /\ pc[p] = "reconnect"
  /\ Loads
  /\ conn' = files["clientCert"]
  /\ IF p = Main
     THEN /\ agent' = "up"
          /\ Return(p)
     ELSE /\ GoTo(p, "call")
          /\ attempt' = [attempt EXCEPT ![p] = @ + 1]
          /\ stale' = [q \in Processes |-> q # p /\ pc[q] = "call"]
          /\ UNCHANGED <<agent, material, written>>
  /\ UNCHANGED <<env, files, certRenewMu, checked, aged, refused, issued, mixed>>

\* Mutant: the old connection is given up before the new one is there.
ReconnectFailsClosed(p) ==
  /\ pc[p] = "reconnect"
  /\ ~Loads
  /\ GiveUp(p)
  /\ conn' = Absent
  /\ UNCHANGED <<env, files, certRenewMu, checked, aged, refused, issued, mixed>>

ReconnectFails(p) ==
  /\ pc[p] = "reconnect"
  /\ ~Loads
  /\ GiveUp(p)
  /\ UNCHANGED <<env, files, conn, certRenewMu, checked, aged, refused, issued, mixed>>

\* BootstrapAgent answers with certificates for the keys just generated.
Bootstrap(p) ==
  /\ pc[p] = "rotate"
  /\ files["ca"] # Torn
  /\ issued < env.answers
  /\ issued' = issued + 1
  /\ material' = [material EXCEPT ![p] = issued + 1]
  /\ GoTo(p, "write")
  /\ mixed' = \E q \in Processes : pc[q] = "write"
  /\ UNCHANGED <<env, agent, files, conn, certRenewMu, checked, aged, refused,
                 attempt, stale, written>>

\* The CA cannot be read, or the RPC fails (always, once the bound is reached).
BootstrapFails(p) ==
  /\ pc[p] = "rotate"
  /\ files["ca"] = Torn \/ Faults \cap env.may # {} \/ issued = env.answers
  /\ GiveUp(p)
  /\ UNCHANGED <<env, files, conn, certRenewMu, checked, aged, refused, issued, mixed>>

NextFile(p) == WriteOrder[written[p] + 1]

\* Mutant: the serving certificate and the CA are not written.
WriteThree(p) ==
  /\ pc[p] = "write"
  /\ files' = [files EXCEPT ![NextFile(p)] = material[p]]
  /\ written' = [written EXCEPT ![p] = @ + 1]
  /\ GoTo(p, IF written[p] + 1 = 3 THEN "reconnect" ELSE "write")
  /\ UNCHANGED <<env, agent, conn, certRenewMu, checked, aged, refused, issued,
                 attempt, stale, material, mixed>>

Write(p) ==
  /\ pc[p] = "write"
  /\ files' = [files EXCEPT ![NextFile(p)] = material[p]]
  /\ written' = [written EXCEPT ![p] = @ + 1]
  /\ GoTo(p, IF written[p] + 1 = 5 THEN "reconnect" ELSE "write")
  /\ UNCHANGED <<env, agent, conn, certRenewMu, checked, aged, refused, issued,
                 attempt, stale, material, mixed>>

WriteFails(p) ==
  /\ "disk" \in env.may
  /\ pc[p] = "write"
  /\ files' = [files EXCEPT ![NextFile(p)] = Torn]
  /\ mixed' = TRUE
  /\ GiveUp(p)
  /\ UNCHANGED <<env, conn, certRenewMu, checked, aged, refused, issued>>

\* HeartbeatClient.Close, by Agent.shutdown: it may come while calls run.
Close ==
  /\ "close" \in env.may
  /\ agent = "up"
  /\ agent' = "closed"
  /\ conn' = Absent
  /\ stale' = [q \in Processes |-> pc[q] = "call"]
  /\ UNCHANGED <<env, files, certRenewMu, checked, aged, refused, issued,
                 pc, attempt, material, written, mixed>>

\* The process ends, perhaps while a file is written.
Exit ==
  /\ agent = "closed" \/ (agent # "down" /\ "crash" \in env.may)
  /\ agent' = "down"
  /\ conn' = Absent
  /\ certRenewMu' = Nobody
  /\ checked' = FALSE
  /\ \/ UNCHANGED files
     \/ \E p \in Processes : /\ pc[p] = "write"
                             /\ files' = [files EXCEPT ![NextFile(p)] = Torn]
  /\ mixed' = (mixed \/ \E p \in Processes : pc[p] = "write")
  /\ pc' = [p \in Processes |-> "idle"]
  /\ attempt' = [p \in Processes |-> 0]
  /\ stale' = [p \in Processes |-> FALSE]
  /\ material' = [p \in Processes |-> 0]
  /\ written' = [p \in Processes |-> 0]
  /\ UNCHANGED <<env, aged, refused, issued>>

\* Time, and the Admin's view of old certificates.
IntervalPasses ==
  /\ checked
  /\ checked' = FALSE
  /\ UNCHANGED <<env, agent, files, conn, certRenewMu, aged, refused, issued, callerVars, mixed>>

CertificatesAge ==
  /\ "age" \in env.may
  /\ issued \notin aged \cup {0}
  /\ aged' = aged \cup (1 .. issued)
  /\ UNCHANGED <<env, agent, files, conn, certRenewMu, checked, refused, issued, callerVars, mixed>>

CertificatesRefused ==
  /\ "refuse" \in env.may
  /\ issued \notin refused \cup {0, env.answers}
  /\ refused' = refused \cup (1 .. issued)
  /\ UNCHANGED <<env, agent, files, conn, certRenewMu, checked, aged, issued, callerVars, mixed>>

Step(p) ==
  \/ LockRenewal(p) \/ NothingToRenew(p) \/ Renew(p)
  \/ CallSucceeds(p) \/ CallFails(p)
  \/ Reconnect(p) \/ ReconnectFails(p)
  \/ Bootstrap(p) \/ BootstrapFails(p)
  \/ Write(p) \/ WriteFails(p)

Next ==
  \/ New
  \/ \E p \in Callers : Begin(p)
  \/ \E p \in Processes : Step(p)
  \/ Close
  \/ Exit
  \/ IntervalPasses \/ CertificatesAge \/ CertificatesRefused

Spec == Init /\ [][Next]_vars

\* The service manager starts the agent, its loops tick, and every call has a
\* deadline; a mutex is handed to the goroutine that waits longest for it.
FairSpec ==
  /\ Spec
  /\ WF_vars(New)
  /\ WF_vars(Step(Main))
  /\ \A p \in Callers : WF_vars(Begin(p)) /\ WF_vars(Step(p)) /\ SF_vars(LockRenewal(p))

-----------------------------------------------------------------------------
\* Types of the HeartbeatClient's fields, of the files and of its callers.
TypeOK ==
  /\ env \in Environments
  /\ agent \in {"down", "starting", "up", "closed"}
  /\ files \in [Files -> Ids \cup {Torn, Absent}]
  /\ conn \in Ids \cup {Absent}
  /\ certRenewMu \in Callers \cup {Nobody}
  /\ checked \in BOOLEAN
  /\ aged \subseteq Ids /\ refused \subseteq Ids
  /\ issued \in Ids
  /\ pc \in [Processes -> Phases]
  /\ attempt \in [Processes -> 0 .. 3]
  /\ stale \in [Processes -> BOOLEAN]
  /\ material \in [Processes -> Ids]
  /\ written \in [Processes -> 0 .. 5]
  /\ mixed \in BOOLEAN

\* reconnect replaces the connection only by one it could build: until Close the
\* agent is never without a connection, even when the files no longer load.
ConnectionKept == agent = "up" => conn # Absent

\* Rotation leaves a usable identity: whenever no rotation is under way, keys
\* and certificates fit, for the client and for the probe listener, also after
\* earlier rotations that overlapped or failed.  Only while the last rotation is
\* itself one of those, they need not.
MaterialFits ==
  agent = "up" /\ ~mixed /\ (\A p \in Callers : pc[p] # "write") =>
    /\ files["clientKey"] = files["clientCert"]
    /\ files["serverKey"] = files["serverCert"]

\* DEVELOPMENT.md: reconnect logic must be idempotent; README.md: the agent
\* reconnects by itself when it loses the backend.  Once the recovery of
\* both loops has run, the material on disk is one that can be loaded.
RecoveryLeavesMaterial ==
  agent = "up" /\ (\A p \in Callers : pc[p] \in {"idle", "preflight", "check"}) => Loads

\* README.md: the agent reports heartbeats periodically.  A loop that calls
\* Admin comes back from the call.
CallsEnd == \A p \in Callers : pc[p] # "idle" ~> pc[p] = "idle"

\* As long as no certificate came near its expiry, every call comes back, through
\* refused certificates, failed rotations, crashes and Close.
CallsEndBeforeExpiry ==
  \A p \in Callers : pc[p] # "idle" ~> pc[p] = "idle" \/ aged # {}

\* Admin is reached again and again: a first and a second attempt on a refused
\* certificate are refused and not always lost, and BootstrapAgent answers.
AdminAnswers ==
  /\ \A n \in {1, 2} :
       SF_vars(\E p \in Callers : attempt[p] = n /\ CallFailsWith(p, "refused"))
  /\ SF_vars(\E p \in Callers : Bootstrap(p))

\* When Admin refuses the certificate of the connection, the agent gets itself a
\* connection Admin accepts (shouldTryBootstrapRotation), with two loops that
\* recover at the same time, unless their rotations mix, or a certificate comes
\* near its expiry, or the agent stops.
RefusalCured ==
  AdminAnswers =>
    (agent = "up" /\ conn \in refused ~>
       agent # "up" \/ conn \in Ids \ refused \/ mixed \/ aged # {})
=============================================================================
