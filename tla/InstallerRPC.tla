----------------------------- MODULE InstallerRPC -----------------------------
(***************************************************************************)
(* The install, restart and uninstall handlers of                          *)
(* src/internal/agent/install/rpc_service.go: each works under a handle of *)
(* OperationJournal, changes the host and then records the result in       *)
(* installed_modules.json (state_store.go).                                *)
(*                                                                         *)
(* The inventory has no lock of its own.  upsertInstalledModule and        *)
(* removeInstalledModule load the whole file, change one entry and rewrite *)
(* it with os.WriteFile, which first truncates it and then writes; the     *)
(* module locks keep apart only operations on the same module.  Entries    *)
(* are keyed by the module name as it was sent, locks by its normal form.  *)
(*                                                                         *)
(* The version an install brings is the call itself, so that every install *)
(* is of a version of its own.  What the engine does to the host is the    *)
(* subject of InstallEngine; here an install either deploys its version or *)
(* fails and leaves the host as it was or "broken".                        *)
(***************************************************************************)
EXTENDS OperationJournal

CONSTANTS
  Names,          \* module names as clients send them, trimmed
  KeyOf,          \* normalizeModuleName
  NoEntry,        \* a name the inventory does not hold
  NoVersion,      \* the empty version
  CapabilitySets, \* the capabilities a manifest may grant
  InventoryFaults,\* TRUE when reading and writing the inventory may fail
  AllowCrash      \* whether the process may die

ASSUME NamesAssumption ==
  /\ KeyOf \in [Names -> Modules]
  /\ NoVersion \notin Calls
  /\ InventoryFaults \in BOOLEAN
  /\ AllowCrash \in BOOLEAN

\* InstalledModuleRecord: the fields restart and uninstall read or drop.
Entry == [version : Calls \cup {NoVersion}, capabilities : CapabilitySets]
ASSUME EntryAssumption ==
  /\ NoEntry \notin Entry
  /\ {"restart", "uninstall"} \in CapabilitySets

VARIABLES
  action,       \* which RPC the call is
  name,         \* req.Module
  step,         \* how far an executing handler is
  kept,         \* the entry getInstalledModule returned to the handler
  snapshot,     \* the inventory the handler loaded and is about to save
  inventory,    \* the entries in installed_modules.json
  file,         \* "whole", "empty" (truncated) or "garbled" (does not decode)
  host,         \* per module: what is deployed, "absent" or "broken"
  stale         \* history: the names whose last result could not be recorded

handlerVars == <<action, name, step, kept, snapshot>>
inventoryVars == <<inventory, file, stale>>
rpcVars == <<vars, handlerVars, inventoryVars, host>>

Actions == {"install", "restart", "uninstall"}
EmptyInventory == [n \in Names |-> NoEntry]

RpcInit ==
  /\ Init
  /\ action = [c \in Calls |-> "install"]
  /\ name = [c \in Calls |-> CHOOSE n \in Names : TRUE]
  /\ step = [c \in Calls |-> "idle"]
  /\ kept = [c \in Calls |-> NoEntry]
  /\ snapshot = [c \in Calls |-> EmptyInventory]
  /\ inventory = EmptyInventory
  /\ file = "whole"
  /\ host = [m \in Modules |-> "absent"]
  /\ stale = {}

Key(c) == KeyOf[name[c]]
At(c, s) == pc[c] = "executing" /\ step[c] = s
GoTo(c, s) == step' = [step EXCEPT ![c] = s]

\* loadInstalledModules: a missing or blank file is an empty inventory.
Loadable == file # "garbled"
Loaded == IF file = "empty" THEN EmptyInventory ELSE inventory

-----------------------------------------------------------------------------
\* The RPC reaches beginOperation.
Start(c, a, n, r) ==
  /\ BeginOperation(c, r, KeyOf[n])
  /\ action' = [action EXCEPT ![c] = a]
  /\ name' = [name EXCEPT ![c] = n]
  /\ GoTo(c, IF a = "install" THEN "work" ELSE "lookup")
  /\ UNCHANGED <<kept, snapshot, inventoryVars, host>>

Refuse(c, a, n, r) ==
  /\ \/ BeginRejected(c, r, KeyOf[n])
     \/ BeginSaveFails(c, r, KeyOf[n])
     \/ Replay(c, r)
  /\ action' = [action EXCEPT ![c] = a]
  /\ name' = [name EXCEPT ![c] = n]
  /\ UNCHANGED <<step, kept, snapshot, inventoryVars, host>>

\* handle.Fail or handle.Complete, after which the handler only answers.
End(c, o) ==
  /\ Finish(c, o)
  /\ GoTo(c, "idle")
  /\ kept' = [kept EXCEPT ![c] = NoEntry]
  /\ snapshot' = [snapshot EXCEPT ![c] = EmptyInventory]
  /\ UNCHANGED <<action, name>>

\* getInstalledModule and the capability check of restart and uninstall.
Grants(e) == IF e = NoEntry THEN Actions ELSE e.capabilities
Permitted(c) == action[c] \in Grants(Loaded[name[c]])

Lookup(c) ==
  /\ At(c, "lookup")
  /\ Loadable /\ Permitted(c)
  /\ kept' = [kept EXCEPT ![c] = Loaded[name[c]]]
  /\ GoTo(c, "work")
  /\ UNCHANGED <<vars, action, name, snapshot, inventoryVars, host>>

LookupFails(c) ==
  /\ At(c, "lookup")
  /\ ~Loadable \/ ~Permitted(c) \/ InventoryFaults
  /\ End(c, "failed")
  /\ UNCHANGED <<inventoryVars, host>>

\* Mutant: a restart leaves a state of its own.
DeployedRestarted(c) ==
  CASE action[c] = "install" -> c
    [] action[c] = "restart" -> "restarted"
    [] action[c] = "uninstall" -> "absent"

\* The engine or systemctl did the work; the stage was reported on the way.
Deployed(c) ==
  CASE action[c] = "install" -> c
    [] action[c] = "restart" -> host[Key(c)]
    [] action[c] = "uninstall" -> "absent"

\* Mutant: an uninstall leaves the inventory alone.
WorkUnrecorded(c) ==
  /\ At(c, "work")
  /\ action[c] = "restart" => host[Key(c)] # "absent"
  /\ \/ UpdateStage(c)
     \/ (~Known(request[c]) \/ ReadFaults) /\ UNCHANGED vars
  /\ host' = [host EXCEPT ![Key(c)] = Deployed(c)]
  /\ GoTo(c, IF action[c] = "uninstall" THEN "finish" ELSE "load")
  /\ UNCHANGED <<action, name, kept, snapshot, inventoryVars>>

Work(c) ==
  /\ At(c, "work")
  /\ action[c] = "restart" => host[Key(c)] # "absent"
  /\ \/ UpdateStage(c)
     \/ (~Known(request[c]) \/ ReadFaults) /\ UNCHANGED vars
  /\ host' = [host EXCEPT ![Key(c)] = Deployed(c)]
  /\ GoTo(c, "load")
  /\ UNCHANGED <<action, name, kept, snapshot, inventoryVars>>

\* The work fails and is reported with Fail: a failed install was rolled back,
\* or not entirely; a failed uninstall stops half-way; a restart deploys nothing.
WorkFails(c) ==
  /\ At(c, "work")
  /\ End(c, "failed")
  /\ \/ UNCHANGED host
     \/ /\ action[c] # "restart"
        /\ host' = [host EXCEPT ![Key(c)] = "broken"]
  /\ UNCHANGED inventoryVars

\* The early returns of UninstallModule that do not call Fail.
WorkAbandoned(c) ==
  /\ At(c, "work")
  /\ action[c] = "uninstall"
  /\ Abandon(c)
  /\ GoTo(c, "idle")
  /\ kept' = [kept EXCEPT ![c] = NoEntry]
  /\ host' = [host EXCEPT ![Key(c)] = "broken"]
  /\ UNCHANGED <<action, name, snapshot, inventoryVars>>

\* The inventory could not be loaded or saved: the handler ignores the error and
\* answers that the operation succeeded.
Unrecorded(c) ==
  /\ stale' = stale \cup {name[c]}
  /\ GoTo(c, "finish")

\* upsertInstalledModule and removeInstalledModule: load, ...
LoadInventory(c) ==
  /\ At(c, "load")
  /\ \/ /\ Loadable
        /\ snapshot' = [snapshot EXCEPT ![c] = Loaded]
        /\ GoTo(c, "truncate")
        /\ UNCHANGED stale
     \/ /\ ~Loadable \/ InventoryFaults
        /\ Unrecorded(c)
        /\ UNCHANGED snapshot
  /\ UNCHANGED <<vars, action, name, kept, inventory, file, host>>

\* ... open with O_TRUNC, unless the directory or the file refuses, ...
TruncateInventory(c) ==
  /\ At(c, "truncate")
  /\ \/ /\ file' = "empty"
        /\ inventory' = EmptyInventory
        /\ GoTo(c, "write")
        /\ UNCHANGED stale
     \/ /\ InventoryFaults
        /\ Unrecorded(c)
        /\ UNCHANGED <<inventory, file>>
  /\ UNCHANGED <<vars, action, name, kept, snapshot, host>>

\* Mutant: a restart records a version of its own.
NewEntryVersioned(c, capabilities) ==
  IF action[c] = "uninstall" THEN NoEntry ELSE [version |-> c, capabilities |-> capabilities]

\* restart writes a record without version; without a record to start from,
\* it makes one with the default capabilities.
NewEntry(c, capabilities) ==
  CASE action[c] = "install" -> [version |-> c, capabilities |-> capabilities]
    [] action[c] = "restart" ->
         [version |-> NoVersion,
          capabilities |-> IF kept[c] = NoEntry THEN {"restart", "uninstall"}
                                                ELSE kept[c].capabilities]
    [] action[c] = "uninstall" -> NoEntry

\* ... and write.  Over the content of another writer the result may be neither
\* text: the longer one shows behind the shorter one.  A write that fails leaves
\* the file as it is or a text cut short.
WriteInventory(c) ==
  /\ At(c, "write")
  /\ \/ /\ file' = "whole"
        /\ \E capabilities \in CapabilitySets :
             inventory' = [snapshot[c] EXCEPT ![name[c]] = NewEntry(c, capabilities)]
        /\ GoTo(c, "finish")
        /\ stale' = stale \ {name[c]}
     \/ /\ file # "empty"
        /\ file' = "garbled"
        /\ inventory' = EmptyInventory
        /\ GoTo(c, "finish")
        /\ UNCHANGED stale
     \/ /\ InventoryFaults
        /\ \/ UNCHANGED <<inventory, file>>
           \/ file' = "garbled" /\ inventory' = EmptyInventory
        /\ Unrecorded(c)
  /\ UNCHANGED <<vars, action, name, kept, snapshot, host>>

Succeed(c) ==
  /\ At(c, "finish")
  /\ End(c, "completed")
  /\ UNCHANGED <<inventoryVars, host>>

Answer(c) ==
  /\ Release(c)
  /\ UNCHANGED <<handlerVars, inventoryVars, host>>

\* The process dies with its handlers; the files and the host stay.
Die ==
  /\ AllowCrash
  /\ Crash \/ CrashInSave
  /\ step' = [c \in Calls |-> "idle"]
  /\ kept' = [c \in Calls |-> NoEntry]
  /\ snapshot' = [c \in Calls |-> EmptyInventory]
  /\ UNCHANGED <<action, name, inventoryVars, host>>

Recover ==
  /\ Boot \/ BootFails
  /\ UNCHANGED <<handlerVars, inventoryVars, host>>

Progress(c) ==
  \/ Lookup(c) \/ LookupFails(c)
  \/ Work(c) \/ WorkFails(c) \/ WorkAbandoned(c)
  \/ LoadInventory(c) \/ TruncateInventory(c) \/ WriteInventory(c)
  \/ Succeed(c) \/ Answer(c)

RpcNext ==
  \/ \E c \in Calls, a \in Actions, n \in Names, r \in Requests :
       Start(c, a, n, r) \/ Refuse(c, a, n, r)
  \/ \E c \in Calls : Progress(c)
  \/ Die
  \/ Recover

RpcSpec == RpcInit /\ [][RpcNext]_rpcVars

-----------------------------------------------------------------------------
\* Types of the variables the handlers add (rpc_service.go, state_store.go).
RpcTypeOK ==
  /\ TypeOK
  /\ action \in [Calls -> Actions]
  /\ name \in [Calls -> Names]
  /\ step \in [Calls -> {"idle", "lookup", "work", "load", "truncate", "write", "finish"}]
  /\ kept \in [Calls -> Entry \cup {NoEntry}]
  /\ snapshot \in [Calls -> [Names -> Entry \cup {NoEntry}]]
  /\ inventory \in [Names -> Entry \cup {NoEntry}]
  /\ file \in {"whole", "empty", "garbled"}
  /\ host \in [Modules -> Calls \cup {"absent", "broken"}]
  /\ stale \subseteq Names

\* The inventory never names a version that was not deployed by an install of
\* that very name, even when writers overwrite each other's snapshots.
RecordedWasInstalled ==
  \A n \in Names : inventory[n] # NoEntry /\ inventory[n].version # NoVersion =>
    LET v == inventory[n].version
    IN  /\ action[v] = "install" /\ name[v] = n
        /\ \/ pc[v] = "cut"
           \/ pc[v] = "executing" /\ step[v] = "finish"
           \/ pc[v] \in {"releasing", "answered"} /\ outcome[v] = "completed"

\* As long as the operations that ran were all for one module under one name, none
\* is at work or was cut by a crash, and no emptied journal let two work at once, the
\* version in the inventory is the deployed one, unless an operation failed half-way
\* and left the host broken, or the last one to deploy could not record its result
\* (the handlers ignore a failed load or save of the inventory and answer success).
\* The name counts, not only the module: the inventory keeps an entry per spelling.
OneNameUsed ==
  \A c, d \in Calls : pc[c] \in Ran /\ pc[d] \in Ran => name[c] = name[d]

RecordedIsDeployed ==
  OneNameUsed /\ lost = {} /\ (\A c \in Calls : pc[c] \notin {"executing", "cut"}) =>
    \A n \in Names \ stale :
      inventory[n] # NoEntry /\ inventory[n].version # NoVersion =>
        host[KeyOf[n]] \in {inventory[n].version, "broken"}

\* ARCHITECTURE.md: "Persist installed_modules.json", then "Return result to
\* Admin".  An install that was answered with success, and was followed by no
\* other operation on its module, is in the inventory.
CompletedInstallIsRecorded ==
  \A c \in Calls :
    (/\ pc[c] = "answered" /\ outcome[c] = "completed" /\ action[c] = "install"
     /\ \A d \in Calls \ {c} : pc[d] \in Ran => Key(d) # Key(c)
     /\ \A d \in Calls : pc[d] # "executing")
    => inventory[name[c]] # NoEntry

\* The handlers use the journal as OperationJournal says: every step of an RPC
\* is a step of the journal, or leaves it alone.
UsesJournal == Spec
=============================================================================
