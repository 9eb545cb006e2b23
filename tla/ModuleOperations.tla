--------------------------- MODULE ModuleOperations ---------------------------
(***************************************************************************)
(* What the installer promises about the operations Admin asks for, without *)
(* files, locks or handlers: an operation is executed at most once, one    *)
(* operation at a time on a module, and what became of it is decided once. *)
(* "interrupted" means that the agent can no longer tell the outcome, and  *)
(* "forgotten" that the agent no longer knows of the operation: of such a  *)
(* request id nothing more is promised.                                    *)
(***************************************************************************)
CONSTANTS Requests, Modules, NoModule

VARIABLES
  state,   \* what became of every requested operation
  target   \* the module it works on, once started

opvars == <<state, target>>

States == {"none", "executing", "completed", "failed", "interrupted", "forgotten"}

OpsInit ==
  /\ state = [r \in Requests |-> "none"]
  /\ target = [r \in Requests |-> NoModule]

Busy(m) == \E q \in Requests : state[q] = "executing" /\ target[q] = m

Start(r, m) ==
  /\ state[r] = "none"
  /\ ~Busy(m)
  /\ state' = [state EXCEPT ![r] = "executing"]
  /\ target' = [target EXCEPT ![r] = m]

End(r, o) ==
  /\ state[r] = "executing"
  /\ state' = [state EXCEPT ![r] = o]
  /\ UNCHANGED target

\* The agent dies: every operation in progress is interrupted.
InterruptAll ==
  /\ state' = [r \in Requests |->
                 IF state[r] = "executing" THEN "interrupted" ELSE state[r]]
  /\ UNCHANGED target

\* The record of the operations is lost, of all at once.
ForgetAll ==
  /\ state' = [r \in Requests |-> IF state[r] = "none" THEN "none" ELSE "forgotten"]
  /\ target' = [r \in Requests |-> NoModule]

OpsNext ==
  \/ \E r \in Requests, m \in Modules : Start(r, m)
  \/ \E r \in Requests, o \in {"completed", "failed", "interrupted"} : End(r, o)
  \/ InterruptAll
  \/ ForgetAll

OpsSpec == OpsInit /\ [][OpsNext]_opvars
=============================================================================
