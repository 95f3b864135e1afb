------------------------------ MODULE Requests ------------------------------
(***************************************************************************)
(* The HTTP handlers that run at the same time.  A handler is a sequence of *)
(* steps, each of which ends at an await: one SQL statement, one Redis      *)
(* command or one mail.  Nothing locks a row between two steps, and each    *)
(* statement commits by itself.                                             *)
(*                                                                         *)
(* A slot is one handler in execution.  at[s] names the step it takes next  *)
(* and held[s] is what the handler carries over from its earlier steps.     *)
(***************************************************************************)
EXTENDS Integers

CONSTANTS
    Slots,      \* handlers that may run at the same time
    Workloads   \* sets of operations; the clients of one behaviour use one set

VARIABLES
    workload,   \* the operations clients ask for in this behaviour
    at,         \* at[s]: the step slot s takes next, "idle" without a request
    held,       \* held[s]: what the request has read so far
    audit       \* kind of the newest entry of audit_logs

requestVars == <<workload, at, held, audit>>

Nothing == <<>>

RequestsInit ==
    /\ workload \in Workloads
    /\ at = [s \in Slots |-> "idle"]
    /\ held = [s \in Slots |-> Nothing]
    /\ audit = "none"

\* A request for operation op arrives.
Receives(s, op) == at[s] = "idle" /\ op \in workload

Step(s, name, data) ==
    /\ at' = [at EXCEPT ![s] = name]
    /\ held' = [held EXCEPT ![s] = data]
    /\ UNCHANGED <<workload, audit>>

Answer(s) == Step(s, "idle", Nothing)

\* A handler ends early: a call failed and `?` returned its error, or the client went
\* away and the server dropped the handler at its await.
Abandon(s) == at[s] # "idle" /\ Answer(s)

\* The last step of a change that is audited: the entry is written; when that fails, or
\* the user has no instance to write it for, the answer is the same.
CreateAuditLog(s) ==
    /\ at[s] = "audit"
    /\ audit' \in {audit, held[s]}
    /\ at' = [at EXCEPT ![s] = "idle"]
    /\ held' = [held EXCEPT ![s] = Nothing]
    /\ UNCHANGED workload

\* Steps of any handler, which leave all tables but audit_logs alone.
RequestStep(s) == CreateAuditLog(s) \/ Abandon(s)
=============================================================================
