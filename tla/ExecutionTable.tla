---------------------------- MODULE ExecutionTable ----------------------------
(***************************************************************************)
(* What shared/repositories/executions.py promises its callers: a table     *)
(* from executions to statuses.  A call takes effect at most once, at one    *)
(* moment between its beginning and its end; a creation only where nothing  *)
(* is, an update only where something is.  One that returns has taken        *)
(* effect; of one that raises and of a caller that dies nothing is known,    *)
(* but an update raises at that moment or before it, never later.            *)
(***************************************************************************)
CONSTANTS
    Executions, Callers,
    Nothing,        \* the execution of a caller that asks for nothing
    Statuses,
    Absent          \* the status of an execution that is not in the table

VARIABLES
    table,          \* [Executions -> Statuses or Absent]
    request         \* [Callers -> what the caller has asked for, and what came of it]

tableVars == <<table, request>>

Request(state, e, status, kind) ==
    [state |-> state, exec |-> e, status |-> status, kind |-> kind]

\* Nothing is asked for: state is idle, returned or raised.
Resting(state) == Request(state, Nothing, Absent, "none")

Asked == [state: {"asked"}, exec: Executions, status: Statuses, kind: {"create", "update"}]

TableInit ==
    /\ table = [e \in Executions |-> Absent]
    /\ request = [c \in Callers |-> Resting("idle")]

Ask(c) ==
    /\ request[c].state \in {"idle", "returned", "raised"}
    /\ request'[c] \in Asked
    /\ request' = [request EXCEPT ![c] = request'[c]]
    /\ UNCHANGED table

\* Executions are created once, and updated only when they are there.
Effect(r) ==
    /\ r.state = "asked"
    /\ r.kind = "create" <=> table[r.exec] = Absent
    /\ table' = [table EXCEPT ![r.exec] = r.status]

TakeEffect(c) ==
    LET r == request[c] IN
    /\ Effect(r)
    /\ request' = [request EXCEPT ![c] = Request("done", r.exec, r.status, r.kind)]

\* The call takes effect, but what it asked for has failed: the answer is lost.
TakeEffectUntold(c) ==
    /\ Effect(request[c])
    /\ request' = [request EXCEPT ![c] = Resting("raised")]

Return(c) ==
    /\ request[c].state = "done"
    /\ request' = [request EXCEPT ![c] = Resting("returned")]
    /\ UNCHANGED table

\* Nothing was done; or a creation fails after the execution is in the table.
Refuse(c) ==
    /\ \/ request[c].state = "asked"
       \/ request[c].state = "done" /\ request[c].kind = "create"
    /\ request' = [request EXCEPT ![c] = Resting("raised")]
    /\ UNCHANGED table

\* The caller dies, or has taken the answer.
Leave(c) ==
    /\ request' = [request EXCEPT ![c] = Resting("idle")]
    /\ UNCHANGED table

TableNext ==
    \E c \in Callers :
        \/ Ask(c)
        \/ TakeEffect(c) \/ TakeEffectUntold(c)
        \/ Return(c)
        \/ Refuse(c)
        \/ Leave(c)

TableSpec == TableInit /\ [][TableNext]_tableVars
=============================================================================
