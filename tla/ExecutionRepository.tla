------------------------- MODULE ExecutionRepository -------------------------
(***************************************************************************)
(* shared/repositories/executions.py: the record of a workflow execution   *)
(* and the index rows kept beside it.                                       *)
(*                                                                         *)
(* An execution has one primary row (table Entities), display rows (the    *)
(* user, workflow and form indexes, table Relationships) and at most one   *)
(* status row per active status, which only the cleanup job reads.  Table  *)
(* Storage has no transaction over these rows: create_execution and         *)
(* update_execution write them one await after the other, so the calls of  *)
(* several callers interleave, and a call may stop half way.                *)
(*                                                                         *)
(* The three display rows are written by the same asyncio.gather with the  *)
(* same fields; one value per execution stands for the three of them.       *)
(***************************************************************************)
EXTENDS FiniteSets

CONSTANTS
    Executions,     \* execution ids
    Callers,        \* coroutines that call the repository
    NoExecution,    \* the execution of a caller that has called nothing
    Writable        \* the statuses that the callers of StoreNext write

ASSUME NoExecutionAssumption == NoExecution \notin Executions

ActiveStatuses == {"Pending", "Running", "Cancelling"}
FinalStatuses == {"Success", "Failed", "Timeout", "CompletedWithErrors", "Cancelled"}
ExecutionStatus == ActiveStatuses \cup FinalStatuses

ASSUME WritableAssumption == Writable \subseteq ExecutionStatus

\* The status of a row that does not exist.
Absent == "Absent"
StoredStatus == ExecutionStatus \cup {Absent}

VARIABLES
    primary,        \* [Executions -> StoredStatus]: Status of the primary row
    completedAt,    \* [Executions -> BOOLEAN]: CompletedAt of the primary row is set
    display,        \* [Executions -> StoredStatus]: Status of the display rows
    statusRows,     \* the rows status:{status}:{execution_id}, as pairs
    call,           \* [Callers -> CallRecord]: the repository call of each caller
    disturbed       \* history: executions with overlapping or broken calls

storeVars == <<primary, completedAt, display, statusRows, call, disturbed>>

InFlightSteps == {"insertPrimary", "insertIndexes", "query", "writePrimary",
                  "writeDisplay", "deleteRow", "insertRow"}
RestSteps == {"idle", "returned", "raised"}

\* new: the status being written; old: Status as the call's query read it.
CallRecord == [step: InFlightSteps \cup RestSteps,
               exec: Executions \cup {NoExecution},
               new: StoredStatus,
               old: StoredStatus]

CallAt(step, exec, new, old) == [step |-> step, exec |-> exec, new |-> new, old |-> old]

\* The caller is in no call; `step' tells how its last one ended.
NoCall(step) == CallAt(step, NoExecution, Absent, Absent)

StoreTypeOK ==
    /\ primary \in [Executions -> StoredStatus]
    /\ completedAt \in [Executions -> BOOLEAN]
    /\ display \in [Executions -> StoredStatus]
    /\ statusRows \subseteq ActiveStatuses \X Executions
    /\ call \in [Callers -> CallRecord]
    /\ disturbed \subseteq Executions

StoreInit ==
    /\ primary = [e \in Executions |-> Absent]
    /\ completedAt = [e \in Executions |-> FALSE]
    /\ display = [e \in Executions |-> Absent]
    /\ statusRows = {}
    /\ call = [c \in Callers |-> NoCall("idle")]
    /\ disturbed = {}

-----------------------------------------------------------------------------

InFlight(c) == call[c].step \in InFlightSteps

CallsOn(e) == {c \in Callers : InFlight(c) /\ call[c].exec = e}

\* e has no status row but the one of this status; none if it is not active.
OnlyRow(e, status) ==
    \A s \in ActiveStatuses : <<s, e>> \in statusRows <=> s = status

Goto(c, step) ==
    call' = [call EXCEPT ![c] = CallAt(step, call[c].exec, call[c].new, call[c].old)]

\* The call ends; the caller learns whether it returned or raised.
Finish(c, end) == call' = [call EXCEPT ![c] = NoCall(end)]

\* A call begins; e is disturbed from now on if another call on it is open.
Begin(c, e, step, status) ==
    /\ ~InFlight(c)
    /\ call' = [call EXCEPT ![c] = CallAt(step, e, status, Absent)]
    /\ disturbed' = IF CallsOn(e) = {} THEN disturbed ELSE disturbed \cup {e}
    /\ UNCHANGED <<primary, completedAt, display, statusRows>>

BeginCreate(c, e) == Begin(c, e, "insertPrimary", "Running")

BeginUpdate(c, e, status) == Begin(c, e, "query", status)

-----------------------------------------------------------------------------
(* create_execution: the primary row first, then all indexes in parallel.   *)

InsertPrimary(c) ==
    LET e == call[c].exec IN
    /\ call[c].step = "insertPrimary"
    /\ primary[e] = Absent
    /\ primary' = [primary EXCEPT ![e] = call[c].new]
    /\ Goto(c, "insertIndexes")
    /\ UNCHANGED <<completedAt, display, statusRows, disturbed>>

\* create_entity on an existing key raises ResourceExistsError.
InsertPrimaryExists(c) ==
    /\ call[c].step = "insertPrimary"
    /\ primary[call[c].exec] # Absent
    /\ Finish(c, "raised")
    /\ UNCHANGED <<primary, completedAt, display, statusRows, disturbed>>

InsertIndexes(c) ==
    LET e == call[c].exec IN
    /\ call[c].step = "insertIndexes"
    /\ display' = [display EXCEPT ![e] = call[c].new]
    /\ statusRows' = statusRows \cup {<<call[c].new, e>>}
    /\ Finish(c, "returned")
    /\ UNCHANGED <<primary, completedAt, disturbed>>

-----------------------------------------------------------------------------
(* update_execution.                                                        *)

\* The query reads the whole primary row; old_status is captured from it.
QueryPrimary(c) ==
    LET e == call[c].exec IN
    /\ call[c].step = "query"
    /\ primary[e] # Absent
    /\ call' = [call EXCEPT ![c] = CallAt("writePrimary", e, call[c].new, primary[e])]
    /\ UNCHANGED <<primary, completedAt, display, statusRows, disturbed>>

\* Mutant of QueryPrimaryMissing: a missing primary row is not an error.
UpdateMissingExecution(c) ==
    /\ call[c].step = "query"
    /\ primary[call[c].exec] = Absent
    /\ Goto(c, "writeDisplay")
    /\ UNCHANGED <<primary, completedAt, display, statusRows, disturbed>>

QueryPrimaryMissing(c) ==
    /\ call[c].step = "query"
    /\ primary[call[c].exec] = Absent
    /\ Finish(c, "raised")
    /\ UNCHANGED <<primary, completedAt, display, statusRows, disturbed>>

\* A merge without an ETag: the write wins whatever was written since the
\* query.  CompletedAt is set for every status but Pending and Running; a
\* CompletedAt of None is not part of the merged entity.
WritePrimary(c) ==
    LET e == call[c].exec IN
    /\ call[c].step = "writePrimary"
    /\ primary' = [primary EXCEPT ![e] = call[c].new]
    /\ completedAt' = [completedAt EXCEPT
                          ![e] = @ \/ call[c].new \notin {"Pending", "Running"}]
    /\ Goto(c, "writeDisplay")
    /\ UNCHANGED <<display, statusRows, disturbed>>

\* A display row that is not found is skipped, never created.
WriteDisplay(c) ==
    LET e == call[c].exec IN
    /\ call[c].step = "writeDisplay"
    /\ display' = [display EXCEPT
                      ![e] = IF @ = Absent THEN Absent ELSE call[c].new]
    /\ Goto(c, "deleteRow")
    /\ UNCHANGED <<primary, completedAt, statusRows, disturbed>>

\* Mutant of DeleteOldRow: the old row is kept.
KeepOldRow(c) ==
    /\ call[c].step = "deleteRow"
    /\ Goto(c, "insertRow")
    /\ UNCHANGED <<primary, completedAt, display, statusRows, disturbed>>

\* Only the row of the status this call read is deleted.
DeleteOldRow(c) ==
    /\ call[c].step = "deleteRow"
    /\ statusRows' = statusRows \ {<<call[c].old, call[c].exec>>}
    /\ Goto(c, "insertRow")
    /\ UNCHANGED <<primary, completedAt, display, disturbed>>

\* Mutant of InsertNewRow: a row for final statuses too.
InsertRowOfAnyStatus(c) ==
    /\ call[c].step = "insertRow"
    /\ statusRows' = statusRows \cup {<<call[c].new, call[c].exec>>}
    /\ Finish(c, "returned")
    /\ UNCHANGED <<primary, completedAt, display, disturbed>>

\* Inserting a row that exists raises, and the exception is swallowed.
InsertNewRow(c) ==
    /\ call[c].step = "insertRow"
    /\ statusRows' = IF call[c].new \in ActiveStatuses
                     THEN statusRows \cup {<<call[c].new, call[c].exec>>}
                     ELSE statusRows
    /\ Finish(c, "returned")
    /\ UNCHANGED <<primary, completedAt, display, disturbed>>

CallStep(c) ==
    \/ InsertPrimary(c) \/ InsertPrimaryExists(c) \/ InsertIndexes(c)
    \/ QueryPrimary(c) \/ QueryPrimaryMissing(c)
    \/ WritePrimary(c) \/ WriteDisplay(c) \/ DeleteOldRow(c) \/ InsertNewRow(c)

-----------------------------------------------------------------------------
(* Failing storage requests and stopped processes.                          *)

\* A request on the primary row fails before it took effect: it is raised to the caller.
PrimaryFault(c) ==
    /\ call[c].step \in {"insertPrimary", "query", "writePrimary"}
    /\ Finish(c, "raised")
    /\ UNCHANGED <<primary, completedAt, display, statusRows, disturbed>>

\* The row was inserted or merged, but the answer is lost: the same exception is raised.
InsertAnswerLost(c) ==
    LET e == call[c].exec IN
    /\ call[c].step = "insertPrimary"
    /\ primary[e] = Absent
    /\ primary' = [primary EXCEPT ![e] = call[c].new]
    /\ Finish(c, "raised")
    /\ disturbed' = disturbed \cup {e}
    /\ UNCHANGED <<completedAt, display, statusRows>>

MergeAnswerLost(c) ==
    LET e == call[c].exec IN
    /\ call[c].step = "writePrimary"
    /\ primary' = [primary EXCEPT ![e] = call[c].new]
    /\ completedAt' = [completedAt EXCEPT
                          ![e] = @ \/ call[c].new \notin {"Pending", "Running"}]
    /\ Finish(c, "raised")
    /\ disturbed' = disturbed \cup {e}
    /\ UNCHANGED <<display, statusRows>>

\* Some of the parallel index inserts fail: the rest are done, gather raises,
\* and nothing is rolled back.
IndexInsertFault(c) ==
    LET e == call[c].exec IN
    /\ call[c].step = "insertIndexes"
    /\ \/ UNCHANGED <<display, statusRows>>
       \/ /\ display' = [display EXCEPT ![e] = call[c].new]
          /\ UNCHANGED statusRows
       \/ /\ statusRows' = statusRows \cup {<<call[c].new, e>>}
          /\ UNCHANGED display
    /\ Finish(c, "raised")
    /\ disturbed' = disturbed \cup {e}
    /\ UNCHANGED <<primary, completedAt>>

\* Mutant of IndexUpdateFault: the exception is not caught.
IndexFaultRaised(c) ==
    /\ call[c].step \in {"writeDisplay", "deleteRow", "insertRow"}
    /\ Finish(c, "raised")
    /\ disturbed' = disturbed \cup {call[c].exec}
    /\ UNCHANGED <<primary, completedAt, display, statusRows>>

\* A failing display or status-row request of an update is only logged.  A
\* failing delete is swallowed on its own and the insert still follows.  (One
\* that took effect and then failed is no different from one that succeeded.)
IndexUpdateFault(c) ==
    /\ \/ call[c].step = "writeDisplay" /\ Goto(c, "deleteRow")
       \/ call[c].step = "deleteRow" /\ Goto(c, "insertRow")
       \/ call[c].step = "insertRow" /\ Finish(c, "returned")
    /\ disturbed' = disturbed \cup {call[c].exec}
    /\ UNCHANGED <<primary, completedAt, display, statusRows>>

StorageFault(c) ==
    \/ PrimaryFault(c) \/ InsertAnswerLost(c) \/ MergeAnswerLost(c)
    \/ IndexInsertFault(c) \/ IndexUpdateFault(c)

\* The process of the caller stops, in the middle of the call or after it, or
\* the caller takes the result of the call and goes on.
AbandonCall(c) ==
    /\ disturbed' = IF InFlight(c) THEN disturbed \cup {call[c].exec} ELSE disturbed
    /\ call' = [call EXCEPT ![c] = NoCall("idle")]
    /\ UNCHANGED <<primary, completedAt, display, statusRows>>

-----------------------------------------------------------------------------
(* The repository under arbitrary callers: any caller may write any of the  *)
(* Writable statuses to any execution at any time.                          *)

StoreNext ==
    \E c \in Callers :
        \/ \E e \in Executions : BeginCreate(c, e)
        \/ \E e \in Executions, s \in Writable : BeginUpdate(c, e, s)
        \/ CallStep(c)
        \/ StorageFault(c)
        \/ AbandonCall(c)

StoreSpec == StoreInit /\ [][StoreNext]_storeVars

-----------------------------------------------------------------------------
(* Properties.                                                              *)

\* What the index rows of e show when they agree with the primary row.
Mirrored(e) ==
    /\ display[e] = primary[e]
    /\ OnlyRow(e, primary[e])

\* As long as the calls on an execution neither overlap nor break off, its
\* indexes agree with its primary row between two calls: update_execution
\* moves the status row from the status it read to the one it writes.
IndexesMirrorPrimary ==
    \A e \in Executions :
        e \notin disturbed /\ CallsOn(e) = {} => Mirrored(e)

\* No index row exists for an execution without a primary row, whatever
\* overlaps or fails: create_execution inserts the primary row first and
\* update_execution raises before it touches an index.
NoDanglingIndex ==
    \A e \in Executions :
        primary[e] = Absent => display[e] = Absent /\ OnlyRow(e, Absent)

\* A history page never shows a final status that was never decided: whatever
\* the interleaving, CompletedAt is set once the display rows are final.
FinalDisplayIsCompleted ==
    \A e \in Executions : display[e] \in FinalStatuses => completedAt[e]

-----------------------------------------------------------------------------
(* The repository implements ExecutionTable: the primary row is the table.  *)

\* What the caller whose call is k has asked for: the call takes effect when it writes the
\* primary row.
RequestOf(k) ==
    [state |-> IF k.step \in {"insertPrimary", "query", "writePrimary"} THEN "asked"
               ELSE IF k.step \in InFlightSteps THEN "done" ELSE k.step,
     exec |-> k.exec,
     status |-> k.new,
     kind |-> IF k.step \in {"insertPrimary", "insertIndexes"} THEN "create"
              ELSE IF k.step \in InFlightSteps THEN "update" ELSE "none"]

Requested == [c \in Callers |-> RequestOf(call[c])]

Table == INSTANCE ExecutionTable WITH
    Nothing <- NoExecution, Statuses <- ExecutionStatus, table <- primary, request <- Requested

\* However calls overlap, fail and die between the writes of the primary row and of its
\* indexes, each takes effect once and as a whole or not at all, creations only where nothing is
\* and updates only where something is, and what returned has taken effect (executions.py:180,
\* 243-273).  Of one that raised nothing is known, its request may have failed after it took effect;
\* but an update does not raise over its indexes (326-361).
TableSpec == Table!TableSpec
=============================================================================
