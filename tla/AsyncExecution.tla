---------------------------- MODULE AsyncExecution ----------------------------
(***************************************************************************)
(* The life of a workflow execution, from the request that asks for it to   *)
(* the status it ends with.  Composes ExecutionRepository with everything   *)
(* that writes an execution's status:                                       *)
(*   - the HTTP request that runs a workflow itself or enqueues it          *)
(*     (workflows_handlers.py, async_executor.py);                          *)
(*   - the queue worker, its monitoring loop and the engine task it starts  *)
(*     (functions/queue/worker.py);                                         *)
(*   - the poison queue handler (functions/queue/poison_queue_handler.py);  *)
(*   - the cancel request (executions_handlers.py);                         *)
(*   - the cleanup timer and its manual trigger (execution_cleanup.py,      *)
(*     execution_cleanup_handlers.py).                                      *)
(* The storage queue and the functions host are external: a message is      *)
(* leased to one worker, goes back to the queue when the worker raises or   *)
(* dies, and to the poison queue after MaxDequeue deliveries (host.json).   *)
(*                                                                         *)
(* A process is a caller of the repository.  pc[c] says where it is in its  *)
(* handler and call[c] where it is in the repository call it awaits; a step *)
(* of the handler runs from one await to the next, so it takes the result   *)
(* of one call and begins the next one.                                     *)
(***************************************************************************)
EXTENDS ExecutionRepository, Naturals

CONSTANTS
    Requests, Workers, PoisonHandlers, Cancellers,
    Timers, Operators,  \* runs of the cleanup: by the timer, by hand
    Mortal,             \* processes that may die
    ExecutionModes,     \* the execution_mode of the workflows requested
    EngineStatuses,     \* the statuses that engine.execute returns
    OrgScoped,          \* executions stored under an organization's partition
    MaxDequeue,         \* host.json extensions.queues.maxDequeueCount
    PendingTimeout, RunningTimeout, CancellingTimeout,  \* cleanup thresholds
    Scenarios,          \* bound: the sets of processes that run together
    MaxCrashes,         \* bound: processes that die
    MaxFaults           \* bound: storage requests that fail

Cleaners == Timers \cup Operators

ASSUME RolesAssumption ==
    /\ Callers = Requests \cup Workers \cup PoisonHandlers \cup Cancellers \cup Cleaners
    /\ Requests \cap (Workers \cup PoisonHandlers \cup Cancellers \cup Cleaners) = {}
    /\ Workers \cap (PoisonHandlers \cup Cancellers \cup Cleaners) = {}
    /\ PoisonHandlers \cap (Cancellers \cup Cleaners) = {}
    /\ Cancellers \cap Cleaners = {}
    /\ Timers \cap Operators = {}

ASSUME BoundsAssumption ==
    /\ Mortal \subseteq Callers
    /\ Scenarios \subseteq SUBSET Callers
    /\ ExecutionModes \subseteq {"async", "sync"}
    /\ EngineStatuses \subseteq {"Success", "CompletedWithErrors", "Failed"}
    /\ OrgScoped \subseteq Executions
    /\ MaxDequeue \in Nat \ {0}
    /\ {PendingTimeout, RunningTimeout, CancellingTimeout} \subseteq Nat
    /\ CancellingTimeout < PendingTimeout /\ PendingTimeout < RunningTimeout
    /\ MaxCrashes \in Nat /\ MaxFaults \in Nat

\* The processes write any status: they are callers of the repository.
ASSUME AnyStatusAssumption == Writable = ExecutionStatus

\* Older than every threshold: ages stop growing here.
MaxAge == RunningTimeout + 1

VARIABLES
    pc,         \* [Callers -> steps]: where each process is in its handler
    exec,       \* [Callers -> Executions or NoExecution]: what it works on
    task,       \* [Workers -> TaskStates]: the engine task of the worker
    orphans,    \* engine tasks that nobody awaits: the worker that began it, its execution
    msg,        \* [Executions -> MessageStates]: the queue message
    dequeues,   \* [Executions -> 0..MaxDequeue]: deliveries of the message
    found,      \* [Cleaners -> stuck executions found and not yet cleaned]
    age,        \* [Executions -> 0..MaxAge]: time since StartedAt
    crashes,    \* processes that died
    faults      \* storage requests that failed

taskVars == <<task, orphans>>
queueVars == <<msg, dequeues>>
budgetVars == <<crashes, faults>>
rowVars == <<primary, completedAt, display, statusRows>>
asyncVars == <<storeVars, pc, exec, taskVars, queueVars, found, age, budgetVars>>

TaskStates == {"none", "running", "done"}
MessageStates == {"none", "visible", "leased", "poison", "poisonLeased", "deleted"}
Steps == {"idle", "stopped", "notFound", "refused",
          "creating", "queueing", "sending",                      \* request
          "syncCreating", "syncRunning", "syncRecording", "syncFailing",
          "checking", "starting", "loading", "loadFailing",       \* worker
          "monitoring", "finishing", "excepting",
          "burying",                                              \* poison
          "cancelling",                                           \* canceller
          "scanPending", "scanRunning", "scanCancelling",         \* cleaner
          "cleaning"}

TypeOK ==
    /\ StoreTypeOK
    /\ pc \in [Callers -> Steps]
    /\ exec \in [Callers -> Executions \cup {NoExecution}]
    /\ task \in [Workers -> TaskStates]
    /\ orphans \subseteq Workers \X Executions
    /\ msg \in [Executions -> MessageStates]
    /\ dequeues \in [Executions -> 0..MaxDequeue]
    /\ found \in [Cleaners -> SUBSET (ActiveStatuses \X Executions)]
    /\ age \in [Executions -> 0..MaxAge]
    /\ crashes \in 0..MaxCrashes
    /\ faults \in 0..MaxFaults

Init ==
    /\ StoreInit
    /\ \E present \in Scenarios :
          pc = [c \in Callers |-> IF c \in present THEN "idle" ELSE "stopped"]
    /\ exec = [c \in Callers |-> NoExecution]
    /\ task = [w \in Workers |-> "none"]
    /\ orphans = {}
    /\ msg = [e \in Executions |-> "none"]
    /\ dequeues = [e \in Executions |-> 0]
    /\ found = [c \in Cleaners |-> {}]
    /\ age = [e \in Executions |-> 0]
    /\ crashes = 0
    /\ faults = 0

-----------------------------------------------------------------------------

Returned(c) == call[c].step = "returned"
Raised(c) == call[c].step = "raised"

\* c moves on to `next' and awaits update_execution(exec[c], status) there.
UpdateAt(c, status, next) ==
    /\ BeginUpdate(c, exec[c], status)
    /\ pc' = [pc EXCEPT ![c] = next]

\* c, whose call has ended, moves on without calling the repository.
MoveTo(c, next) ==
    /\ ~InFlight(c)
    /\ call' = [call EXCEPT ![c] = NoCall("idle")]
    /\ pc' = [pc EXCEPT ![c] = next]
    /\ UNCHANGED <<rowVars, disturbed>>

\* c, whose call has ended, ends its handler.
EndAt(c, next) ==
    /\ MoveTo(c, next)
    /\ exec' = [exec EXCEPT ![c] = NoExecution]

UseFault == faults < MaxFaults /\ faults' = faults + 1

-----------------------------------------------------------------------------
(* The HTTP request: execute_workflow_internal, enqueue_workflow_execution.  *)

\* A request generates a fresh id and creates its record with status Running,
\* to enqueue the execution ("creating") or to run it itself.
SubmitRun(r, e) ==
    /\ pc[r] = "idle"
    /\ primary[e] = Absent /\ \A c \in Callers : exec[c] # e
    /\ BeginCreate(r, e)
    /\ exec' = [exec EXCEPT ![r] = e]
    /\ \E mode \in ExecutionModes :
          pc' = [pc EXCEPT ![r] = IF mode = "async" THEN "creating" ELSE "syncCreating"]
    /\ UNCHANGED <<taskVars, queueVars, found, age, budgetVars>>

MarkPending(r) ==
    /\ pc[r] = "creating" /\ Returned(r)
    /\ UpdateAt(r, "Pending", "queueing")
    /\ UNCHANGED <<exec, taskVars, queueVars, found, age, budgetVars>>

SendMessage(r) ==
    /\ pc[r] = "queueing" /\ Returned(r)
    /\ msg' = [msg EXCEPT ![exec[r]] = "visible"]
    /\ EndAt(r, "stopped")
    /\ UNCHANGED <<taskVars, dequeues, found, age, budgetVars>>

SendFails(r) ==
    /\ pc[r] = "queueing" /\ Returned(r) /\ UseFault
    /\ EndAt(r, "stopped")
    /\ UNCHANGED <<taskVars, queueVars, found, age, crashes>>

EnqueueRaises(r) ==
    /\ pc[r] \in {"creating", "queueing"} /\ Raised(r)
    /\ EndAt(r, "stopped")
    /\ UNCHANGED <<taskVars, queueVars, found, age, budgetVars>>

SyncStart(r) ==
    /\ pc[r] = "syncCreating" /\ Returned(r)
    /\ MoveTo(r, "syncRunning")
    /\ UNCHANGED <<exec, taskVars, queueVars, found, age, budgetVars>>

\* The engine returns, or raises and the catch-all handler records it.
SyncEnd(r) ==
    /\ pc[r] = "syncRunning"
    /\ \/ \E s \in EngineStatuses : UpdateAt(r, s, "syncRecording")
       \/ UpdateAt(r, "Failed", "syncFailing")
    /\ UNCHANGED <<exec, taskVars, queueVars, found, age, budgetVars>>

SyncRaises(r) ==
    /\ pc[r] \in {"syncCreating", "syncRecording"} /\ Raised(r)
    /\ UpdateAt(r, "Failed", "syncFailing")
    /\ UNCHANGED <<exec, taskVars, queueVars, found, age, budgetVars>>

SyncAnswer(r) ==
    /\ \/ pc[r] = "syncRecording" /\ Returned(r)
       \/ pc[r] = "syncFailing" /\ ~InFlight(r)
    /\ EndAt(r, "stopped")
    /\ UNCHANGED <<taskVars, queueVars, found, age, budgetVars>>

RequestStep(r) ==
    \/ MarkPending(r) \/ SendMessage(r) \/ EnqueueRaises(r)
    \/ SyncStart(r) \/ SyncRaises(r) \/ SyncAnswer(r)

-----------------------------------------------------------------------------
(* The queue worker: handle_workflow_execution.                              *)

Dequeue(w, e) ==
    /\ pc[w] = "idle" /\ msg[e] = "visible"
    /\ msg' = [msg EXCEPT ![e] = "leased"]
    /\ dequeues' = [dequeues EXCEPT ![e] = @ + 1]
    /\ exec' = [exec EXCEPT ![w] = e]
    /\ MoveTo(w, "checking")
    /\ UNCHANGED <<taskVars, found, age, budgetVars>>

\* Mutant of CheckCancelled: the status is not read before the start.
StartUnchecked(w) ==
    /\ pc[w] = "checking"
    /\ UpdateAt(w, "Running", "starting")
    /\ UNCHANGED <<exec, taskVars, queueVars, found, age, budgetVars>>

\* Cancelled before it started: nothing runs.  Any other status is started.
CheckCancelled(w) ==
    /\ pc[w] = "checking"
    /\ IF primary[exec[w]] = "Cancelling"
       THEN UpdateAt(w, "Cancelled", "finishing")
       ELSE UpdateAt(w, "Running", "starting")
    /\ UNCHANGED <<exec, taskVars, queueVars, found, age, budgetVars>>

\* load_workflow finds nothing, or raises on a broken file.
LoadFails(w) ==
    /\ pc[w] = "starting" /\ Returned(w)
    /\ \E next \in {"loading", "loadFailing"} : UpdateAt(w, "Failed", next)
    /\ UNCHANGED <<exec, taskVars, queueVars, found, age, budgetVars>>

\* The not-found update is inside the try whose handler reports a load error.
NotFoundRaises(w) ==
    /\ pc[w] = "loading" /\ Raised(w)
    /\ UpdateAt(w, "Failed", "loadFailing")
    /\ UNCHANGED <<exec, taskVars, queueVars, found, age, budgetVars>>

\* Mutant of StartTask: the update to Running is not awaited.
StartTaskWithoutAwait(w) ==
    /\ pc[w] = "starting" /\ ~Raised(w)
    /\ pc' = [pc EXCEPT ![w] = "monitoring"]
    /\ task' = [task EXCEPT ![w] = "running"]
    /\ UNCHANGED <<storeVars, exec, orphans, queueVars, found, age, budgetVars>>

StartTask(w) ==
    /\ pc[w] = "starting" /\ Returned(w)
    /\ MoveTo(w, "monitoring")
    /\ task' = [task EXCEPT ![w] = "running"]
    /\ UNCHANGED <<exec, orphans, queueVars, found, age, budgetVars>>

TaskEnds(w) ==
    /\ task[w] = "running"
    /\ task' = [task EXCEPT ![w] = "done"]
    /\ UNCHANGED <<storeVars, pc, exec, orphans, queueVars, found, age, budgetVars>>

\* The engine task of w runs on with nobody to await it.
Orphaned(w) == orphans \cup {t \in {<<w, exec[w]>>} : task[w] = "running"}

\* One round of the monitoring loop that leaves it.  The task may end while
\* the round awaits the status, so it may be done here; cancelling it is then
\* without effect and its result is dropped.  Nobody waits for a task that was
\* cancelled: its body may go on where it catches the cancellation.
PollEnds(w) ==
    /\ pc[w] = "monitoring"
    /\ IF primary[exec[w]] = "Cancelling"
       THEN UpdateAt(w, "Cancelled", "finishing")
       ELSE UpdateAt(w, "Timeout", "finishing")
    /\ orphans' \in {orphans, Orphaned(w)}
    /\ task' = [task EXCEPT ![w] = "none"]
    /\ UNCHANGED <<exec, queueVars, found, age, budgetVars>>

\* The loop sees the task done and records its result, or what it raised.
RecordResult(w) ==
    /\ pc[w] = "monitoring" /\ task[w] = "done"
    /\ \/ \E s \in EngineStatuses : UpdateAt(w, s, "finishing")
       \/ UpdateAt(w, "Failed", "excepting")
    /\ task' = [task EXCEPT ![w] = "none"]
    /\ UNCHANGED <<exec, orphans, queueVars, found, age, budgetVars>>

\* except Exception: an update raised.
Except(w) ==
    /\ pc[w] \in {"starting", "loadFailing", "finishing"} /\ Raised(w)
    /\ UpdateAt(w, "Failed", "excepting")
    /\ UNCHANGED <<exec, taskVars, queueVars, found, age, budgetVars>>

\* except Exception: a read failed.  In the monitoring loop the engine task is
\* left running with nobody to await it.
ReadFails(w) ==
    /\ \/ pc[w] \in {"checking", "monitoring"}
       \/ pc[w] = "starting" /\ Returned(w)
    /\ UseFault
    /\ UpdateAt(w, "Failed", "excepting")
    /\ orphans' = Orphaned(w)
    /\ task' = [task EXCEPT ![w] = "none"]
    /\ UNCHANGED <<exec, queueVars, found, age, crashes>>

OrphanEnds(t) ==
    /\ t \in orphans
    /\ orphans' = orphans \ {t}
    /\ UNCHANGED <<storeVars, pc, exec, task, queueVars, found, age, budgetVars>>

\* Mutant of Acknowledge: the handler swallows what its update raised.
AcknowledgeAlways(w) ==
    /\ pc[w] \in {"loading", "loadFailing", "finishing", "excepting"} /\ ~InFlight(w)
    /\ msg' = [msg EXCEPT ![exec[w]] = "deleted"]
    /\ EndAt(w, "idle")
    /\ UNCHANGED <<taskVars, dequeues, found, age, budgetVars>>

\* The handler returned: the host deletes the message.
Acknowledge(w) ==
    /\ pc[w] \in {"loading", "loadFailing", "finishing", "excepting"} /\ Returned(w)
    /\ msg' = [msg EXCEPT ![exec[w]] = "deleted"]
    /\ EndAt(w, "idle")
    /\ UNCHANGED <<taskVars, dequeues, found, age, budgetVars>>

\* Mutants of PutBack: no limit of deliveries; no poison queue behind it.
PutBackAlways(e) == msg' = [msg EXCEPT ![e] = "visible"]

PutBackOrDrop(e) ==
    msg' = [msg EXCEPT ![e] = IF dequeues[e] < MaxDequeue THEN "visible" ELSE "deleted"]

\* A message that was not processed: delivered again, or poisoned.
PutBack(e) ==
    msg' = [msg EXCEPT ![e] = IF dequeues[e] < MaxDequeue THEN "visible" ELSE "poison"]

\* Even recording the failure raised: the host puts the message back.
Release(w) ==
    /\ pc[w] = "excepting" /\ Raised(w)
    /\ PutBack(exec[w])
    /\ EndAt(w, "idle")
    /\ UNCHANGED <<taskVars, dequeues, found, age, budgetVars>>

WorkerStep(w) ==
    \/ CheckCancelled(w) \/ LoadFails(w) \/ NotFoundRaises(w) \/ StartTask(w)
    \/ PollEnds(w) \/ RecordResult(w) \/ Except(w) \/ Acknowledge(w) \/ Release(w)

-----------------------------------------------------------------------------
(* The poison queue handler.                                                 *)

Bury(p, e) ==
    /\ pc[p] = "idle" /\ msg[e] = "poison"
    /\ msg' = [msg EXCEPT ![e] = "poisonLeased"]
    /\ exec' = [exec EXCEPT ![p] = e]
    /\ BeginUpdate(p, e, "Failed")
    /\ pc' = [pc EXCEPT ![p] = "burying"]
    /\ UNCHANGED <<taskVars, dequeues, found, age, budgetVars>>

\* Whether or not the update raised, the message is deleted.
Buried(p) ==
    /\ pc[p] = "burying" /\ ~InFlight(p)
    /\ msg' = [msg EXCEPT ![exec[p]] = "deleted"]
    /\ EndAt(p, "idle")
    /\ UNCHANGED <<taskVars, dequeues, found, age, budgetVars>>

-----------------------------------------------------------------------------
(* The cancel request: cancel_execution_handler.  get_execution is called     *)
(* without an organization and finds executions of the GLOBAL partition only. *)

\* Mutant of Cancel: whatever the execution's status is.
CancelAnyStatus(k, e) ==
    /\ pc[k] = "idle" /\ e \notin OrgScoped
    /\ primary[e] # Absent
    /\ BeginUpdate(k, e, "Cancelling")
    /\ pc' = [pc EXCEPT ![k] = "cancelling"]
    /\ exec' = [exec EXCEPT ![k] = e]
    /\ UNCHANGED <<taskVars, queueVars, found, age, budgetVars>>

Cancel(k, e) ==
    /\ pc[k] = "idle" /\ e \notin OrgScoped
    /\ primary[e] \in {"Pending", "Running"}
    /\ BeginUpdate(k, e, "Cancelling")
    /\ pc' = [pc EXCEPT ![k] = "cancelling"]
    /\ exec' = [exec EXCEPT ![k] = e]
    /\ UNCHANGED <<taskVars, queueVars, found, age, budgetVars>>

CancelNotFound(k, e) ==
    /\ pc[k] = "idle" /\ (e \in OrgScoped \/ primary[e] = Absent)
    /\ pc' = [pc EXCEPT ![k] = "notFound"]
    /\ exec' = [exec EXCEPT ![k] = e]
    /\ UNCHANGED <<storeVars, taskVars, queueVars, found, age, budgetVars>>

CancelRefused(k, e) ==
    /\ pc[k] = "idle" /\ e \notin OrgScoped
    /\ primary[e] \in ExecutionStatus \ {"Pending", "Running"}
    /\ pc' = [pc EXCEPT ![k] = "refused"]
    /\ UNCHANGED <<storeVars, exec, taskVars, queueVars, found, age, budgetVars>>

CancelAnswer(k) ==
    /\ pc[k] = "cancelling" /\ ~InFlight(k)
    /\ EndAt(k, "stopped")
    /\ UNCHANGED <<taskVars, queueVars, found, age, budgetVars>>

-----------------------------------------------------------------------------
(* The cleanup: get_stuck_executions, then one update per execution found.    *)

StartCleanup(c) ==
    /\ pc[c] = "idle"
    /\ pc' = [pc EXCEPT ![c] = "scanPending"]
    /\ UNCHANGED <<storeVars, exec, taskVars, queueVars, found, age, budgetVars>>

StuckRows(status, timeout) ==
    {row \in statusRows : row[1] = status /\ age[row[2]] > timeout}

\* The three queries of get_stuck_executions follow one another.
NextScan(c) ==
    \/ pc[c] = "scanPending" /\ pc' = [pc EXCEPT ![c] = "scanRunning"]
    \/ pc[c] = "scanRunning" /\ pc' = [pc EXCEPT ![c] = "scanCancelling"]
    \/ pc[c] = "scanCancelling" /\ pc' = [pc EXCEPT ![c] = "cleaning"]

\* Mutants of Scanned: one of the statuses is not looked for.
ScannedWithoutRunning(c) ==
    CASE pc[c] = "scanPending" -> StuckRows("Pending", PendingTimeout)
      [] pc[c] = "scanRunning" -> {}
      [] pc[c] = "scanCancelling" -> StuckRows("Cancelling", CancellingTimeout)

ScannedWithoutCancelling(c) ==
    CASE pc[c] = "scanPending" -> StuckRows("Pending", PendingTimeout)
      [] pc[c] = "scanRunning" -> StuckRows("Running", RunningTimeout)
      [] pc[c] = "scanCancelling" -> {}

Scanned(c) ==
    CASE pc[c] = "scanPending" -> StuckRows("Pending", PendingTimeout)
      [] pc[c] = "scanRunning" -> StuckRows("Running", RunningTimeout)
      [] pc[c] = "scanCancelling" -> StuckRows("Cancelling", CancellingTimeout)

Scan(c) ==
    /\ NextScan(c)
    /\ found' = [found EXCEPT ![c] = @ \cup Scanned(c)]
    /\ UNCHANGED <<storeVars, exec, taskVars, queueVars, age, budgetVars>>

\* A failing query is logged and its status skipped.
ScanFails(c) ==
    /\ NextScan(c) /\ UseFault
    /\ UNCHANGED <<storeVars, exec, taskVars, queueVars, found, age, crashes>>

\* The rows found are cleaned in the order of the scans.
Earlier(c, row) ==
    {r \in found[c] : \/ r[1] = "Pending" /\ row[1] # "Pending"
                      \/ r[1] = "Running" /\ row[1] = "Cancelling"}

\* The manual trigger skips what it found in status Cancelling.  An update
\* that raises is logged and the next execution follows.
CleanNext(c) ==
    /\ pc[c] = "cleaning" /\ ~InFlight(c)
    /\ \E row \in found[c] :
          /\ Earlier(c, row) = {}
          /\ found' = [found EXCEPT ![c] = @ \ {row}]
          /\ IF row[1] # "Cancelling" THEN BeginUpdate(c, row[2], "Timeout")
             ELSE IF c \in Timers THEN BeginUpdate(c, row[2], "Cancelled")
             ELSE UNCHANGED storeVars
    /\ UNCHANGED <<pc, exec, taskVars, queueVars, age, budgetVars>>

CleanupEnds(c) ==
    /\ pc[c] = "cleaning" /\ ~InFlight(c) /\ found[c] = {}
    /\ EndAt(c, IF c \in Timers THEN "idle" ELSE "stopped")
    /\ UNCHANGED <<taskVars, queueVars, found, age, budgetVars>>

CleanerStep(c) == Scan(c) \/ CleanNext(c) \/ CleanupEnds(c)

-----------------------------------------------------------------------------
(* Storage, time, failures.                                                  *)

RepositoryStep(c) ==
    /\ CallStep(c)
    /\ UNCHANGED <<pc, exec, taskVars, queueVars, found, age, budgetVars>>

RepositoryFault(c) ==
    /\ StorageFault(c) /\ UseFault
    /\ UNCHANGED <<pc, exec, taskVars, queueVars, found, age, crashes>>

Tick ==
    /\ \E e \in Executions : primary[e] # Absent /\ age[e] < MaxAge
    /\ age' = [e \in Executions |->
                  IF primary[e] # Absent /\ age[e] < MaxAge THEN age[e] + 1 ELSE age[e]]
    /\ UNCHANGED <<storeVars, pc, exec, taskVars, queueVars, found, budgetVars>>

\* The process of c dies: its repository call stops where it is, its engine
\* tasks are gone, and the host puts its message back.
Crash(c) ==
    /\ c \in Mortal /\ crashes < MaxCrashes /\ crashes' = crashes + 1
    /\ pc[c] \notin {"idle", "stopped", "notFound", "refused"}
    /\ AbandonCall(c)
    /\ pc' = [pc EXCEPT ![c] = IF c \in Requests \cup Cancellers \cup Operators
                                 THEN "stopped" ELSE "idle"]
    /\ exec' = [exec EXCEPT ![c] = NoExecution]
    /\ task' = [w \in Workers |-> IF w = c THEN "none" ELSE task[w]]
    /\ found' = [k \in Cleaners |-> IF k = c THEN {} ELSE found[k]]
    /\ IF c \in Workers THEN PutBack(exec[c])
       ELSE IF c \in PoisonHandlers THEN msg' = [msg EXCEPT ![exec[c]] = "poison"]
       ELSE UNCHANGED msg
    /\ orphans' = {t \in orphans : t[1] # c}
    /\ UNCHANGED <<dequeues, age, faults>>

Next ==
    \/ \E r \in Requests :
          \/ \E e \in Executions : SubmitRun(r, e)
          \/ RequestStep(r) \/ SyncEnd(r) \/ SendFails(r)
    \/ \E w \in Workers :
          \/ \E e \in Executions : Dequeue(w, e)
          \/ WorkerStep(w) \/ TaskEnds(w) \/ ReadFails(w)
    \/ \E p \in PoisonHandlers : (\E e \in Executions : Bury(p, e)) \/ Buried(p)
    \/ \E k \in Cancellers :
          \/ \E e \in Executions : Cancel(k, e) \/ CancelNotFound(k, e) \/ CancelRefused(k, e)
          \/ CancelAnswer(k)
    \/ \E c \in Cleaners : StartCleanup(c) \/ CleanerStep(c) \/ ScanFails(c)
    \/ \E c \in Callers : RepositoryStep(c) \/ RepositoryFault(c) \/ Crash(c)
    \/ \E t \in orphans : OrphanEnds(t)
    \/ Tick

Spec == Init /\ [][Next]_asyncVars

\* A handler and a storage request that can go on does; the host hands out
\* visible and poison messages and fires the cleanup timer; time passes.
\* Nothing says that a workflow ends (TaskEnds, SyncEnd), that anybody submits
\* or cancels, or that anything fails.
Fairness ==
    /\ \A c \in Callers : WF_asyncVars(RepositoryStep(c))
    /\ \A r \in Requests : WF_asyncVars(RequestStep(r))
    /\ \A w \in Workers :
          /\ WF_asyncVars(\E e \in Executions : Dequeue(w, e))
          /\ WF_asyncVars(WorkerStep(w))
    /\ \A p \in PoisonHandlers :
          /\ WF_asyncVars(\E e \in Executions : Bury(p, e))
          /\ WF_asyncVars(Buried(p))
    /\ \A k \in Cancellers : WF_asyncVars(CancelAnswer(k))
    /\ \A c \in Timers : WF_asyncVars(StartCleanup(c))
    /\ \A c \in Cleaners : WF_asyncVars(CleanerStep(c))
    /\ WF_asyncVars(Tick)

FairSpec == Spec /\ Fairness

-----------------------------------------------------------------------------
(* Properties.                                                               *)

\* The record shows that e runs, or a cleanup gave it up as older than its threshold.
ShownRunning(e) ==
    \/ primary[e] \in {"Running", "Cancelling"}
    \/ primary[e] = "Timeout" /\ age[e] > PendingTimeout
    \/ primary[e] = "Cancelled" /\ age[e] > CancellingTimeout

\* The body of a queued workflow that a worker watches runs only while its record
\* says Running or Cancelling, or under the verdict of a cleanup that found it older
\* than its threshold, whatever crashes and redeliveries came before (worker.py:
\* 144-150, 248).  A body that nobody watches any more runs on under any status but
\* Pending, and beside a second body of the same execution only if the message was
\* delivered again.
RunsVisibly ==
    /\ \A w \in Workers : task[w] = "running" => ShownRunning(exec[w])
    /\ \A t \in orphans :
          /\ primary[t[2]] \notin {Absent, "Pending"}
          /\ \A w \in Workers :
                task[w] = "running" /\ exec[w] = t[2] => dequeues[t[2]] > 1

\* A final execution is reopened only by the worker that starts its message again, by
\* the request that is still enqueuing it (async_executor.py:111), or by a call that
\* overlapped another: a cancel, a cleanup or a result on its own never does.
FinalStays ==
    [][\A e \in Executions :
          primary[e] \in FinalStatuses /\ primary'[e] \notin FinalStatuses =>
              \/ e \in disturbed
              \/ \E w \in Workers : pc[w] = "starting" /\ exec[w] = e
              \/ \E r \in Requests : pc[r] = "queueing" /\ exec[r] = e]_asyncVars

\* A message leaves the queue for good only when its execution has been
\* decided: afterwards the record never says Pending or Running again, also
\* when the request that queued it, an earlier attempt and a cancel overlap.
\* (A poison handler deletes the message even if its own update failed: no run
\* has both a poison handler and failing storage requests.)
AcknowledgedIsDecided ==
    \A e \in Executions :
        msg[e] = "deleted" => primary[e] \notin {"Pending", "Running"}

\* A cancel is undone only by a call that overlaps it, or by the request that has created the
\* execution and writes Pending to it before it sends the message (async_executor.py:111): the
\* worker that finds Cancelling never goes back to Running.
CancelHolds ==
    [][\A e \in Executions :
          primary[e] = "Cancelling" /\ primary'[e] \in {"Pending", "Running"} =>
              \/ e \in disturbed
              \/ \E r \in Requests : pc[r] = "queueing" /\ exec[r] = e]_asyncVars

\* Every execution whose creation completed ends with a final status and keeps
\* one, through worker and poison handler deaths, hanging workflows and
\* cancels: what the queue does not finish, the cleanup does.
Settles ==
    \A e \in Executions :
        display[e] # Absent ~> [](primary[e] \in FinalStatuses)

\* The queue, its consumers and the records are as they should be, and what left the queue is decided.
QueueInv == TypeOK /\ AcknowledgedIsDecided
=============================================================================
