--------------------------- MODULE ScheduleProcessor ---------------------------
(***************************************************************************)
(* Scheduled workflows: the timer that claims and enqueues what is due       *)
(* (functions/timer/schedule_processor.py), and the two requests that do it   *)
(* by hand (shared/handlers/schedules_handlers.py): "process due schedules"   *)
(* and "trigger this schedule".                                               *)
(*                                                                         *)
(* A schedule is one row of the Config table.  A timer run claims a slot by   *)
(* writing the next one with the ETag of the row it read; every other write   *)
(* is a blind upsert of the copy the process holds.  Time is counted in the   *)
(* five-minute intervals calculate_next_run rounds to.  enqueue_workflow_     *)
(* execution is one step here; AsyncExecution has its inside.                 *)
(***************************************************************************)
EXTENDS Naturals, FiniteSets

CONSTANTS
    Workflows,
    Timers,             \* runs of the timer; the code allows for concurrent ones
    Runners,            \* requests that process all due schedules
    Triggers,           \* requests that trigger one schedule
    Crons,              \* valid cron expressions
    InvalidCron,        \* an expression is_cron_expression_valid refuses
    NoCron,             \* the workflow has no schedule
    Descriptions,
    NextRun,            \* [Crons -> [0..MaxTime -> slots]]: calculate_next_run
    NoWorkflow,
    Mortal,             \* processes that may die
    MaxTime, MaxEdits,  \* bounds: intervals, saved edits
    Scenarios,          \* bound: the sets of processes that run together
    MaxFailures         \* bound: requests that fail and processes that die

Processes == Timers \cup Runners \cup Triggers

ASSUME ScheduleAssumption ==
    /\ {MaxTime, MaxEdits, MaxFailures} \subseteq Nat
    /\ Timers \cap (Runners \cup Triggers) = {} /\ Runners \cap Triggers = {}
    /\ IsFiniteSet(Processes)
    /\ Mortal \subseteq Processes /\ Scenarios \subseteq SUBSET Processes
    /\ InvalidCron \notin Crons /\ NoCron \notin Crons /\ InvalidCron # NoCron
    /\ NoWorkflow \notin Workflows
    /\ Descriptions # {}

\* croniter.get_next is later than its base, and rounding only adds to it.
ASSUME NextRunAssumption ==
    \A c \in Crons, t \in 0..MaxTime : NextRun[c][t] \in Nat /\ NextRun[c][t] > t

VARIABLES
    now,        \* the current interval
    code,       \* [Workflows -> Metadata]: the decorators in the workspace files
    row,        \* [Workflows -> Row]: the row schedule:{workflow}
    pc, at, plan, todo,     \* per process: step, its now, metadata scanned, to do
    cur, copy, slot,        \* workflow in hand, its copy of the row, slot to run
    fresh,      \* nobody wrote the row since the process read or claimed it
    enqueued,   \* history [Workflows -> Nat]: executions enqueued
    fired,      \* history: the <<workflow, slot>> that timers ran
    disturbed,  \* history: workflows with a blind or late write
    edits, failures

localVars == <<pc, at, plan, todo, cur, copy, slot>>
histVars == <<enqueued, fired, disturbed>>
boundVars == <<edits, failures>>
scheduleVars == <<now, code, row, localVars, fresh, histVars, boundVars>>

Metadata == [cron: Crons \cup {InvalidCron, NoCron}, description: Descriptions]
AnyDescription == CHOOSE d \in Descriptions : TRUE

NoRow == [cron |-> NoCron, description |-> AnyDescription, next |-> 0, count |-> 0]
Row == [cron: Crons, description: Descriptions, next: Nat, count: Nat] \cup {NoRow}
HasRow(w) == row[w] # NoRow

NoPlan == [w \in Workflows |-> [cron |-> NoCron, description |-> AnyDescription]]

ScheduleTypeOK ==
    /\ now \in 0..MaxTime
    /\ code \in [Workflows -> Metadata]
    /\ row \in [Workflows -> Row]
    /\ pc \in [Processes -> {"idle", "next", "deleting", "initializing", "renaming",
                             "claiming", "enqueueing", "recording", "reading", "stopped"}]
    /\ at \in [Processes -> 0..MaxTime]
    /\ plan \in [Processes -> [Workflows -> Metadata]]
    /\ todo \in [Processes -> SUBSET Workflows]
    /\ cur \in [Processes -> Workflows \cup {NoWorkflow}]
    /\ copy \in [Processes -> Row]
    /\ slot \in [Processes -> Nat]
    /\ fresh \in [Processes -> BOOLEAN]
    /\ enqueued \in [Workflows -> Nat]
    /\ fired \subseteq Workflows \X Nat
    /\ disturbed \subseteq Workflows
    /\ edits \in 0..MaxEdits /\ failures \in 0..MaxFailures

\* A deployment starts with no schedule rows.
ScheduleInit ==
    /\ now = 0
    /\ code \in [Workflows -> [cron: Crons \cup {InvalidCron}, description: {AnyDescription}]]
    /\ row = [w \in Workflows |-> NoRow]
    /\ \E present \in Scenarios :
          pc = [p \in Processes |-> IF p \in present THEN "idle" ELSE "stopped"]
    /\ at = [p \in Processes |-> 0]
    /\ plan = [p \in Processes |-> NoPlan]
    /\ todo = [p \in Processes |-> {}]
    /\ cur = [p \in Processes |-> NoWorkflow]
    /\ copy = [p \in Processes |-> NoRow]
    /\ slot = [p \in Processes |-> 0]
    /\ fresh = [p \in Processes |-> FALSE]
    /\ enqueued = [w \in Workflows |-> 0]
    /\ fired = {}
    /\ disturbed = {}
    /\ edits = 0 /\ failures = 0

-----------------------------------------------------------------------------

\* p awaits a request on workflow w, for which it holds a copy of the row and
\* the slot it will run if there is one.
Await(p, step, w, held, s) ==
    /\ pc' = [pc EXCEPT ![p] = step]
    /\ cur' = [cur EXCEPT ![p] = w]
    /\ copy' = [copy EXCEPT ![p] = held]
    /\ slot' = [slot EXCEPT ![p] = s]

\* p is done with its workflow and goes on to the next one.
Advance(p) == Await(p, "next", NoWorkflow, NoRow, 0)

\* The run of p is over; a timer will run again.
End(p) ==
    /\ Await(p, IF p \in Timers THEN "idle" ELSE "stopped", NoWorkflow, NoRow, 0)
    /\ at' = [at EXCEPT ![p] = 0]
    /\ plan' = [plan EXCEPT ![p] = NoPlan]
    /\ todo' = [todo EXCEPT ![p] = {}]
    /\ fresh' = [fresh EXCEPT ![p] = FALSE]

\* p writes the row of its workflow; every other copy of it is stale.
Write(p, new, keepsEtag) ==
    /\ row' = [row EXCEPT ![cur[p]] = new]
    /\ fresh' = [q \in Processes |->
                    IF q = p THEN keepsEtag ELSE fresh[q] /\ cur[q] # cur[p]]

Disturb(p, condition) ==
    disturbed' = IF condition THEN disturbed \cup {cur[p]} ELSE disturbed

\* p read the clock in an earlier interval.
Late(p) == at[p] # now

\* An upsert without an ETag: it may overwrite what another process wrote.
Upsert(p) == Write(p, copy[p], FALSE) /\ Disturb(p, Late(p) \/ ~fresh[p])

\* The copy p holds with the next slot after its own now.
Rescheduled(p, held, cron) == [held EXCEPT !.next = NextRun[cron][at[p]]]

Recorded(held) == [held EXCEPT !.count = @ + 1]

UseFailure == failures < MaxFailures /\ failures' = failures + 1

-----------------------------------------------------------------------------
(* The timer.                                                                *)

\* scan_all_workflows, then now = utcnow().
BeginScan(p) ==
    /\ p \in Timers \cup Runners /\ pc[p] = "idle"
    /\ at' = [at EXCEPT ![p] = now]
    /\ plan' = [plan EXCEPT ![p] = code]
    /\ todo' = [todo EXCEPT ![p] = {w \in Workflows : code[w].cron # NoCron}]
    /\ pc' = [pc EXCEPT ![p] = "next"]
    /\ UNCHANGED <<now, code, row, cur, copy, slot, fresh, histVars, boundVars>>

\* get_entity has returned: what the timer does with workflow w.
Examine(t, w) ==
    LET meta == plan[t][w]
        renamed == row[w].cron # meta.cron \/ row[w].description # meta.description
        updated == [row[w] EXCEPT !.cron = meta.cron, !.description = meta.description]
    IN
    \/ /\ meta.cron = InvalidCron /\ HasRow(w)
       /\ Await(t, "deleting", w, NoRow, 0)
    \/ /\ meta.cron \in Crons /\ ~HasRow(w)
       /\ Await(t, "initializing", w,
                Rescheduled(t, [NoRow EXCEPT !.cron = meta.cron,
                                             !.description = meta.description], meta.cron), 0)
    \/ /\ meta.cron \in Crons /\ HasRow(w) /\ renamed
       /\ Await(t, "renaming", w,
                IF row[w].cron # meta.cron THEN Rescheduled(t, updated, meta.cron)
                                           ELSE updated, 0)
    \/ /\ meta.cron \in Crons /\ HasRow(w) /\ ~renamed /\ row[w].next <= at[t]
       /\ Await(t, "claiming", w, Rescheduled(t, row[w], meta.cron), row[w].next)
    \/ /\ \/ meta.cron = InvalidCron /\ ~HasRow(w)
          \/ meta.cron \in Crons /\ HasRow(w) /\ ~renamed /\ row[w].next > at[t]
       /\ Await(t, "next", NoWorkflow, NoRow, 0)

TimerReads(t, w) ==
    /\ t \in Timers /\ pc[t] = "next" /\ w \in todo[t]
    /\ todo' = [todo EXCEPT ![t] = @ \ {w}]
    /\ Examine(t, w)
    /\ fresh' = [fresh EXCEPT ![t] = pc'[t] # "next"]
    /\ UNCHANGED <<now, code, row, at, plan, histVars, boundVars>>

DeleteInvalid(t) ==
    /\ pc[t] = "deleting"
    /\ row' = [row EXCEPT ![cur[t]] = NoRow]
    /\ fresh' = [q \in Processes |-> q # t /\ fresh[q] /\ cur[q] # cur[t]]
    /\ Advance(t)
    /\ UNCHANGED <<now, code, at, plan, todo, histVars, boundVars>>

Initialize(t) ==
    /\ pc[t] = "initializing"
    /\ Upsert(t)
    /\ Advance(t)
    /\ UNCHANGED <<now, code, at, plan, todo, enqueued, fired, boundVars>>

\* Mutant of Rename: the upsert leaves the old description in the row.
RenameKeepingDescription(t) ==
    /\ pc[t] = "renaming"
    /\ Write(t, [copy[t] EXCEPT !.description = row[cur[t]].description], FALSE)
    /\ Disturb(t, Late(t) \/ ~fresh[t])
    /\ IF copy[t].next <= at[t]
       THEN Await(t, "claiming", cur[t], Rescheduled(t, copy[t], copy[t].cron), copy[t].next)
       ELSE Advance(t)
    /\ UNCHANGED <<now, code, at, plan, todo, enqueued, fired, boundVars>>

\* The metadata changed: upserted at once.  The copy keeps the ETag of the row
\* as it was, so a claim that follows will be refused.
Rename(t) ==
    /\ pc[t] = "renaming"
    /\ Upsert(t)
    /\ IF copy[t].next <= at[t]
       THEN Await(t, "claiming", cur[t], Rescheduled(t, copy[t], copy[t].cron), copy[t].next)
       ELSE Advance(t)
    /\ UNCHANGED <<now, code, at, plan, todo, enqueued, fired, boundVars>>

\* Mutant of Claim: update_entity in the place of update_entity_with_etag.
ClaimBlindly(t) ==
    /\ pc[t] = "claiming"
    /\ Write(t, copy[t], TRUE)
    /\ Disturb(t, Late(t))
    /\ Await(t, "enqueueing", cur[t], copy[t], slot[t])
    /\ UNCHANGED <<now, code, at, plan, todo, enqueued, fired, boundVars>>

\* update_entity_with_etag succeeds.
Claim(t) ==
    /\ pc[t] = "claiming" /\ fresh[t]
    /\ Write(t, copy[t], TRUE)
    /\ Disturb(t, Late(t))
    /\ Await(t, "enqueueing", cur[t], copy[t], slot[t])
    /\ UNCHANGED <<now, code, at, plan, todo, enqueued, fired, boundVars>>

\* The ETag does not match: another process has the slot.
ClaimRefused(t) ==
    /\ pc[t] = "claiming" /\ ~fresh[t]
    /\ Advance(t)
    /\ UNCHANGED <<now, code, row, at, plan, todo, fresh, histVars, boundVars>>

\* enqueue_workflow_execution has returned an execution id.
Enqueue(p) ==
    /\ p \in Timers \cup Runners /\ pc[p] = "enqueueing"
    /\ enqueued' = [enqueued EXCEPT ![cur[p]] = @ + 1]
    /\ fired' = IF p \in Timers THEN fired \cup {<<cur[p], slot[p]>>} ELSE fired
    /\ Await(p, "recording", cur[p], Recorded(copy[p]), slot[p])
    /\ UNCHANGED <<now, code, row, at, plan, todo, fresh, disturbed, boundVars>>

\* LastRunAt, LastExecutionId, ExecutionCount, without an ETag.
Record(p) ==
    /\ pc[p] = "recording"
    /\ Upsert(p)
    /\ Advance(p)
    /\ UNCHANGED <<now, code, at, plan, todo, enqueued, fired, boundVars>>

EndScan(p) ==
    /\ pc[p] = "next" /\ todo[p] = {}
    /\ End(p)
    /\ UNCHANGED <<now, code, row, histVars, boundVars>>

-----------------------------------------------------------------------------
(* The requests: nothing is claimed.                                         *)

RunnerReads(m, w) ==
    /\ m \in Runners /\ pc[m] = "next" /\ w \in todo[m]
    /\ todo' = [todo EXCEPT ![m] = @ \ {w}]
    /\ IF plan[m][w].cron \in Crons /\ HasRow(w) /\ row[w].next <= at[m]
       THEN Await(m, "enqueueing", w, Rescheduled(m, row[w], plan[m][w].cron), row[w].next)
       ELSE UNCHANGED <<pc, cur, copy, slot>>
    /\ fresh' = [fresh EXCEPT ![m] = pc'[m] # "next"]
    /\ UNCHANGED <<now, code, row, at, plan, histVars, boundVars>>

\* A trigger enqueues first, whatever is due.
TriggerEnqueues(g, w) ==
    /\ g \in Triggers /\ pc[g] = "idle" /\ code[w].cron \in Crons
    /\ plan' = [plan EXCEPT ![g] = code]
    /\ enqueued' = [enqueued EXCEPT ![w] = @ + 1]
    /\ Await(g, "reading", w, NoRow, 0)
    /\ UNCHANGED <<now, code, row, at, todo, fresh, fired, disturbed, boundVars>>

\* ... and reads the row and the clock afterwards.
TriggerReads(g) ==
    /\ pc[g] = "reading"
    /\ at' = [at EXCEPT ![g] = now]
    /\ IF HasRow(cur[g])
       THEN Await(g, "recording", cur[g],
                  Recorded([row[cur[g]] EXCEPT !.next = NextRun[plan[g][cur[g]].cron][now]]), 0)
       ELSE Advance(g)
    /\ fresh' = [fresh EXCEPT ![g] = pc'[g] # "next"]
    /\ UNCHANGED <<now, code, row, plan, todo, histVars, boundVars>>

-----------------------------------------------------------------------------
(* Failures, time, edits of the workspace.                                   *)

\* Mutant of RequestFails: a failed enqueue is recorded like a successful one.
FailureRecorded(p) ==
    /\ pc[p] = "enqueueing"
    /\ UseFailure
    /\ Await(p, "recording", cur[p], Recorded(copy[p]), slot[p])
    /\ UNCHANGED <<now, code, row, at, plan, todo, fresh, histVars, edits>>

\* The request a process awaits raises: the timer and the runner log it and go
\* on with the next workflow, the trigger answers an error.
RequestFails(p) ==
    /\ \/ pc[p] \in {"deleting", "initializing", "renaming", "claiming",
                     "enqueueing", "recording", "reading"}
       \/ pc[p] = "next" /\ todo[p] # {}
    /\ UseFailure
    /\ \/ pc[p] # "next" /\ UNCHANGED todo
       \/ pc[p] = "next" /\ \E w \in todo[p] : todo' = [todo EXCEPT ![p] = @ \ {w}]
    /\ Advance(p)
    /\ fresh' = [fresh EXCEPT ![p] = FALSE]
    /\ UNCHANGED <<now, code, row, at, plan, histVars, edits>>

Crash(p) ==
    /\ p \in Mortal /\ pc[p] \notin {"idle", "stopped"}
    /\ UseFailure
    /\ End(p)
    /\ UNCHANGED <<now, code, row, histVars, edits>>

Tick ==
    /\ now < MaxTime /\ now' = now + 1
    /\ UNCHANGED <<code, row, localVars, fresh, histVars, boundVars>>

\* A developer saves the workflow's file.
Edit(w) ==
    /\ edits < MaxEdits /\ edits' = edits + 1
    /\ \E meta \in Metadata : code' = [code EXCEPT ![w] = meta]
    /\ UNCHANGED <<now, row, localVars, fresh, histVars, failures>>

TimerStep(t) ==
    \/ \E w \in Workflows : TimerReads(t, w)
    \/ DeleteInvalid(t) \/ Initialize(t) \/ Rename(t) \/ Claim(t) \/ ClaimRefused(t)
    \/ Enqueue(t) \/ Record(t) \/ EndScan(t)

RequestStep(p) ==
    \/ \E w \in Workflows : RunnerReads(p, w)
    \/ TriggerReads(p) \/ Enqueue(p) \/ Record(p) \/ EndScan(p)

ScheduleNext ==
    \/ \E t \in Timers : BeginScan(t) \/ TimerStep(t)
    \/ \E m \in Runners : BeginScan(m) \/ RequestStep(m)
    \/ \E g \in Triggers : (\E w \in Workflows : TriggerEnqueues(g, w)) \/ RequestStep(g)
    \/ \E p \in Processes : RequestFails(p) \/ Crash(p)
    \/ Tick
    \/ \E w \in Workflows : Edit(w)

ScheduleSpec == ScheduleInit /\ [][ScheduleNext]_scheduleVars

\* The host fires the timer again and again and runs what it started; a
\* request, once started, goes on.  Nobody has to send one.
ScheduleFairness ==
    /\ \A t \in Timers : WF_scheduleVars(BeginScan(t)) /\ WF_scheduleVars(TimerStep(t))
    /\ \A p \in Runners \cup Triggers : WF_scheduleVars(RequestStep(p))

FairScheduleSpec == ScheduleSpec /\ ScheduleFairness

-----------------------------------------------------------------------------
(* Properties.                                                               *)

\* Two timer runs never run the same slot of a schedule, as long as nobody
\* wrote its row over a newer one or with an old clock: whoever is about to
\* enqueue a slot it has claimed is the only one, and is the first.
SlotRunsOnce ==
    \A t \in Timers :
        pc[t] = "enqueueing" /\ cur[t] \notin disturbed =>
            /\ <<cur[t], slot[t]>> \notin fired
            /\ \A u \in Timers \ {t} :
                  pc[u] = "enqueueing" /\ cur[u] = cur[t] => slot[u] # slot[t]

\* ExecutionCount never says more than was enqueued, whatever overlaps or fails.
CountNeverOverstates ==
    \A w \in Workflows : row[w].count <= enqueued[w]

\* What the row of w says once everything has been taken up: an invalid
\* schedule has none; a valid one has the workspace's metadata and is not due.
InStep(w) ==
    CASE code[w].cron = NoCron -> TRUE
      [] code[w].cron = InvalidCron -> ~HasRow(w)
      [] OTHER -> /\ row[w].cron = code[w].cron
                  /\ row[w].description = code[w].description
                  /\ row[w].next > now

\* After the last edit every schedule gets in step with the workspace and stays
\* so, through refused claims, blind writes, failures and deaths.
CatchesUp == <>[](\A w \in Workflows : InStep(w))
=============================================================================
