------------------------ MODULE ScheduleProcessor_proofs ------------------------
(***************************************************************************)
(* What holds of the schedules for any workflows, timers, requests and cron  *)
(* expressions: the type invariant, that the timers run a slot once, and     *)
(* that ExecutionCount never says more than was enqueued.                    *)
(***************************************************************************)
EXTENDS ScheduleProcessor, FiniteSetTheorems, TLAPS

Steps == {"idle", "next", "deleting", "initializing", "renaming",
          "claiming", "enqueueing", "recording", "reading", "stopped"}
Holding == {"deleting", "initializing", "renaming",
            "claiming", "enqueueing", "recording", "reading"}
Writing == {"initializing", "renaming", "claiming", "enqueueing", "recording"}

ProperRow == [cron: Crons, description: Descriptions, next: Nat, count: Nat]

\* A process that awaits a request holds a workflow, and one that will write the
\* row holds a copy with a valid expression.
HoldingInv ==
    \A p \in Processes :
        /\ pc[p] \in Holding => cur[p] \in Workflows
        /\ pc[p] \in Writing => copy[p] \in ProperRow
        /\ pc[p] = "reading" => plan[p][cur[p]].cron \in Crons

TypeInv == ScheduleTypeOK /\ HoldingInv

-----------------------------------------------------------------------------
(* Rows and copies.                                                          *)

LEMMA AnyDescriptionType == AnyDescription \in Descriptions
BY ScheduleAssumption DEF AnyDescription

LEMMA ProperIsRow == ProperRow \subseteq Row /\ NoRow \in Row
BY DEF ProperRow, Row

LEMMA RowIsProper ==
    ASSUME NEW r \in Row, r # NoRow PROVE r \in ProperRow
BY DEF ProperRow, Row

LEMMA NextRunType ==
    ASSUME NEW c \in Crons, NEW t \in 0..MaxTime
    PROVE  NextRun[c][t] \in Nat /\ NextRun[c][t] > t
BY NextRunAssumption

\* The copy that Examine makes of a row it initializes or renames.
Renamed(r, c, d) == [r EXCEPT !.cron = c, !.description = d]

LEMMA UpdatedRow ==
    ASSUME NEW r \in Row, NEW c \in Crons, NEW d \in Descriptions
    PROVE  /\ Renamed(r, c, d) \in ProperRow
           /\ Renamed(r, c, d).next = r.next
           /\ Renamed(r, c, d).count = r.count
           /\ r.next \in Nat /\ r.count \in Nat
<1>1. CASE r \in ProperRow
    BY <1>1 DEF ProperRow, Renamed
<1>2. CASE r = NoRow
    BY <1>2 DEF ProperRow, NoRow, Renamed
<1> QED BY <1>1, <1>2, RowIsProper

LEMMA RescheduledRow ==
    ASSUME NEW r \in ProperRow, NEW n \in Nat
    PROVE  /\ [r EXCEPT !.next = n] \in ProperRow
           /\ [r EXCEPT !.next = n].next = n
           /\ [r EXCEPT !.next = n].count = r.count
BY DEF ProperRow

LEMMA RecordedRow ==
    ASSUME NEW r \in ProperRow
    PROVE  /\ Recorded(r) \in ProperRow
           /\ Recorded(r).next = r.next
           /\ Recorded(r).count = r.count + 1
BY DEF ProperRow, Recorded

-----------------------------------------------------------------------------
(* Type correctness.                                                         *)

\* What a process awaits next is typed if its copy and its workflow are.
LEMMA AwaitType ==
    ASSUME TypeInv, NEW p \in Processes, NEW step \in Steps,
           NEW w \in Workflows \cup {NoWorkflow}, NEW held \in Row, NEW s \in Nat,
           step \in Holding => w \in Workflows,
           step \in Writing => held \in ProperRow,
           step # "reading",
           Await(p, step, w, held, s),
           \A q \in Processes : pc[q] = "reading" /\ q # p => plan'[q] = plan[q]
    PROVE  /\ pc' \in [Processes -> Steps]
           /\ cur' \in [Processes -> Workflows \cup {NoWorkflow}]
           /\ copy' \in [Processes -> Row]
           /\ slot' \in [Processes -> Nat]
           /\ HoldingInv'
BY DEF TypeInv, ScheduleTypeOK, HoldingInv, Await, Steps

LEMMA AdvanceType ==
    ASSUME TypeInv, NEW p \in Processes, Advance(p), UNCHANGED plan
    PROVE  /\ pc' \in [Processes -> Steps]
           /\ cur' \in [Processes -> Workflows \cup {NoWorkflow}]
           /\ copy' \in [Processes -> Row]
           /\ slot' \in [Processes -> Nat]
           /\ HoldingInv'
BY AwaitType, ProperIsRow DEF Advance, Steps, Holding, Writing

\* A write leaves rows, ETags and the history of disturbances typed.
LEMMA WriteType ==
    ASSUME TypeInv, NEW p \in Processes, NEW new \in Row, NEW keeps \in BOOLEAN,
           cur[p] \in Workflows, Write(p, new, keeps)
    PROVE  row' \in [Workflows -> Row] /\ fresh' \in [Processes -> BOOLEAN]
BY DEF TypeInv, ScheduleTypeOK, Write

LEMMA DisturbType ==
    ASSUME TypeInv, NEW p \in Processes, NEW condition, cur[p] \in Workflows,
           Disturb(p, condition)
    PROVE  disturbed' \subseteq Workflows
BY DEF TypeInv, ScheduleTypeOK, Disturb

\* Every step that Examine takes is typed, and tells what the copy holds.
LEMMA ExamineHolds ==
    ASSUME TypeInv, NEW t \in Timers, NEW w \in Workflows, Examine(t, w)
    PROVE  \E step \in Steps, held \in Row, s \in Nat, v \in Workflows \cup {NoWorkflow} :
              /\ Await(t, step, v, held, s)
              /\ step # "reading"
              /\ \/ step = "next" /\ v = NoWorkflow /\ held = NoRow
                 \/ step = "deleting" /\ v = w /\ held = NoRow
                 \/ /\ step \in {"initializing", "renaming", "claiming"}
                    /\ v = w /\ held \in ProperRow
                    /\ held.count = row[w].count
                    /\ step = "initializing" => held.next > at[t]
                    /\ step = "renaming" =>
                          HasRow(w) /\ (held.next = row[w].next \/ held.next > at[t])
                    /\ step = "claiming" =>
                          /\ HasRow(w) /\ s = row[w].next /\ s <= at[t]
                          /\ held.next > at[t]
<1> DEFINE meta == plan[t][w]
           updated == Renamed(row[w], meta.cron, meta.description)
           initial == Renamed(NoRow, meta.cron, meta.description)
<1>1. /\ t \in Processes /\ at[t] \in 0..MaxTime /\ row[w] \in Row
      /\ meta.description \in Descriptions
    BY DEF TypeInv, ScheduleTypeOK, Processes, Metadata
<1>2. CASE meta.cron = InvalidCron /\ HasRow(w) /\ Await(t, "deleting", w, NoRow, 0)
    BY <1>2, ProperIsRow DEF Steps
<1>3. CASE Await(t, "next", NoWorkflow, NoRow, 0)
    BY <1>3, ProperIsRow DEF Steps
<1>4. ASSUME meta.cron \in Crons
      PROVE  /\ NextRun[meta.cron][at[t]] \in Nat /\ NextRun[meta.cron][at[t]] > at[t]
             /\ updated \in ProperRow /\ updated.next = row[w].next /\ updated.count = row[w].count
             /\ initial \in ProperRow /\ initial.count = 0
             /\ Rescheduled(t, updated, meta.cron) \in ProperRow
             /\ Rescheduled(t, updated, meta.cron).next = NextRun[meta.cron][at[t]]
             /\ Rescheduled(t, updated, meta.cron).count = row[w].count
             /\ Rescheduled(t, initial, meta.cron) \in ProperRow
             /\ Rescheduled(t, initial, meta.cron).next = NextRun[meta.cron][at[t]]
             /\ Rescheduled(t, initial, meta.cron).count = 0
    <2>1. NextRun[meta.cron][at[t]] \in Nat /\ NextRun[meta.cron][at[t]] > at[t]
        BY <1>1, <1>4, NextRunType
    <2>2. /\ updated \in ProperRow /\ updated.next = row[w].next /\ updated.count = row[w].count
        BY <1>1, <1>4, UpdatedRow
    <2>3. initial \in ProperRow /\ initial.count = 0
        BY <1>1, <1>4, UpdatedRow, ProperIsRow DEF NoRow
    <2> QED BY <2>1, <2>2, <2>3, RescheduledRow DEF Rescheduled
<1>5. CASE /\ meta.cron \in Crons /\ ~HasRow(w)
           /\ Await(t, "initializing", w, Rescheduled(t, initial, meta.cron), 0)
    <2>1. row[w].count = 0
        BY <1>5 DEF HasRow, NoRow
    <2> QED BY <1>1, <1>4, <1>5, <2>1, ProperIsRow DEF Steps
<1>6. CASE /\ meta.cron \in Crons /\ HasRow(w)
           /\ \/ Await(t, "renaming", w, updated, 0)
              \/ Await(t, "renaming", w, Rescheduled(t, updated, meta.cron), 0)
    BY <1>1, <1>4, <1>6, ProperIsRow DEF Steps
<1>7. CASE /\ meta.cron \in Crons /\ HasRow(w) /\ row[w].next <= at[t]
           /\ Await(t, "claiming", w, Rescheduled(t, row[w], meta.cron), row[w].next)
    <2>1. row[w] \in ProperRow /\ row[w].next \in Nat
        BY <1>1, <1>7, RowIsProper DEF HasRow, ProperRow
    <2>2. /\ Rescheduled(t, row[w], meta.cron) \in ProperRow
          /\ Rescheduled(t, row[w], meta.cron).next > at[t]
          /\ Rescheduled(t, row[w], meta.cron).count = row[w].count
        BY <1>4, <1>7, <2>1, RescheduledRow DEF Rescheduled
    <2> QED BY <1>1, <1>7, <2>1, <2>2, ProperIsRow DEF Steps
<1> QED BY <1>2, <1>3, <1>5, <1>6, <1>7 DEF Examine, Renamed

\* Ending a run leaves everything typed.
LEMMA EndType ==
    ASSUME TypeInv, NEW p \in Processes, End(p)
    PROVE  /\ pc' \in [Processes -> Steps]
           /\ cur' \in [Processes -> Workflows \cup {NoWorkflow}]
           /\ copy' \in [Processes -> Row]
           /\ slot' \in [Processes -> Nat]
           /\ at' \in [Processes -> 0..MaxTime]
           /\ plan' \in [Processes -> [Workflows -> Metadata]]
           /\ todo' \in [Processes -> SUBSET Workflows]
           /\ fresh' \in [Processes -> BOOLEAN]
           /\ HoldingInv'
<1>1. /\ plan \in [Processes -> [Workflows -> Metadata]]
      /\ at \in [Processes -> 0..MaxTime] /\ MaxTime \in Nat
      /\ todo \in [Processes -> SUBSET Workflows]
      /\ fresh \in [Processes -> BOOLEAN]
    BY ScheduleAssumption DEF TypeInv, ScheduleTypeOK
<1>2. NoPlan \in [Workflows -> Metadata]
    BY AnyDescriptionType DEF NoPlan, Metadata
<1>3. /\ pc' \in [Processes -> Steps]
      /\ cur' \in [Processes -> Workflows \cup {NoWorkflow}]
      /\ copy' \in [Processes -> Row]
      /\ slot' \in [Processes -> Nat]
      /\ HoldingInv'
    BY AwaitType, ProperIsRow DEF End, Steps, Holding, Writing
<1> QED BY <1>1, <1>2, <1>3 DEF End

LEMMA TypeInit == ScheduleInit => TypeInv
<1> SUFFICES ASSUME ScheduleInit PROVE TypeInv
    OBVIOUS
<1>1. NoPlan \in [Workflows -> Metadata] /\ NoRow \in Row /\ AnyDescription \in Descriptions
    BY AnyDescriptionType, ProperIsRow DEF NoPlan, Metadata
<1>2. ScheduleTypeOK
    BY <1>1, ScheduleAssumption DEF ScheduleInit, ScheduleTypeOK, Metadata
<1>3. HoldingInv
    BY DEF ScheduleInit, HoldingInv, Holding, Writing
<1> QED BY <1>2, <1>3 DEF TypeInv

LEMMA TimerReadsType ==
    ASSUME TypeInv, NEW t \in Timers, NEW w \in Workflows, TimerReads(t, w)
    PROVE  TypeInv'
<1>1. PICK step \in Steps, held \in Row, s \in Nat, v \in Workflows \cup {NoWorkflow} :
         /\ Await(t, step, v, held, s)
         /\ step # "reading"
         /\ step \in Holding => v \in Workflows
         /\ step \in Writing => held \in ProperRow
    BY ExamineHolds DEF TimerReads, Holding, Writing
<1>2. t \in Processes
    BY DEF Processes
<1>3. /\ pc' \in [Processes -> Steps]
      /\ cur' \in [Processes -> Workflows \cup {NoWorkflow}]
      /\ copy' \in [Processes -> Row]
      /\ slot' \in [Processes -> Nat]
      /\ HoldingInv'
    BY <1>1, <1>2, AwaitType DEF TimerReads
<1>4. todo' \in [Processes -> SUBSET Workflows] /\ fresh' \in [Processes -> BOOLEAN]
    BY <1>2 DEF TypeInv, ScheduleTypeOK, TimerReads
<1> QED BY <1>3, <1>4 DEF TypeInv, ScheduleTypeOK, TimerReads, histVars, boundVars, Steps

LEMMA RunnerReadsType ==
    ASSUME TypeInv, NEW m \in Runners, NEW w \in Workflows, RunnerReads(m, w)
    PROVE  TypeInv'
<1>1. m \in Processes /\ row[w] \in Row /\ at[m] \in 0..MaxTime
    BY DEF Processes, TypeInv, ScheduleTypeOK
<1>2. todo' \in [Processes -> SUBSET Workflows] /\ fresh' \in [Processes -> BOOLEAN]
    BY <1>1 DEF TypeInv, ScheduleTypeOK, RunnerReads
<1>3. CASE UNCHANGED <<pc, cur, copy, slot>>
    BY <1>2, <1>3 DEF TypeInv, ScheduleTypeOK, HoldingInv, RunnerReads, histVars, boundVars
<1>4. CASE /\ plan[m][w].cron \in Crons /\ HasRow(w)
           /\ Await(m, "enqueueing", w, Rescheduled(m, row[w], plan[m][w].cron), row[w].next)
    <2>1. row[w] \in ProperRow /\ row[w].next \in Nat
        BY <1>1, <1>4, RowIsProper DEF HasRow, ProperRow
    <2>2. Rescheduled(m, row[w], plan[m][w].cron) \in ProperRow
        BY <1>1, <1>4, <2>1, NextRunType, RescheduledRow DEF Rescheduled
    <2>3. /\ pc' \in [Processes -> Steps]
          /\ cur' \in [Processes -> Workflows \cup {NoWorkflow}]
          /\ copy' \in [Processes -> Row]
          /\ slot' \in [Processes -> Nat]
          /\ HoldingInv'
        BY <1>1, <1>4, <2>1, <2>2, AwaitType, ProperIsRow DEF RunnerReads, Steps
    <2> QED BY <1>2, <2>3 DEF TypeInv, ScheduleTypeOK, RunnerReads, histVars, boundVars, Steps
<1> QED BY <1>3, <1>4 DEF RunnerReads

LEMMA TriggerReadsType ==
    ASSUME TypeInv, NEW g \in Processes, TriggerReads(g)
    PROVE  TypeInv'
<1>1. /\ g \in Processes /\ cur[g] \in Workflows /\ row[cur[g]] \in Row
      /\ plan[g][cur[g]].cron \in Crons /\ now \in 0..MaxTime
    BY DEF Processes, TypeInv, ScheduleTypeOK, HoldingInv, Holding, TriggerReads
<1>2. at' \in [Processes -> 0..MaxTime] /\ fresh' \in [Processes -> BOOLEAN]
    BY <1>1 DEF TypeInv, ScheduleTypeOK, TriggerReads
<1>3. /\ pc' \in [Processes -> Steps]
      /\ cur' \in [Processes -> Workflows \cup {NoWorkflow}]
      /\ copy' \in [Processes -> Row]
      /\ slot' \in [Processes -> Nat]
      /\ HoldingInv'
    <2>1. CASE Advance(g)
        BY <1>1, <2>1, AdvanceType DEF TriggerReads
    <2>2. CASE /\ HasRow(cur[g])
               /\ Await(g, "recording", cur[g],
                        Recorded([row[cur[g]] EXCEPT !.next = NextRun[plan[g][cur[g]].cron][now]]), 0)
        <3>1. Recorded([row[cur[g]] EXCEPT !.next = NextRun[plan[g][cur[g]].cron][now]]) \in ProperRow
            BY <1>1, <2>2, RowIsProper, NextRunType, RescheduledRow, RecordedRow DEF HasRow
        <3> QED BY <1>1, <2>2, <3>1, AwaitType, ProperIsRow DEF TriggerReads, Steps
    <2> QED BY <2>1, <2>2 DEF TriggerReads
<1> QED BY <1>2, <1>3 DEF TypeInv, ScheduleTypeOK, TriggerReads, histVars, boundVars, Steps

\* A step that ends the work on a workflow, having written its row or not.
LEMMA WorkDoneType ==
    ASSUME TypeInv, NEW p \in Processes,
           DeleteInvalid(p) \/ Initialize(p) \/ ClaimRefused(p) \/ Record(p)
    PROVE  TypeInv'
<1>1. /\ pc' \in [Processes -> Steps]
      /\ cur' \in [Processes -> Workflows \cup {NoWorkflow}]
      /\ copy' \in [Processes -> Row]
      /\ slot' \in [Processes -> Nat]
      /\ HoldingInv'
    BY AdvanceType DEF DeleteInvalid, Initialize, ClaimRefused, Record
<1>2. CASE DeleteInvalid(p)
    <2>1. row' \in [Workflows -> Row] /\ fresh' \in [Processes -> BOOLEAN]
        BY <1>2, ProperIsRow DEF DeleteInvalid, TypeInv, ScheduleTypeOK
    <2> QED BY <1>1, <1>2, <2>1 DEF DeleteInvalid, TypeInv, ScheduleTypeOK, histVars, boundVars, Steps
<1>3. CASE Initialize(p) \/ Record(p)
    <2>1. copy[p] \in Row /\ cur[p] \in Workflows
        BY <1>3 DEF Initialize, Record, TypeInv, ScheduleTypeOK, HoldingInv, Holding
    <2>2. row' \in [Workflows -> Row] /\ fresh' \in [Processes -> BOOLEAN]
        BY <1>3, <2>1, WriteType DEF Initialize, Record, Upsert
    <2>3. disturbed' \subseteq Workflows
        BY <1>3, <2>1, DisturbType DEF Initialize, Record, Upsert
    <2> QED BY <1>1, <1>3, <2>2, <2>3
            DEF Initialize, Record, TypeInv, ScheduleTypeOK, boundVars, Steps
<1>4. CASE ClaimRefused(p)
    BY <1>1, <1>4 DEF ClaimRefused, TypeInv, ScheduleTypeOK, histVars, boundVars, Steps
<1> QED BY <1>2, <1>3, <1>4

LEMMA RenameType ==
    ASSUME TypeInv, NEW p \in Processes, Rename(p)
    PROVE  TypeInv'
<1>1. copy[p] \in ProperRow /\ cur[p] \in Workflows /\ at[p] \in 0..MaxTime
    BY DEF Rename, TypeInv, ScheduleTypeOK, HoldingInv, Holding, Writing
<1>2. row' \in [Workflows -> Row] /\ fresh' \in [Processes -> BOOLEAN]
    BY <1>1, ProperIsRow, WriteType DEF Rename, Upsert
<1>3. disturbed' \subseteq Workflows
    BY <1>1, DisturbType DEF Rename, Upsert
<1>4. /\ pc' \in [Processes -> Steps]
      /\ cur' \in [Processes -> Workflows \cup {NoWorkflow}]
      /\ copy' \in [Processes -> Row]
      /\ slot' \in [Processes -> Nat]
      /\ HoldingInv'
    <2>1. CASE Advance(p)
        BY <2>1, AdvanceType DEF Rename
    <2>2. CASE Await(p, "claiming", cur[p], Rescheduled(p, copy[p], copy[p].cron), copy[p].next)
        <3>1. copy[p].cron \in Crons /\ copy[p].next \in Nat
            BY <1>1 DEF ProperRow
        <3>2. Rescheduled(p, copy[p], copy[p].cron) \in ProperRow
            BY <1>1, <3>1, NextRunType, RescheduledRow DEF Rescheduled
        <3> QED BY <1>1, <2>2, <3>1, <3>2, AwaitType, ProperIsRow DEF Rename, Steps
    <2> QED BY <2>1, <2>2 DEF Rename
<1> QED BY <1>2, <1>3, <1>4 DEF Rename, TypeInv, ScheduleTypeOK, boundVars, Steps

LEMMA ClaimType ==
    ASSUME TypeInv, NEW p \in Processes, Claim(p)
    PROVE  TypeInv'
<1>1. /\ copy[p] \in ProperRow /\ cur[p] \in Workflows /\ slot[p] \in Nat
    BY DEF Claim, TypeInv, ScheduleTypeOK, HoldingInv, Holding, Writing
<1>2. row' \in [Workflows -> Row] /\ fresh' \in [Processes -> BOOLEAN]
    BY <1>1, ProperIsRow, WriteType DEF Claim
<1>3. disturbed' \subseteq Workflows
    BY <1>1, DisturbType DEF Claim
<1>4. /\ pc' \in [Processes -> Steps]
      /\ cur' \in [Processes -> Workflows \cup {NoWorkflow}]
      /\ copy' \in [Processes -> Row]
      /\ slot' \in [Processes -> Nat]
      /\ HoldingInv'
    BY <1>1, AwaitType, ProperIsRow DEF Claim, Steps
<1> QED BY <1>2, <1>3, <1>4 DEF Claim, TypeInv, ScheduleTypeOK, boundVars, Steps

LEMMA EnqueueType ==
    ASSUME TypeInv, NEW p \in Processes, Enqueue(p)
    PROVE  TypeInv'
<1>1. /\ copy[p] \in ProperRow /\ cur[p] \in Workflows /\ slot[p] \in Nat
    BY DEF Enqueue, TypeInv, ScheduleTypeOK, HoldingInv, Holding, Writing
<1>2. /\ pc' \in [Processes -> Steps]
      /\ cur' \in [Processes -> Workflows \cup {NoWorkflow}]
      /\ copy' \in [Processes -> Row]
      /\ slot' \in [Processes -> Nat]
      /\ HoldingInv'
    BY <1>1, RecordedRow, AwaitType, ProperIsRow DEF Enqueue, Steps
<1>3. enqueued' \in [Workflows -> Nat] /\ fired' \subseteq Workflows \X Nat
    BY <1>1 DEF Enqueue, TypeInv, ScheduleTypeOK
<1> QED BY <1>2, <1>3 DEF Enqueue, TypeInv, ScheduleTypeOK, boundVars, Steps

LEMMA TriggerEnqueuesType ==
    ASSUME TypeInv, NEW g \in Triggers, NEW w \in Workflows, TriggerEnqueues(g, w)
    PROVE  TypeInv'
<1>1. g \in Processes
    BY DEF Processes
<1>2. /\ pc' \in [Processes -> Steps] /\ plan' \in [Processes -> [Workflows -> Metadata]]
      /\ cur' \in [Processes -> Workflows \cup {NoWorkflow}]
      /\ copy' \in [Processes -> Row]
      /\ slot' \in [Processes -> Nat]
      /\ enqueued' \in [Workflows -> Nat]
    BY <1>1, ProperIsRow DEF TriggerEnqueues, Await, TypeInv, ScheduleTypeOK, Steps
<1>3. HoldingInv'
    BY <1>1 DEF TriggerEnqueues, Await, TypeInv, ScheduleTypeOK, HoldingInv, Holding, Writing
<1> QED BY <1>2, <1>3 DEF TriggerEnqueues, TypeInv, ScheduleTypeOK, boundVars, Steps

LEMMA OtherStepsType ==
    ASSUME TypeInv, NEW p \in Processes,
           BeginScan(p) \/ EndScan(p) \/ RequestFails(p) \/ Crash(p)
    PROVE  TypeInv'
<1>1. CASE BeginScan(p)
    <2>1. /\ pc' \in [Processes -> Steps] /\ at' \in [Processes -> 0..MaxTime]
          /\ plan' \in [Processes -> [Workflows -> Metadata]]
          /\ todo' \in [Processes -> SUBSET Workflows]
        BY <1>1 DEF BeginScan, TypeInv, ScheduleTypeOK, Steps
    <2>2. HoldingInv'
        BY <1>1 DEF BeginScan, TypeInv, ScheduleTypeOK, HoldingInv, Holding, Writing
    <2> QED BY <1>1, <2>1, <2>2
            DEF BeginScan, TypeInv, ScheduleTypeOK, histVars, boundVars, Steps
<1>2. CASE EndScan(p)
    BY <1>2, EndType DEF EndScan, TypeInv, ScheduleTypeOK, histVars, boundVars, Steps
<1>3. CASE Crash(p)
    BY <1>3, EndType, ScheduleAssumption
       DEF Crash, UseFailure, TypeInv, ScheduleTypeOK, histVars, Steps
<1>4. CASE RequestFails(p)
    <2>1. /\ pc' \in [Processes -> Steps]
          /\ cur' \in [Processes -> Workflows \cup {NoWorkflow}]
          /\ copy' \in [Processes -> Row]
          /\ slot' \in [Processes -> Nat]
          /\ HoldingInv'
        BY <1>4, AdvanceType DEF RequestFails
    <2>2. todo' \in [Processes -> SUBSET Workflows] /\ fresh' \in [Processes -> BOOLEAN]
          /\ failures' \in 0..MaxFailures
        BY <1>4, ScheduleAssumption DEF RequestFails, UseFailure, TypeInv, ScheduleTypeOK
    <2> QED BY <1>4, <2>1, <2>2 DEF RequestFails, TypeInv, ScheduleTypeOK, histVars, Steps
<1> QED BY <1>1, <1>2, <1>3, <1>4

LEMMA WorldType ==
    ASSUME TypeInv,
           Tick \/ (\E w \in Workflows : Edit(w)) \/ UNCHANGED scheduleVars
    PROVE  TypeInv'
<1>1. CASE Tick
    BY <1>1, ScheduleAssumption
       DEF Tick, TypeInv, ScheduleTypeOK, HoldingInv, localVars, histVars, boundVars
<1>2. CASE \E w \in Workflows : Edit(w)
    BY <1>2, ScheduleAssumption
       DEF Edit, TypeInv, ScheduleTypeOK, HoldingInv, localVars, histVars
<1>3. CASE UNCHANGED scheduleVars
    BY <1>3 DEF scheduleVars, TypeInv, ScheduleTypeOK, HoldingInv, localVars, histVars, boundVars
<1> QED BY <1>1, <1>2, <1>3

LEMMA TypeStep == TypeInv /\ [ScheduleNext]_scheduleVars => TypeInv'
<1> SUFFICES ASSUME TypeInv, [ScheduleNext]_scheduleVars PROVE TypeInv'
    OBVIOUS
<1> USE DEF Processes
<1>1. ASSUME NEW t \in Timers, BeginScan(t) \/ TimerStep(t) PROVE TypeInv'
    BY <1>1, TimerReadsType, WorkDoneType, RenameType, ClaimType, EnqueueType, OtherStepsType
       DEF TimerStep
<1>2. ASSUME NEW m \in Runners, BeginScan(m) \/ RequestStep(m) PROVE TypeInv'
    BY <1>2, RunnerReadsType, TriggerReadsType, EnqueueType, WorkDoneType, OtherStepsType
       DEF RequestStep
<1>3. ASSUME NEW g \in Triggers, (\E w \in Workflows : TriggerEnqueues(g, w)) \/ RequestStep(g)
      PROVE  TypeInv'
    BY <1>3, TriggerEnqueuesType, RunnerReadsType, TriggerReadsType, EnqueueType,
       WorkDoneType, OtherStepsType DEF RequestStep, RunnerReads
<1>4. ASSUME NEW p \in Processes, RequestFails(p) \/ Crash(p) PROVE TypeInv'
    BY <1>4, OtherStepsType
<1> QED BY <1>1, <1>2, <1>3, <1>4, WorldType DEF ScheduleNext

\* The state of the schedules keeps its type whatever overlaps, fails or dies; in
\* particular no row exists without a valid expression.
THEOREM ScheduleTypeCorrect == ScheduleSpec => []ScheduleTypeOK
<1>1. ScheduleSpec => []TypeInv
    BY TypeInit, TypeStep, PTL DEF ScheduleSpec
<1>2. TypeInv => ScheduleTypeOK
    BY DEF TypeInv
<1> QED BY <1>1, <1>2, PTL

-----------------------------------------------------------------------------
(* A slot runs once.  A claim moves the row past the slot it takes, and no    *)
(* write that is in time and of a fresh copy moves it back: every slot taken  *)
(* lies before the row's next one, and a claim takes the row's next one.      *)

\* A process reads its clock once; what it is to write comes after that, and a
\* fresh copy still speaks of the row as it is.
ReadInv(p) ==
    /\ at[p] <= now
    /\ pc[p] \in {"initializing", "claiming", "enqueueing", "recording"} =>
          copy[p].next > at[p]
    /\ pc[p] = "claiming" => slot[p] <= at[p]
    /\ fresh[p] /\ pc[p] = "renaming" =>
          HasRow(cur[p]) /\ (copy[p].next > at[p] \/ copy[p].next = row[cur[p]].next)
    /\ fresh[p] /\ pc[p] = "claiming" =>
          HasRow(cur[p]) /\ slot[p] = row[cur[p]].next

\* The slot s of w is past, and w will not come back to it.
Behind(w, s) == s <= now /\ (HasRow(w) => s < row[w].next)

ClaimedInv ==
    \A t \in Timers : pc[t] = "enqueueing" /\ cur[t] \notin disturbed => Behind(cur[t], slot[t])

FiredInv ==
    \A w \in Workflows \ disturbed, s \in Nat : <<w, s>> \in fired => Behind(w, s)

SlotInv ==
    /\ \A p \in Processes : ReadInv(p)
    /\ ClaimedInv
    /\ FiredInv
    /\ SlotRunsOnce

\* The rows of a step that nobody calls disturbed: as they were, gone, past the
\* present, or not earlier than they were.
RowsAhead ==
    /\ disturbed \subseteq disturbed'
    /\ now <= now'
    /\ \A w \in Workflows \ disturbed' :
          \/ row'[w] = row[w]
          \/ row'[w] = NoRow
          \/ row'[w].next > now'
          \/ HasRow(w) /\ row'[w].next >= row[w].next

LEMMA NextType ==
    ASSUME NEW r \in Row PROVE r.next \in Nat
BY DEF Row, NoRow

\* ... and so a slot that is past remains so.
LEMMA BehindStays ==
    ASSUME TypeInv, TypeInv', RowsAhead, NEW w \in Workflows \ disturbed', NEW s \in Nat,
           Behind(w, s)
    PROVE  Behind(w, s)'
<1>1. /\ row[w].next \in Nat /\ row'[w].next \in Nat /\ now \in Nat /\ now' \in Nat
      /\ now <= now'
    BY NextType, ScheduleAssumption DEF TypeInv, ScheduleTypeOK, RowsAhead
<1>2. s <= now /\ (HasRow(w) => s < row[w].next)
    BY DEF Behind
<1>3. CASE row'[w] = NoRow
    BY <1>1, <1>2, <1>3 DEF Behind, HasRow
<1>4. CASE row'[w] = row[w]
    BY <1>1, <1>2, <1>4 DEF Behind, HasRow
<1>5. CASE row'[w].next > now' \/ (HasRow(w) /\ row'[w].next >= row[w].next)
    BY <1>1, <1>2, <1>5 DEF Behind, HasRow
<1> QED BY <1>3, <1>4, <1>5 DEF RowsAhead

\* A step after which no timer has a slot it had not before, and none is fired.
LEMMA NoneTaken ==
    ASSUME TypeInv, TypeInv', SlotInv, RowsAhead, fired' = fired,
           \A t \in Timers : pc'[t] = "enqueueing" =>
              pc[t] = "enqueueing" /\ cur'[t] = cur[t] /\ slot'[t] = slot[t]
    PROVE  ClaimedInv' /\ FiredInv' /\ SlotRunsOnce'
<1>1. ClaimedInv'
    <2> SUFFICES ASSUME NEW t \in Timers, pc'[t] = "enqueueing", cur'[t] \notin disturbed'
                 PROVE  slot'[t] <= now' /\ (row'[cur'[t]] # NoRow => slot'[t] < row'[cur'[t]].next)
        BY DEF ClaimedInv, Behind, HasRow
    <2>1. /\ pc[t] = "enqueueing" /\ cur'[t] = cur[t] /\ slot'[t] = slot[t]
          /\ cur[t] \in Workflows \ disturbed' /\ slot[t] \in Nat
        BY DEF TypeInv, ScheduleTypeOK, HoldingInv, Holding, Processes
    <2>2. PICK v \in Workflows \ disturbed', n \in Nat :
             v = cur[t] /\ n = slot[t] /\ Behind(v, n)
        BY <2>1 DEF SlotInv, ClaimedInv, RowsAhead
    <2>3. Behind(v, n)'
        BY <2>2, BehindStays
    <2> QED BY <2>1, <2>2, <2>3 DEF Behind, HasRow
<1>2. FiredInv'
    BY BehindStays DEF SlotInv, FiredInv, RowsAhead
<1>3. SlotRunsOnce'
    BY DEF SlotInv, SlotRunsOnce, RowsAhead
<1> QED BY <1>1, <1>2, <1>3

KeepsRow(w) == w \in Workflows => row'[w] = row[w]

\* Only p moves, and who has still a fresh copy has one of an untouched row.
OthersRead(p) ==
    /\ now' = now
    /\ \A q \in Processes \ {p} :
          /\ pc'[q] = pc[q] /\ cur'[q] = cur[q] /\ copy'[q] = copy[q]
          /\ slot'[q] = slot[q] /\ at'[q] = at[q]
          /\ fresh'[q] => fresh[q] /\ KeepsRow(cur[q])

LEMMA ReadStays ==
    ASSUME TypeInv, NEW p \in Processes, \A q \in Processes : ReadInv(q),
           OthersRead(p), ReadInv(p)'
    PROVE  \A q \in Processes : ReadInv(q)'
<1>1. \A q \in Processes : pc[q] \in {"renaming", "claiming"} => cur[q] \in Workflows
    BY DEF TypeInv, HoldingInv, Holding
<1> QED BY <1>1 DEF ReadInv, OthersRead, KeepsRow, HasRow

LEMMA NotBehindNext ==
    ASSUME TypeInv, NEW w \in Workflows, HasRow(w)
    PROVE  ~Behind(w, row[w].next)
BY NextType DEF TypeInv, ScheduleTypeOK, Behind

-----------------------------------------------------------------------------
(* The steps.                                                                *)

LEMMA TimerReadsSlot ==
    ASSUME TypeInv, TypeInv', SlotInv, NEW t \in Timers, NEW w \in Workflows, TimerReads(t, w)
    PROVE  SlotInv'
<1>1. PICK step \in Steps, held \in Row, s \in Nat, v \in Workflows \cup {NoWorkflow} :
         /\ Await(t, step, v, held, s)
         /\ \/ step = "next"
            \/ step = "deleting"
            \/ /\ step \in {"initializing", "renaming", "claiming"}
               /\ v = w
               /\ step = "initializing" => held.next > at[t]
               /\ step = "renaming" =>
                     HasRow(w) /\ (held.next = row[w].next \/ held.next > at[t])
               /\ step = "claiming" =>
                     HasRow(w) /\ s = row[w].next /\ s <= at[t] /\ held.next > at[t]
    BY ExamineHolds DEF TimerReads
<1>2. t \in Processes
    BY DEF Processes
<1>3. /\ pc'[t] = step /\ cur'[t] = v /\ copy'[t] = held /\ slot'[t] = s
      /\ at' = at /\ now' = now /\ row' = row /\ fired' = fired /\ disturbed' = disturbed
      /\ \A q \in Processes \ {t} :
            /\ pc'[q] = pc[q] /\ cur'[q] = cur[q] /\ copy'[q] = copy[q] /\ slot'[q] = slot[q]
            /\ fresh'[q] = fresh[q]
    BY <1>1, <1>2 DEF TimerReads, Await, TypeInv, ScheduleTypeOK, histVars
<1>4. ReadInv(t)'
    BY <1>1, <1>2, <1>3 DEF ReadInv, SlotInv, HasRow
<1>5. OthersRead(t)
    BY <1>3 DEF OthersRead, KeepsRow
<1>6. RowsAhead
    BY <1>3, ScheduleAssumption DEF RowsAhead, TypeInv, ScheduleTypeOK
<1>7. ClaimedInv' /\ FiredInv' /\ SlotRunsOnce'
    BY <1>1, <1>3, <1>6, NoneTaken DEF Processes
<1> QED BY <1>2, <1>4, <1>5, <1>7, ReadStays DEF SlotInv

LEMMA RunnerReadsSlot ==
    ASSUME TypeInv, TypeInv', SlotInv, NEW m \in Runners, NEW w \in Workflows, RunnerReads(m, w)
    PROVE  SlotInv'
<1>1. /\ m \in Processes /\ m \notin Timers /\ row[w] \in Row /\ at[m] \in 0..MaxTime
      /\ pc[m] = "next"
    BY ScheduleAssumption DEF Processes, TypeInv, ScheduleTypeOK, RunnerReads
<1>2. /\ at' = at /\ now' = now /\ row' = row /\ fired' = fired /\ disturbed' = disturbed
      /\ \A q \in Processes \ {m} :
            /\ pc'[q] = pc[q] /\ cur'[q] = cur[q] /\ copy'[q] = copy[q] /\ slot'[q] = slot[q]
            /\ fresh'[q] = fresh[q]
    BY <1>1 DEF RunnerReads, Await, TypeInv, ScheduleTypeOK, histVars
<1>3. \/ pc'[m] = "next"
      \/ pc'[m] = "enqueueing" /\ copy'[m].next > at[m]
    <2>1. CASE UNCHANGED <<pc, cur, copy, slot>>
        BY <1>1, <2>1
    <2>2. CASE /\ plan[m][w].cron \in Crons /\ HasRow(w)
               /\ Await(m, "enqueueing", w, Rescheduled(m, row[w], plan[m][w].cron), row[w].next)
        <3>1. Rescheduled(m, row[w], plan[m][w].cron).next > at[m]
            BY <1>1, <2>2, RowIsProper, NextRunType, RescheduledRow DEF Rescheduled, HasRow
        <3> QED BY <1>1, <2>2, <3>1 DEF Await, TypeInv, ScheduleTypeOK
    <2> QED BY <2>1, <2>2 DEF RunnerReads
<1>4. ReadInv(m)'
    BY <1>1, <1>2, <1>3 DEF ReadInv, SlotInv
<1>5. OthersRead(m)
    BY <1>2 DEF OthersRead, KeepsRow
<1>6. RowsAhead
    BY <1>2, ScheduleAssumption DEF RowsAhead, TypeInv, ScheduleTypeOK
<1>7. ClaimedInv' /\ FiredInv' /\ SlotRunsOnce'
    BY <1>1, <1>2, <1>6, NoneTaken DEF Processes
<1> QED BY <1>1, <1>4, <1>5, <1>7, ReadStays DEF SlotInv

LEMMA TriggerReadsSlot ==
    ASSUME TypeInv, TypeInv', SlotInv, NEW g \in Processes, TriggerReads(g)
    PROVE  SlotInv'
<1>1. /\ cur[g] \in Workflows /\ row[cur[g]] \in Row
      /\ plan[g][cur[g]].cron \in Crons /\ now \in 0..MaxTime
    BY DEF TypeInv, ScheduleTypeOK, HoldingInv, Holding, TriggerReads
<1>2. /\ at'[g] = now /\ now' = now /\ row' = row /\ fired' = fired /\ disturbed' = disturbed
      /\ \A q \in Processes \ {g} :
            /\ pc'[q] = pc[q] /\ cur'[q] = cur[q] /\ copy'[q] = copy[q] /\ slot'[q] = slot[q]
            /\ fresh'[q] = fresh[q] /\ at'[q] = at[q]
    BY DEF TriggerReads, Advance, Await, TypeInv, ScheduleTypeOK, histVars
<1>3. \/ pc'[g] = "next"
      \/ pc'[g] = "recording" /\ copy'[g].next > now
    <2> DEFINE held == [row[cur[g]] EXCEPT !.next = NextRun[plan[g][cur[g]].cron][now]]
    <2>1. CASE Advance(g)
        BY <2>1 DEF Advance, Await, TypeInv, ScheduleTypeOK
    <2>2. CASE HasRow(cur[g]) /\ Await(g, "recording", cur[g], Recorded(held), 0)
        <3>1. Recorded(held).next > now
            <4>1. /\ row[cur[g]] \in ProperRow /\ NextRun[plan[g][cur[g]].cron][now] \in Nat
                  /\ NextRun[plan[g][cur[g]].cron][now] > now
                BY <1>1, <2>2, RowIsProper, NextRunType DEF HasRow
            <4>2. held \in ProperRow /\ held.next = NextRun[plan[g][cur[g]].cron][now]
                BY <4>1, RescheduledRow
            <4>3. Recorded(held).next = held.next
                BY <4>2, RecordedRow
            <4> QED BY <4>1, <4>2, <4>3
        <3> HIDE DEF held
        <3> QED BY <2>2, <3>1 DEF Await, TypeInv, ScheduleTypeOK
    <2> QED BY <2>1, <2>2 DEF TriggerReads
<1>4. ReadInv(g)'
    BY <1>1, <1>2, <1>3, ScheduleAssumption DEF ReadInv
<1>5. OthersRead(g)
    BY <1>2 DEF OthersRead, KeepsRow
<1>6. RowsAhead
    BY <1>1, <1>2, ScheduleAssumption DEF RowsAhead
<1>7. ClaimedInv' /\ FiredInv' /\ SlotRunsOnce'
    BY <1>2, <1>3, <1>6, NoneTaken DEF Processes
<1> QED BY <1>4, <1>5, <1>7, ReadStays DEF SlotInv

\* The rows after an upsert: in time and of a fresh copy, it puts in a slot that
\* is still to come, or the one that was there.
LEMMA UpsertAhead ==
    ASSUME TypeInv, SlotInv, NEW p \in Processes, Upsert(p), now' = now,
           pc[p] \in {"initializing", "renaming", "recording"}
    PROVE  /\ RowsAhead /\ ~fresh'[p]
           /\ \A q \in Processes \ {p} : fresh'[q] => fresh[q] /\ KeepsRow(cur[q])
<1>1. /\ cur[p] \in Workflows /\ at[p] \in 0..MaxTime /\ now \in 0..MaxTime
      /\ copy[p].next \in Nat /\ row[cur[p]].next \in Nat
    BY NextType DEF TypeInv, ScheduleTypeOK, HoldingInv, Holding
<1>2. /\ row' = [row EXCEPT ![cur[p]] = copy[p]] /\ row \in [Workflows -> Row]
      /\ disturbed \subseteq disturbed'
      /\ cur[p] \notin disturbed' => at[p] = now /\ fresh[p]
    BY <1>1 DEF Upsert, Write, Disturb, Late, TypeInv, ScheduleTypeOK
<1>3. cur[p] \notin disturbed' =>
         \/ copy[p].next > now
         \/ HasRow(cur[p]) /\ copy[p].next >= row[cur[p]].next
    BY <1>1, <1>2 DEF SlotInv, ReadInv
<1>4. RowsAhead
    BY <1>1, <1>2, <1>3, ScheduleAssumption DEF RowsAhead
<1>5. \A q \in Processes \ {p} : fresh'[q] => fresh[q] /\ KeepsRow(cur[q])
    BY <1>1, <1>2 DEF Upsert, Write, KeepsRow
<1>6. ~fresh'[p]
    BY DEF Upsert, Write
<1> QED BY <1>4, <1>5, <1>6

\* The work on a workflow ends; its row was upserted, deleted or left.
LEMMA WorkDoneSlot ==
    ASSUME TypeInv, TypeInv', SlotInv, NEW p \in Processes,
           DeleteInvalid(p) \/ Initialize(p) \/ ClaimRefused(p) \/ Record(p)
    PROVE  SlotInv'
<1>1. /\ pc'[p] = "next" /\ at' = at /\ now' = now /\ fired' = fired
      /\ \A q \in Processes \ {p} :
            pc'[q] = pc[q] /\ cur'[q] = cur[q] /\ copy'[q] = copy[q] /\ slot'[q] = slot[q]
    BY DEF DeleteInvalid, Initialize, ClaimRefused, Record, Advance, Await,
           TypeInv, ScheduleTypeOK, histVars
<1>2. /\ RowsAhead
      /\ \A q \in Processes \ {p} : fresh'[q] => fresh[q] /\ KeepsRow(cur[q])
    <2>1. CASE Initialize(p) \/ Record(p)
        BY <1>1, <2>1, UpsertAhead DEF Initialize, Record
    <2>2. CASE DeleteInvalid(p)
        <3>1. /\ row' = [row EXCEPT ![cur[p]] = NoRow] /\ disturbed' = disturbed
              /\ \A q \in Processes \ {p} : fresh'[q] => fresh[q] /\ cur[q] # cur[p]
            BY <2>2 DEF DeleteInvalid, histVars
        <3> QED BY <1>1, <3>1, ScheduleAssumption DEF RowsAhead, KeepsRow, TypeInv, ScheduleTypeOK
    <2>3. CASE ClaimRefused(p)
        BY <1>1, <2>3, ScheduleAssumption
           DEF ClaimRefused, RowsAhead, KeepsRow, TypeInv, ScheduleTypeOK, histVars
    <2> QED BY <2>1, <2>2, <2>3
<1>3. ReadInv(p)'
    BY <1>1 DEF ReadInv, SlotInv
<1>4. OthersRead(p)
    BY <1>1, <1>2 DEF OthersRead
<1>5. ClaimedInv' /\ FiredInv' /\ SlotRunsOnce'
    BY <1>1, <1>2, NoneTaken DEF Processes
<1> QED BY <1>3, <1>4, <1>5, ReadStays DEF SlotInv

LEMMA RenameSlot ==
    ASSUME TypeInv, TypeInv', SlotInv, NEW p \in Processes, Rename(p)
    PROVE  SlotInv'
<1>1. copy[p] \in ProperRow /\ at[p] \in 0..MaxTime /\ copy[p].next \in Nat
    BY DEF Rename, TypeInv, ScheduleTypeOK, HoldingInv, Writing, ProperRow
<1>2. /\ at' = at /\ now' = now /\ fired' = fired
      /\ \A q \in Processes \ {p} :
            pc'[q] = pc[q] /\ cur'[q] = cur[q] /\ copy'[q] = copy[q] /\ slot'[q] = slot[q]
    BY DEF Rename, Advance, Await, TypeInv, ScheduleTypeOK
<1>3. /\ RowsAhead /\ ~fresh'[p]
      /\ \A q \in Processes \ {p} : fresh'[q] => fresh[q] /\ KeepsRow(cur[q])
    BY <1>2, UpsertAhead DEF Rename
<1>4. \/ pc'[p] = "next"
      \/ pc'[p] = "claiming" /\ slot'[p] <= at[p] /\ copy'[p].next > at[p]
    <2>1. CASE Advance(p)
        BY <2>1 DEF Advance, Await, TypeInv, ScheduleTypeOK
    <2>2. CASE /\ copy[p].next <= at[p]
               /\ Await(p, "claiming", cur[p], Rescheduled(p, copy[p], copy[p].cron), copy[p].next)
        <3>1. Rescheduled(p, copy[p], copy[p].cron).next > at[p]
            <4>1. copy[p].cron \in Crons
                BY <1>1 DEF ProperRow
            <4> QED BY <1>1, <4>1, NextRunType, RescheduledRow DEF Rescheduled
        <3> QED BY <2>2, <3>1 DEF Await, TypeInv, ScheduleTypeOK
    <2> QED BY <2>1, <2>2 DEF Rename
<1>5. ReadInv(p)'
    BY <1>2, <1>3, <1>4 DEF ReadInv, SlotInv
<1>6. OthersRead(p)
    BY <1>2, <1>3 DEF OthersRead
<1>7. ClaimedInv' /\ FiredInv' /\ SlotRunsOnce'
    BY <1>2, <1>3, <1>4, NoneTaken DEF Processes
<1> QED BY <1>5, <1>6, <1>7, ReadStays DEF SlotInv

\* The slot t claims is the row's next one, which lies after every slot taken.
LEMMA ClaimSlot ==
    ASSUME TypeInv, TypeInv', SlotInv, NEW t \in Timers, Claim(t)
    PROVE  SlotInv'
<1> DEFINE w == cur[t]
<1>1. /\ t \in Processes /\ w \in Workflows /\ at[t] \in 0..MaxTime /\ now \in 0..MaxTime
      /\ copy[t].next \in Nat /\ row[w].next \in Nat /\ slot[t] \in Nat
    BY NextType DEF Claim, TypeInv, ScheduleTypeOK, HoldingInv, Holding, Processes
<1>2. /\ HasRow(w) /\ slot[t] = row[w].next /\ slot[t] <= at[t] /\ at[t] <= now
      /\ copy[t].next > at[t]
    BY <1>1 DEF Claim, SlotInv, ReadInv
<1>3. /\ at' = at /\ now' = now /\ fired' = fired
      /\ row' = [row EXCEPT ![w] = copy[t]] /\ row \in [Workflows -> Row]
      /\ disturbed \subseteq disturbed'
      /\ pc'[t] = "enqueueing" /\ cur'[t] = w /\ slot'[t] = slot[t] /\ copy'[t] = copy[t]
      /\ \A q \in Processes \ {t} :
            /\ pc'[q] = pc[q] /\ cur'[q] = cur[q] /\ copy'[q] = copy[q] /\ slot'[q] = slot[q]
            /\ fresh'[q] => fresh[q] /\ cur[q] # w
    <2>1. /\ at' = at /\ now' = now /\ fired' = fired
          /\ row' = [row EXCEPT ![w] = copy[t]] /\ row \in [Workflows -> Row]
          /\ disturbed \subseteq disturbed'
        BY DEF Claim, Await, Write, Disturb, TypeInv, ScheduleTypeOK
    <2>2. /\ pc'[t] = "enqueueing" /\ cur'[t] = w /\ slot'[t] = slot[t] /\ copy'[t] = copy[t]
          /\ \A q \in Processes \ {t} :
                pc'[q] = pc[q] /\ cur'[q] = cur[q] /\ copy'[q] = copy[q] /\ slot'[q] = slot[q]
        BY <1>1 DEF Claim, Await, TypeInv, ScheduleTypeOK
    <2>3. \A q \in Processes \ {t} : fresh'[q] => fresh[q] /\ cur[q] # w
        BY <1>1 DEF Claim, Write, TypeInv, ScheduleTypeOK
    <2> QED BY ONLY <2>1, <2>2, <2>3
<1>4. RowsAhead
    BY <1>1, <1>2, <1>3, ScheduleAssumption DEF RowsAhead
<1>5. ReadInv(t)'
    BY <1>2, <1>3 DEF ReadInv
<1>6. OthersRead(t)
    BY <1>1, <1>3 DEF OthersRead, KeepsRow
<1>7. ~Behind(w, slot[t])
    BY <1>1, <1>2, NotBehindNext
<1>8. FiredInv'
    BY <1>3, <1>4, BehindStays DEF SlotInv, FiredInv, RowsAhead
<1>9. ClaimedInv'
    <2> SUFFICES ASSUME NEW u \in Timers, pc'[u] = "enqueueing", cur'[u] \notin disturbed'
                 PROVE  slot'[u] <= now' /\ (row'[cur'[u]] # NoRow => slot'[u] < row'[cur'[u]].next)
        BY DEF ClaimedInv, Behind, HasRow
    <2>1. CASE u = t
        BY <1>1, <1>2, <1>3, <2>1, ScheduleAssumption
    <2>2. CASE u # t
        <3>1. u \in Processes \ {t}
            BY <2>2 DEF Processes
        <3>2. /\ pc[u] = "enqueueing" /\ cur'[u] = cur[u] /\ slot'[u] = slot[u]
              /\ cur[u] \in Workflows \ disturbed' /\ slot[u] \in Nat
            BY <1>3, <3>1 DEF TypeInv, ScheduleTypeOK, HoldingInv, Holding
        <3>3. PICK v \in Workflows \ disturbed', n \in Nat :
                 v = cur[u] /\ n = slot[u] /\ Behind(v, n)
            BY <1>3, <3>2 DEF SlotInv, ClaimedInv
        <3>4. Behind(v, n)'
            BY <1>4, <3>3, BehindStays
        <3> QED BY <3>2, <3>3, <3>4 DEF Behind, HasRow
    <2> QED BY <2>1, <2>2
<1>10. w \notin disturbed' =>
          /\ <<w, slot[t]>> \notin fired
          /\ \A u \in Timers \ {t} : pc[u] = "enqueueing" /\ cur[u] = w => slot[u] # slot[t]
    BY <1>1, <1>3, <1>7 DEF SlotInv, FiredInv, ClaimedInv
<1>11. SlotRunsOnce'
    <2> SUFFICES ASSUME NEW u \in Timers, pc'[u] = "enqueueing", cur'[u] \notin disturbed'
                 PROVE  /\ <<cur'[u], slot'[u]>> \notin fired'
                        /\ \A x \in Timers \ {u} :
                              pc'[x] = "enqueueing" /\ cur'[x] = cur'[u] => slot'[x] # slot'[u]
        BY DEF SlotRunsOnce
    <2>1. Timers \subseteq Processes
        BY DEF Processes
    <2>2. CASE u = t
        BY <1>3, <1>10, <2>1, <2>2
    <2>3. CASE u # t
        <3>1. /\ pc[u] = "enqueueing" /\ cur[u] \notin disturbed
              /\ cur'[u] = cur[u] /\ slot'[u] = slot[u]
            BY <1>3, <2>1, <2>3
        <3>2. /\ <<cur[u], slot[u]>> \notin fired
              /\ \A x \in Timers \ {u} :
                    pc[x] = "enqueueing" /\ cur[x] = cur[u] => slot[x] # slot[u]
            BY <3>1 DEF SlotInv, SlotRunsOnce
        <3>3. cur[u] = w => slot[u] # slot[t]
            BY <1>10, <2>3, <3>1
        <3> QED BY <1>3, <2>1, <3>1, <3>2, <3>3
    <2> QED BY <2>2, <2>3
<1> QED BY <1>1, <1>5, <1>6, <1>8, <1>9, <1>11, ReadStays DEF SlotInv

\* A timer's slot becomes one that was fired; no other timer has it.
LEMMA EnqueueSlot ==
    ASSUME TypeInv, TypeInv', SlotInv, NEW p \in Processes, Enqueue(p)
    PROVE  SlotInv'
<1>1. cur[p] \in Workflows /\ copy[p] \in ProperRow /\ slot[p] \in Nat
    BY DEF Enqueue, TypeInv, ScheduleTypeOK, HoldingInv, Holding, Writing
<1>2. /\ at' = at /\ now' = now /\ row' = row /\ disturbed' = disturbed /\ fresh' = fresh
      /\ pc'[p] = "recording" /\ copy'[p] = Recorded(copy[p]) /\ pc[p] = "enqueueing"
      /\ fired' = IF p \in Timers THEN fired \cup {<<cur[p], slot[p]>>} ELSE fired
      /\ \A q \in Processes \ {p} :
            pc'[q] = pc[q] /\ cur'[q] = cur[q] /\ copy'[q] = copy[q] /\ slot'[q] = slot[q]
    BY DEF Enqueue, Await, TypeInv, ScheduleTypeOK
<1>3. ReadInv(p)'
    BY <1>1, <1>2, RecordedRow DEF SlotInv, ReadInv
<1>4. OthersRead(p)
    BY <1>2 DEF OthersRead, KeepsRow
<1>5. \A u \in Timers : pc'[u] = "enqueueing" =>
         pc[u] = "enqueueing" /\ cur'[u] = cur[u] /\ slot'[u] = slot[u] /\ u # p
    BY <1>2 DEF Processes
<1>6. ClaimedInv'
    BY <1>2, <1>5 DEF SlotInv, ClaimedInv, Behind, HasRow
<1>7. FiredInv'
    BY <1>1, <1>2 DEF SlotInv, FiredInv, ClaimedInv, Behind, HasRow
<1>8. SlotRunsOnce'
    <2> SUFFICES ASSUME NEW u \in Timers, pc'[u] = "enqueueing", cur'[u] \notin disturbed'
                 PROVE  /\ <<cur'[u], slot'[u]>> \notin fired'
                        /\ \A x \in Timers \ {u} :
                              pc'[x] = "enqueueing" /\ cur'[x] = cur'[u] => slot'[x] # slot'[u]
        BY DEF SlotRunsOnce
    <2>1. /\ <<cur[u], slot[u]>> \notin fired
          /\ \A x \in Timers \ {u} :
                pc[x] = "enqueueing" /\ cur[x] = cur[u] => slot[x] # slot[u]
        BY <1>2, <1>5 DEF SlotInv, SlotRunsOnce
    <2>2. \A x \in Timers \ {u} :
             pc'[x] = "enqueueing" /\ cur'[x] = cur'[u] => slot'[x] # slot'[u]
        BY <1>5, <2>1
    <2>3. p \in Timers => <<cur[u], slot[u]>> # <<cur[p], slot[p]>>
        BY <1>2, <1>5, <2>1
    <2> QED BY <1>2, <1>5, <2>1, <2>2, <2>3
<1> QED BY <1>3, <1>4, <1>6, <1>7, <1>8, ReadStays DEF SlotInv

\* Steps that touch neither rows nor slots.
LEMMA OtherStepsSlot ==
    ASSUME TypeInv, TypeInv', SlotInv, NEW p \in Processes,
           \/ BeginScan(p) \/ EndScan(p) \/ RequestFails(p) \/ Crash(p)
           \/ \E w \in Workflows : TriggerEnqueues(p, w)
    PROVE  SlotInv'
<1>1. /\ now' = now /\ row' = row /\ fired' = fired /\ disturbed' = disturbed
      /\ pc'[p] \in {"next", "idle", "stopped", "reading"}
      /\ \A q \in Processes \ {p} :
            /\ pc'[q] = pc[q] /\ cur'[q] = cur[q] /\ copy'[q] = copy[q] /\ slot'[q] = slot[q]
            /\ at'[q] = at[q] /\ fresh'[q] = fresh[q]
    BY DEF BeginScan, EndScan, RequestFails, Crash, TriggerEnqueues, End, Advance, Await,
           TypeInv, ScheduleTypeOK, histVars
<1>2. at'[p] <= now'
    <2>1. at'[p] \in {at[p], now, 0}
        BY DEF BeginScan, EndScan, RequestFails, Crash, TriggerEnqueues, End, Advance, Await,
               TypeInv, ScheduleTypeOK
    <2>2. now \in Nat /\ at[p] <= now
        BY ScheduleAssumption DEF TypeInv, ScheduleTypeOK, SlotInv, ReadInv
    <2> QED BY <1>1, <2>1, <2>2
<1>3. ReadInv(p)' /\ OthersRead(p)
    BY <1>1, <1>2 DEF ReadInv, OthersRead, KeepsRow
<1>4. RowsAhead
    BY <1>1, ScheduleAssumption DEF RowsAhead, TypeInv, ScheduleTypeOK
<1>5. ClaimedInv' /\ FiredInv' /\ SlotRunsOnce'
    BY <1>1, <1>4, NoneTaken DEF Processes
<1> QED BY <1>3, <1>5, ReadStays DEF SlotInv

LEMMA WorldSlot ==
    ASSUME TypeInv, TypeInv', SlotInv,
           Tick \/ (\E w \in Workflows : Edit(w)) \/ UNCHANGED scheduleVars
    PROVE  SlotInv'
<1>1. /\ now <= now' /\ now \in Nat /\ now' \in Nat
      /\ UNCHANGED <<row, pc, at, cur, copy, slot, fresh, fired, disturbed>>
    BY ScheduleAssumption
       DEF Tick, Edit, scheduleVars, localVars, histVars, TypeInv, ScheduleTypeOK
<1>2. \A p \in Processes : at[p] \in Nat
    BY ScheduleAssumption DEF TypeInv, ScheduleTypeOK
<1>3. \A p \in Processes : ReadInv(p)'
    BY <1>1, <1>2 DEF SlotInv, ReadInv, HasRow
<1>4. RowsAhead
    BY <1>1 DEF RowsAhead
<1>5. ClaimedInv' /\ FiredInv' /\ SlotRunsOnce'
    BY <1>1, <1>4, NoneTaken
<1> QED BY <1>3, <1>5 DEF SlotInv

LEMMA SlotInit == ScheduleInit => SlotInv
<1> SUFFICES ASSUME ScheduleInit PROVE SlotInv
    OBVIOUS
<1>1. \A p \in Processes : at[p] = 0 /\ now = 0 /\ pc[p] \in {"idle", "stopped"} /\ ~fresh[p]
    BY DEF ScheduleInit
<1>2. \A p \in Processes : ReadInv(p)
    BY <1>1 DEF ReadInv
<1>3. ClaimedInv /\ FiredInv /\ SlotRunsOnce
    BY <1>1 DEF ScheduleInit, ClaimedInv, FiredInv, SlotRunsOnce, Processes
<1> QED BY <1>2, <1>3 DEF SlotInv

LEMMA SlotStep == TypeInv /\ TypeInv' /\ SlotInv /\ [ScheduleNext]_scheduleVars => SlotInv'
<1> SUFFICES ASSUME TypeInv, TypeInv', SlotInv, [ScheduleNext]_scheduleVars PROVE SlotInv'
    OBVIOUS
<1> USE DEF Processes
<1>1. ASSUME NEW t \in Timers, BeginScan(t) \/ TimerStep(t) PROVE SlotInv'
    BY <1>1, TimerReadsSlot, WorkDoneSlot, RenameSlot, ClaimSlot, EnqueueSlot, OtherStepsSlot
       DEF TimerStep
<1>2. ASSUME NEW m \in Runners \cup Triggers, BeginScan(m) \/ RequestStep(m) PROVE SlotInv'
    BY <1>2, RunnerReadsSlot, TriggerReadsSlot, EnqueueSlot, WorkDoneSlot, OtherStepsSlot
       DEF RequestStep, RunnerReads
<1>3. ASSUME NEW g \in Triggers, \E w \in Workflows : TriggerEnqueues(g, w) PROVE SlotInv'
    BY <1>3, OtherStepsSlot
<1>4. ASSUME NEW p \in Processes, RequestFails(p) \/ Crash(p) PROVE SlotInv'
    BY <1>4, OtherStepsSlot
<1> QED BY <1>1, <1>2, <1>3, <1>4, WorldSlot DEF ScheduleNext

\* However many timer runs overlap, and whatever fails, dies or is edited: a slot
\* that one of them is about to enqueue has not been run, and no other is about to
\* run it, unless the row was written over a newer one or with an old clock.
THEOREM SlotRunsOnceAlways == ScheduleSpec => []SlotRunsOnce
<1>1. ScheduleSpec => []TypeInv
    BY TypeInit, TypeStep, PTL DEF ScheduleSpec
<1>2. ScheduleSpec => []SlotInv
    BY <1>1, SlotInit, SlotStep, PTL DEF ScheduleSpec
<1>3. SlotInv => SlotRunsOnce
    BY DEF SlotInv
<1> QED BY <1>2, <1>3, PTL

-----------------------------------------------------------------------------
(* ExecutionCount.  What is counted is not inductive: an execution that was   *)
(* enqueued and is not yet recorded will still add one, whichever copy of the *)
(* row it is added to.  So every count, in a row or in a copy, stays below    *)
(* the number enqueued by as much as other processes have yet to record.      *)

\* The processes that enqueued w and have not recorded it.
Pending(w) == {p \in Processes : cur[p] = w /\ pc[p] \in {"reading", "recording"}}

RowsCount(w) == row[w].count + Cardinality(Pending(w)) <= enqueued[w]

CopyCounts(p) ==
    \A w \in Workflows : pc[p] \in Writing /\ cur[p] = w =>
        copy[p].count + Cardinality(Pending(w) \ {p}) <= enqueued[w]

CountInv ==
    /\ \A w \in Workflows : RowsCount(w)
    /\ \A p \in Processes : CopyCounts(p)

-----------------------------------------------------------------------------
(* Counting the pending.                                                     *)

LEMMA PendingFinite ==
    ASSUME NEW w
    PROVE  /\ Pending(w) \subseteq Processes /\ IsFiniteSet(Pending(w))
           /\ Cardinality(Pending(w)) \in Nat
BY ScheduleAssumption, FS_Subset, FS_CardinalityType DEF Pending

LEMMA WithoutOne ==
    ASSUME NEW S, IsFiniteSet(S), NEW p
    PROVE  /\ Cardinality(S \ {p}) \in Nat /\ Cardinality(S) \in Nat
           /\ p \in S => Cardinality(S) = Cardinality(S \ {p}) + 1
           /\ p \notin S => Cardinality(S) = Cardinality(S \ {p})
<1>1. IsFiniteSet(S \ {p}) /\ Cardinality(S \ {p}) \in Nat /\ Cardinality(S) \in Nat
    BY FS_RemoveElement, FS_CardinalityType
<1>2. CASE p \in S
    <2>1. Cardinality(S \ {p}) = Cardinality(S) - 1
        BY <1>2, FS_RemoveElement
    <2> QED BY <1>1, <1>2, <2>1
<1>3. CASE p \notin S
    <2>1. S \ {p} = S
        BY <1>3
    <2> QED BY <1>1, <1>3, <2>1
<1> QED BY <1>2, <1>3

\* Only p moves: the pending of w, with or without another process q, change by
\* p's coming or going.
OnlyMoves(p) ==
    \A q \in Processes \ {p} : pc'[q] = pc[q] /\ cur'[q] = cur[q] /\ copy'[q] = copy[q]

LEMMA PendingStep ==
    ASSUME NEW p \in Processes, OnlyMoves(p), NEW w
    PROVE  /\ Cardinality(Pending(w)' \ {p}) = Cardinality(Pending(w) \ {p})
           /\ Cardinality(Pending(w)) \in Nat /\ Cardinality(Pending(w)') \in Nat
           /\ Cardinality(Pending(w) \ {p}) \in Nat
           /\ Cardinality(Pending(w)) =
                 Cardinality(Pending(w) \ {p}) + (IF p \in Pending(w) THEN 1 ELSE 0)
           /\ Cardinality(Pending(w)') =
                 Cardinality(Pending(w) \ {p}) + (IF p \in Pending(w)' THEN 1 ELSE 0)
<1>1. IsFiniteSet(Pending(w)) /\ IsFiniteSet(Pending(w)')
    <2>1. Pending(w)' \subseteq Processes
        BY DEF Pending
    <2> QED BY <2>1, PendingFinite, ScheduleAssumption, FS_Subset
<1>2. Pending(w)' \ {p} = Pending(w) \ {p}
    BY DEF Pending, OnlyMoves
<1> QED BY <1>1, <1>2, WithoutOne

LEMMA PendingOthers ==
    ASSUME NEW p \in Processes, OnlyMoves(p), NEW w, NEW q \in Processes \ {p}
    PROVE  /\ Cardinality(Pending(w) \ {q}) \in Nat /\ Cardinality(Pending(w)' \ {q}) \in Nat
           /\ Cardinality(Pending(w)' \ {q}) <= Cardinality(Pending(w) \ {q}) + 1
           /\ (p \in Pending(w)' => p \in Pending(w)) =>
                 Cardinality(Pending(w)' \ {q}) <= Cardinality(Pending(w) \ {q})
<1> DEFINE S == Pending(w) \ {q}
           T == Pending(w)' \ {q}
<1>1. IsFiniteSet(S) /\ IsFiniteSet(T)
    <2>1. T \subseteq Processes /\ S \subseteq Processes
        BY DEF Pending
    <2> QED BY <2>1, ScheduleAssumption, FS_Subset
<1>2. T \ {p} = S \ {p}
    BY DEF Pending, OnlyMoves
<1>3. /\ Cardinality(S \ {p}) \in Nat /\ Cardinality(S) \in Nat
      /\ p \in S => Cardinality(S) = Cardinality(S \ {p}) + 1
      /\ p \notin S => Cardinality(S) = Cardinality(S \ {p})
    BY <1>1, WithoutOne
<1>4. /\ Cardinality(T) \in Nat
      /\ p \in T => Cardinality(T) = Cardinality(T \ {p}) + 1
      /\ p \notin T => Cardinality(T) = Cardinality(T \ {p})
    BY <1>1, WithoutOne
<1>5. p \in S <=> p \in Pending(w)
    OBVIOUS
<1>6. p \in T <=> p \in Pending(w)'
    OBVIOUS
<1>7. PICK n \in Nat : n = Cardinality(S \ {p}) /\ n = Cardinality(T \ {p})
    BY <1>2, <1>3
<1>8. PICK s \in Nat : s = Cardinality(S) /\ s = (IF p \in S THEN n + 1 ELSE n)
    BY <1>3, <1>7
<1>9. PICK t \in Nat : t = Cardinality(T) /\ t = (IF p \in T THEN n + 1 ELSE n)
    BY <1>4, <1>7
<1>10. t <= s + 1 /\ ((p \in T => p \in S) => t <= s)
    BY <1>8, <1>9
<1> QED BY <1>5, <1>6, <1>8, <1>9, <1>10

-----------------------------------------------------------------------------
(* One lemma for each way a step can move counts.                            *)

\* Every count that is not p's is kept below what is enqueued if p comes to the
\* pending of w only with an enqueued execution.
LEMMA OthersCount ==
    ASSUME TypeInv, CountInv, NEW p \in Processes, OnlyMoves(p),
           enqueued' \in [Workflows -> Nat],
           \A w \in Workflows :
              \/ enqueued'[w] = enqueued[w] /\ (p \in Pending(w)' => p \in Pending(w))
              \/ enqueued'[w] = enqueued[w] + 1
    PROVE  \A q \in Processes \ {p} : CopyCounts(q)'
<1> SUFFICES ASSUME NEW q \in Processes \ {p}, NEW w \in Workflows,
                    pc'[q] \in Writing, cur'[q] = w
             PROVE  copy'[q].count + Cardinality(Pending(w)' \ {q}) <= enqueued'[w]
    BY DEF CopyCounts
<1>1. /\ pc[q] \in Writing /\ cur[q] = w /\ copy'[q] = copy[q]
      /\ copy[q].count \in Nat
    BY DEF OnlyMoves, TypeInv, HoldingInv, ProperRow
<1>2. copy[q].count + Cardinality(Pending(w) \ {q}) <= enqueued[w]
    BY <1>1 DEF CountInv, CopyCounts
<1>3. enqueued[w] \in Nat /\ enqueued'[w] \in Nat
    BY DEF TypeInv, ScheduleTypeOK
<1>4. /\ Cardinality(Pending(w) \ {q}) \in Nat /\ Cardinality(Pending(w)' \ {q}) \in Nat
      /\ Cardinality(Pending(w)' \ {q}) <= Cardinality(Pending(w) \ {q}) + 1
      /\ (p \in Pending(w)' => p \in Pending(w)) =>
            Cardinality(Pending(w)' \ {q}) <= Cardinality(Pending(w) \ {q})
    BY PendingOthers
<1> QED BY <1>1, <1>2, <1>3, <1>4

\* The rows: a step leaves w's count, or adds what it has enqueued, or puts in
\* the count of its copy and records nothing more.
RowsMove(p, w) ==
    \/ /\ p \in Pending(w)' => p \in Pending(w)
       /\ enqueued'[w] = enqueued[w] /\ row'[w].count <= row[w].count
    \/ enqueued'[w] = enqueued[w] + 1 /\ row'[w].count <= row[w].count
    \/ /\ p \notin Pending(w)' /\ enqueued'[w] = enqueued[w]
       /\ pc[p] \in Writing /\ cur[p] = w /\ row'[w].count = copy[p].count

LEMMA RowCount == \A r \in Row : r.count \in Nat
BY DEF Row, NoRow

LEMMA CountStep ==
    ASSUME TypeInv, TypeInv', CountInv, NEW p \in Processes, OnlyMoves(p),
           \A w \in Workflows : RowsMove(p, w),
           CopyCounts(p)'
    PROVE  CountInv'
<1>1. \A q \in Processes \ {p} : CopyCounts(q)'
    <2>1. enqueued' \in [Workflows -> Nat]
        BY DEF TypeInv, ScheduleTypeOK
    <2> QED BY <2>1, OthersCount DEF RowsMove
<1>2. ASSUME NEW w \in Workflows PROVE RowsCount(w)'
    <2>1. /\ row[w].count \in Nat /\ row'[w].count \in Nat /\ copy[p].count \in Nat
          /\ enqueued[w] \in Nat /\ enqueued'[w] \in Nat
        BY RowCount DEF TypeInv, ScheduleTypeOK
    <2>2. PICK n \in Nat : n = Cardinality(Pending(w) \ {p})
        BY PendingStep
    <2>3. PICK a \in Nat : a = Cardinality(Pending(w)) /\ a = n + (IF p \in Pending(w) THEN 1 ELSE 0)
        BY <2>2, PendingStep
    <2>4. PICK b \in Nat : b = Cardinality(Pending(w)') /\ b = n + (IF p \in Pending(w)' THEN 1 ELSE 0)
        BY <2>2, PendingStep
    <2>5. row[w].count + a <= enqueued[w]
        BY <2>3 DEF CountInv, RowsCount
    <2>6. pc[p] \in Writing /\ cur[p] = w => copy[p].count + n <= enqueued[w]
        BY <2>2 DEF CountInv, CopyCounts
    <2>7. row'[w].count + b <= enqueued'[w]
        BY <2>1, <2>3, <2>4, <2>5, <2>6 DEF RowsMove
    <2> QED BY <2>4, <2>7 DEF RowsCount
<1> QED BY <1>1, <1>2 DEF CountInv

-----------------------------------------------------------------------------
(* The steps.                                                                *)

\* A step of p that neither enqueues nor writes a row and leaves p without a copy.
LEMMA LeavesCount ==
    ASSUME TypeInv, TypeInv', CountInv, NEW p \in Processes, OnlyMoves(p),
           pc'[p] \notin Writing,
           \A w \in Workflows : p \in Pending(w)' => p \in Pending(w),
           UNCHANGED enqueued,
           \A w \in Workflows : row'[w] = row[w] \/ row'[w] = NoRow
    PROVE  CountInv'
<1>1. \A w \in Workflows : row'[w].count <= row[w].count
    <2>1. NoRow.count = 0 /\ \A w \in Workflows : row[w].count \in Nat
        BY RowCount DEF NoRow, TypeInv, ScheduleTypeOK
    <2> QED BY <2>1
<1>2. \A w \in Workflows : RowsMove(p, w)
    BY <1>1 DEF RowsMove
<1>3. CopyCounts(p)'
    BY DEF CopyCounts
<1> QED BY <1>2, <1>3, CountStep

\* A step of p that takes a copy of the row of v.
LEMMA TakesCount ==
    ASSUME TypeInv, TypeInv', CountInv, NEW p \in Processes, OnlyMoves(p),
           NEW v \in Workflows, cur'[p] = v, copy'[p].count = row[v].count,
           pc[p] \notin {"reading", "recording"}, pc'[p] \notin {"reading", "recording"},
           UNCHANGED <<enqueued, row>>
    PROVE  CountInv'
<1>1. \A w \in Workflows : p \notin Pending(w) /\ p \notin Pending(w)'
    BY DEF Pending
<1>2. \A w \in Workflows : RowsMove(p, w)
    BY <1>1, RowCount DEF RowsMove, TypeInv, ScheduleTypeOK
<1>3. Cardinality(Pending(v)' \ {p}) = Cardinality(Pending(v))
    BY <1>1, PendingStep
<1>4. row[v].count + Cardinality(Pending(v)) <= enqueued[v]
    BY DEF CountInv, RowsCount
<1>5. CopyCounts(p)'
    BY <1>3, <1>4 DEF CopyCounts
<1> QED BY <1>2, <1>5, CountStep

\* A step of p that writes its copy into the row.
LEMMA PutsCount ==
    ASSUME TypeInv, TypeInv', CountInv, NEW p \in Processes, OnlyMoves(p),
           NEW v \in Workflows, cur[p] = v, pc[p] \in Writing,
           row' = [row EXCEPT ![v] = copy[p]],
           pc'[p] \notin {"reading", "recording"},
           pc'[p] \in Writing => cur'[p] = v /\ copy'[p].count = copy[p].count,
           UNCHANGED enqueued
    PROVE  CountInv'
<1>1. \A w \in Workflows : p \notin Pending(w)'
    BY DEF Pending
<1>2. ASSUME NEW w \in Workflows PROVE RowsMove(p, w)
    <2>1. CASE w = v
        BY <1>1, <2>1 DEF RowsMove, TypeInv, ScheduleTypeOK
    <2>2. CASE w # v
        BY <1>1, <2>2, RowCount DEF RowsMove, TypeInv, ScheduleTypeOK
    <2> QED BY <2>1, <2>2
<1>3. Cardinality(Pending(v)' \ {p}) = Cardinality(Pending(v) \ {p})
    BY PendingStep
<1>4. copy[p].count + Cardinality(Pending(v) \ {p}) <= enqueued[v]
    BY DEF CountInv, CopyCounts
<1>5. CopyCounts(p)'
    BY <1>3, <1>4 DEF CopyCounts
<1> QED BY <1>2, <1>5, CountStep

LEMMA AwaitMoves ==
    ASSUME TypeInv, NEW p \in Processes, NEW step, NEW w, NEW held, NEW s,
           Await(p, step, w, held, s)
    PROVE  OnlyMoves(p) /\ pc'[p] = step /\ cur'[p] = w /\ copy'[p] = held /\ slot'[p] = s
BY DEF TypeInv, ScheduleTypeOK, Await, OnlyMoves

LEMMA TimerReadsCount ==
    ASSUME TypeInv, TypeInv', CountInv, NEW t \in Timers, NEW w \in Workflows, TimerReads(t, w)
    PROVE  CountInv'
<1>1. t \in Processes /\ pc[t] = "next" /\ UNCHANGED <<row, enqueued>>
    BY DEF Processes, TimerReads, histVars
<1>2. PICK step \in Steps, held \in Row, s \in Nat, v \in Workflows \cup {NoWorkflow} :
         /\ Await(t, step, v, held, s)
         /\ \/ step \in {"next", "deleting"}
            \/ /\ step \in {"initializing", "renaming", "claiming"}
               /\ v = w /\ held.count = row[w].count
    BY ExamineHolds DEF TimerReads
<1>3. OnlyMoves(t) /\ pc'[t] = step /\ cur'[t] = v /\ copy'[t] = held
    BY <1>1, <1>2, AwaitMoves
<1>4. CASE step \in {"next", "deleting"}
    BY <1>1, <1>3, <1>4, LeavesCount DEF Writing, Pending
<1>5. CASE step \in {"initializing", "renaming", "claiming"} /\ v = w /\ held.count = row[w].count
    BY <1>1, <1>3, <1>5, TakesCount
<1> QED BY <1>2, <1>4, <1>5

LEMMA RunnerReadsCount ==
    ASSUME TypeInv, TypeInv', CountInv, NEW m \in Runners, NEW w \in Workflows, RunnerReads(m, w)
    PROVE  CountInv'
<1>1. m \in Processes /\ pc[m] = "next" /\ UNCHANGED <<row, enqueued>>
    BY DEF Processes, RunnerReads, histVars
<1>2. CASE UNCHANGED <<pc, cur, copy, slot>>
    BY <1>1, <1>2, LeavesCount DEF OnlyMoves, Writing, Pending
<1>3. CASE /\ HasRow(w)
           /\ Await(m, "enqueueing", w, Rescheduled(m, row[w], plan[m][w].cron), row[w].next)
    <2>1. Rescheduled(m, row[w], plan[m][w].cron).count = row[w].count
        BY RowIsProper, <1>3 DEF Rescheduled, ProperRow, HasRow, TypeInv, ScheduleTypeOK
    <2> QED BY <1>1, <1>3, <2>1, AwaitMoves, TakesCount
<1> QED BY <1>2, <1>3 DEF RunnerReads

LEMMA WritesCount ==
    ASSUME TypeInv, TypeInv', CountInv, NEW p \in Processes,
           Initialize(p) \/ Rename(p) \/ Claim(p) \/ Record(p)
    PROVE  CountInv'
<1>1. /\ pc[p] \in Writing /\ cur[p] \in Workflows /\ copy[p] \in ProperRow
      /\ at[p] \in 0..MaxTime
      /\ row' = [row EXCEPT ![cur[p]] = copy[p]] /\ UNCHANGED enqueued
    <2>1. pc[p] \in {"initializing", "renaming", "claiming", "recording"}
        BY DEF Initialize, Rename, Claim, Record
    <2> QED BY <2>1 DEF Initialize, Rename, Claim, Record, Upsert, Write,
                        TypeInv, ScheduleTypeOK, HoldingInv, Holding, Writing
<1>2. CASE Advance(p)
    <2>1. OnlyMoves(p) /\ pc'[p] = "next"
        BY <1>2, AwaitMoves DEF Advance
    <2> QED BY <1>1, <2>1, PutsCount DEF Writing
<1>3. CASE Await(p, "claiming", cur[p], Rescheduled(p, copy[p], copy[p].cron), copy[p].next)
    <2>1. Rescheduled(p, copy[p], copy[p].cron).count = copy[p].count
        BY <1>1 DEF Rescheduled, ProperRow
    <2>2. /\ OnlyMoves(p) /\ pc'[p] = "claiming" /\ cur'[p] = cur[p]
          /\ copy'[p] = Rescheduled(p, copy[p], copy[p].cron)
        BY <1>3, AwaitMoves
    <2> QED BY <1>1, <2>1, <2>2, PutsCount
<1>4. CASE Await(p, "enqueueing", cur[p], copy[p], slot[p])
    <2>1. OnlyMoves(p) /\ pc'[p] = "enqueueing" /\ cur'[p] = cur[p] /\ copy'[p] = copy[p]
        BY <1>4, AwaitMoves
    <2> QED BY <1>1, <2>1, PutsCount
<1> QED BY <1>2, <1>3, <1>4 DEF Initialize, Rename, Claim, Record

LEMMA EnqueueCount ==
    ASSUME TypeInv, TypeInv', CountInv, NEW p \in Processes, Enqueue(p)
    PROVE  CountInv'
<1>1. /\ cur[p] \in Workflows /\ copy[p] \in ProperRow /\ pc[p] = "enqueueing"
      /\ UNCHANGED row /\ enqueued' = [enqueued EXCEPT ![cur[p]] = @ + 1]
    BY DEF Enqueue, TypeInv, ScheduleTypeOK, HoldingInv, Holding, Writing
<1>2. /\ OnlyMoves(p) /\ pc'[p] = "recording" /\ cur'[p] = cur[p]
      /\ copy'[p] = Recorded(copy[p])
    BY AwaitMoves DEF Enqueue
<1>3. ASSUME NEW w \in Workflows PROVE RowsMove(p, w)
    <2>1. row[w].count \in Nat /\ row'[w] = row[w]
        BY <1>1, RowCount DEF TypeInv, ScheduleTypeOK
    <2>2. CASE w = cur[p]
        BY <1>1, <2>1, <2>2 DEF RowsMove, TypeInv, ScheduleTypeOK
    <2>3. CASE w # cur[p]
        BY <1>1, <1>2, <2>1, <2>3 DEF RowsMove, Pending, TypeInv, ScheduleTypeOK
    <2> QED BY <2>2, <2>3
<1>4. CopyCounts(p)'
    <2> SUFFICES ASSUME NEW w \in Workflows, cur[p] = w
                 PROVE  copy'[p].count + Cardinality(Pending(w)' \ {p}) <= enqueued'[w]
        BY <1>2 DEF CopyCounts
    <2>1. PICK n \in Nat : n = Cardinality(Pending(w) \ {p}) /\ n = Cardinality(Pending(w)' \ {p})
        BY <1>2, PendingStep
    <2>2. copy[p].count + n <= enqueued[w]
        BY <1>1, <2>1 DEF CountInv, CopyCounts, Writing
    <2>3. /\ copy'[p].count = copy[p].count + 1 /\ copy[p].count \in Nat
          /\ enqueued'[w] = enqueued[w] + 1 /\ enqueued[w] \in Nat
        BY <1>1, <1>2, RecordedRow DEF ProperRow, TypeInv, ScheduleTypeOK
    <2> QED BY <2>1, <2>2, <2>3
<1> QED BY <1>2, <1>3, <1>4, CountStep

LEMMA TriggerCount ==
    ASSUME TypeInv, TypeInv', CountInv, NEW g \in Processes,
           (\E w \in Workflows : TriggerEnqueues(g, w)) \/ TriggerReads(g)
    PROVE  CountInv'
<1>1. ASSUME NEW v \in Workflows, TriggerEnqueues(g, v) PROVE CountInv'
    <2>1. OnlyMoves(g) /\ pc'[g] = "reading" /\ cur'[g] = v /\ UNCHANGED row
        BY <1>1, AwaitMoves DEF TriggerEnqueues
    <2>2. ASSUME NEW w \in Workflows PROVE RowsMove(g, w)
        <3>1. row[w].count \in Nat /\ row'[w] = row[w]
            BY <2>1, RowCount DEF TypeInv, ScheduleTypeOK
        <3>2. CASE w = v
            BY <1>1, <3>1, <3>2 DEF TriggerEnqueues, RowsMove, TypeInv, ScheduleTypeOK
        <3>3. CASE w # v
            BY <1>1, <2>1, <3>1, <3>3
               DEF TriggerEnqueues, RowsMove, Pending, TypeInv, ScheduleTypeOK
        <3> QED BY <3>2, <3>3
    <2>3. CopyCounts(g)'
        BY <2>1 DEF CopyCounts, Writing
    <2> QED BY <2>1, <2>2, <2>3, CountStep
<1>2. CASE TriggerReads(g) /\ Advance(g)
    <2>1. OnlyMoves(g) /\ pc'[g] = "next" /\ UNCHANGED <<row, enqueued>>
        BY <1>2, AwaitMoves DEF TriggerReads, Advance, histVars
    <2> QED BY <2>1, LeavesCount DEF Pending, Writing
<1>3. CASE /\ TriggerReads(g) /\ HasRow(cur[g])
           /\ Await(g, "recording", cur[g],
                    Recorded([row[cur[g]] EXCEPT !.next = NextRun[plan[g][cur[g]].cron][now]]), 0)
    <2>1. /\ pc[g] = "reading" /\ cur[g] \in Workflows /\ row[cur[g]] \in ProperRow
          /\ UNCHANGED <<row, enqueued>>
        BY <1>3, RowIsProper
           DEF TriggerReads, HasRow, histVars, TypeInv, ScheduleTypeOK, HoldingInv, Holding
    <2>2. /\ OnlyMoves(g) /\ pc'[g] = "recording" /\ cur'[g] = cur[g]
          /\ copy'[g] = Recorded([row[cur[g]] EXCEPT !.next = NextRun[plan[g][cur[g]].cron][now]])
        BY <1>3, AwaitMoves
    <2>3. \A w \in Workflows : RowsMove(g, w)
        BY <2>1, <2>2, RowCount DEF RowsMove, Pending, TypeInv, ScheduleTypeOK
    <2>4. CopyCounts(g)'
        <3> SUFFICES ASSUME NEW w \in Workflows, cur[g] = w
                     PROVE  copy'[g].count + Cardinality(Pending(w)' \ {g}) <= enqueued'[w]
            BY <2>2 DEF CopyCounts
        <3>0. g \in Pending(w)
            BY <2>1, <2>2 DEF Pending
        <3>a. /\ Cardinality(Pending(w) \ {g}) \in Nat
              /\ Cardinality(Pending(w)) = Cardinality(Pending(w) \ {g}) + 1
              /\ Cardinality(Pending(w)' \ {g}) = Cardinality(Pending(w) \ {g})
            BY <2>2, <3>0, PendingStep
        <3>1. PICK n \in Nat : n = Cardinality(Pending(w)' \ {g}) /\ Cardinality(Pending(w)) = n + 1
            BY <3>a
        <3>2. row[w].count + (n + 1) <= enqueued[w]
            BY <3>1 DEF CountInv, RowsCount
        <3>3. copy'[g].count = row[w].count + 1 /\ row[w].count \in Nat
            BY <2>1, <2>2 DEF Recorded, ProperRow
        <3>4. enqueued[w] \in Nat /\ enqueued'[w] = enqueued[w]
            BY <2>1 DEF TypeInv, ScheduleTypeOK
        <3> QED BY <3>1, <3>2, <3>3, <3>4
    <2> QED BY <2>2, <2>3, <2>4, CountStep
<1> QED BY <1>1, <1>2, <1>3 DEF TriggerReads

LEMMA OtherStepsCount ==
    ASSUME TypeInv, TypeInv', CountInv, NEW p \in Processes,
           \/ BeginScan(p) \/ DeleteInvalid(p) \/ ClaimRefused(p) \/ EndScan(p)
           \/ RequestFails(p) \/ Crash(p)
    PROVE  CountInv'
<1>1. UNCHANGED enqueued /\ \A w \in Workflows : row'[w] = row[w] \/ row'[w] = NoRow
    BY DEF BeginScan, DeleteInvalid, ClaimRefused, EndScan, RequestFails, Crash, histVars,
           TypeInv, ScheduleTypeOK
<1>2. OnlyMoves(p) /\ pc'[p] \in {"next", "idle", "stopped"}
    <2>1. CASE BeginScan(p)
        BY <2>1 DEF BeginScan, OnlyMoves, TypeInv, ScheduleTypeOK
    <2>2. CASE \E step \in {"next", "idle", "stopped"} : Await(p, step, NoWorkflow, NoRow, 0)
        BY <2>2, AwaitMoves
    <2> QED BY <2>1, <2>2
            DEF DeleteInvalid, ClaimRefused, EndScan, RequestFails, Crash, Advance, End
<1> QED BY <1>1, <1>2, LeavesCount DEF Pending, Writing

LEMMA CountInit == ScheduleInit => CountInv
<1> SUFFICES ASSUME ScheduleInit PROVE CountInv
    OBVIOUS
<1>1. ASSUME NEW w \in Workflows PROVE RowsCount(w)
    <2>1. Pending(w) = {}
        BY DEF ScheduleInit, Pending
    <2> QED BY <2>1, FS_EmptySet DEF ScheduleInit, RowsCount, NoRow
<1>2. ASSUME NEW p \in Processes PROVE CopyCounts(p)
    BY DEF ScheduleInit, CopyCounts, Writing
<1> QED BY <1>1, <1>2 DEF CountInv

LEMMA CountNext ==
    TypeInv /\ TypeInv' /\ CountInv /\ [ScheduleNext]_scheduleVars => CountInv'
<1> SUFFICES ASSUME TypeInv, TypeInv', CountInv, [ScheduleNext]_scheduleVars PROVE CountInv'
    OBVIOUS
<1> USE DEF Processes
<1>1. ASSUME NEW t \in Timers, BeginScan(t) \/ TimerStep(t) PROVE CountInv'
    BY <1>1, TimerReadsCount, WritesCount, EnqueueCount, OtherStepsCount DEF TimerStep
<1>2. ASSUME NEW m \in Runners, BeginScan(m) \/ RequestStep(m) PROVE CountInv'
    BY <1>2, RunnerReadsCount, TriggerCount, EnqueueCount, WritesCount, OtherStepsCount
       DEF RequestStep
<1>3. ASSUME NEW g \in Triggers, (\E w \in Workflows : TriggerEnqueues(g, w)) \/ RequestStep(g)
      PROVE  CountInv'
    <2>1. CASE \E w \in Workflows : TriggerEnqueues(g, w)
        BY <2>1, TriggerCount
    <2>2. CASE \E w \in Workflows : RunnerReads(g, w)
        BY <2>2, RunnerReadsCount DEF RunnerReads
    <2>3. CASE RequestStep(g) /\ ~\E w \in Workflows : RunnerReads(g, w)
        BY <2>3, TriggerCount, EnqueueCount, WritesCount, OtherStepsCount DEF RequestStep
    <2> QED BY <1>3, <2>1, <2>2, <2>3
<1>4. ASSUME NEW p \in Processes, RequestFails(p) \/ Crash(p) PROVE CountInv'
    BY <1>4, OtherStepsCount
<1>5. CASE Tick \/ (\E w \in Workflows : Edit(w)) \/ UNCHANGED scheduleVars
    <2>1. UNCHANGED <<row, enqueued, pc, cur, copy>>
        BY <1>5 DEF Tick, Edit, scheduleVars, localVars, histVars
    <2>2. \A w : Pending(w)' = Pending(w)
        BY <2>1 DEF Pending
    <2> QED BY <2>1, <2>2 DEF CountInv, RowsCount, CopyCounts, Writing
<1> QED BY <1>1, <1>2, <1>3, <1>4, <1>5 DEF ScheduleNext

\* The count a schedule shows never exceeds the executions enqueued for it, for any
\* number of timers and requests whose blind writes overlap, fail or die.
THEOREM CountNeverOverstatesAlways == ScheduleSpec => []CountNeverOverstates
<1>1. ScheduleInit => TypeInv /\ CountInv
    BY TypeInit, CountInit
<1>2. (TypeInv /\ CountInv) /\ [ScheduleNext]_scheduleVars => (TypeInv /\ CountInv)'
    BY TypeStep, CountNext
<1>3. TypeInv /\ CountInv => CountNeverOverstates
    <2> SUFFICES ASSUME TypeInv, CountInv, NEW w \in Workflows PROVE row[w].count <= enqueued[w]
        BY DEF CountNeverOverstates
    <2>1. row[w].count \in Nat /\ enqueued[w] \in Nat /\ Cardinality(Pending(w)) \in Nat
        BY RowCount, PendingFinite DEF TypeInv, ScheduleTypeOK
    <2>2. row[w].count + Cardinality(Pending(w)) <= enqueued[w]
        BY DEF CountInv, RowsCount
    <2> QED BY <2>1, <2>2
<1> QED BY <1>1, <1>2, <1>3, PTL DEF ScheduleSpec
=============================================================================
