# Bifrost API: a TLA+ verification project

Bifrost runs Python workflows for the organizations of a service provider. An HTTP
API on Azure Functions accepts requests, an Azure storage queue carries the long ones
to workers, timers schedule and clean up, and Table Storage keeps everything. No table
write spans two rows, no lock spans two requests, and every `await` may be the last
thing a process does. This project models the parts whose correctness hangs on that,
checks them with TLC on small instances, and proves what matters most with TLAPS.

Paths are relative to the repository. `PROJECT.json` maps every definition to the lines
it stands for.

## 1. The system

| Component | State | Operations | What is hard |
|---|---|---|---|
| Execution rows and results (`shared/repositories/executions.py`, `execution_logger.py`, `blob_storage.py`) | a primary row per execution, three display index rows, a status row per active status; blobs of results and variables | create, update, read, list by page | five rows and three blobs, written one by one, by any caller, no transaction |
| Queued executions (`functions/queue/worker.py`, `async_executor.py`, `workflows_handlers.py`, `poison_queue_handler.py`, `execution_cleanup.py`, `executions_handlers.py`) | the above, the queue message and its dequeue count, the engine task | submit, run synchronously, work, cancel, clean up, bury | redelivery, deaths, cancels that race the worker, a cleanup that acts on what it read earlier |
| Schedules (`schedule_processor.py`, `schedules_handlers.py`, `cron_parser.py`) | a row per scheduled workflow, its ETag | timer run, process-due request, trigger request | one ETag-guarded write among blind upserts; enqueue and row are not atomic |
| Engine (`shared/engine.py`) | stdout, trace function, root handlers, `sys.modules['logging']`, data provider cache | execute, cancel a task | process-wide state saved and put back by executions that need not nest |
| Discovery (`shared/discovery.py`, `import_restrictor.py`, `endpoints_handlers.py`) | the workspace's modules in `sys.modules`, `.pyc` files | scan, load, validate, call an endpoint | files change between the reads of one scan; stale modules |
| Users (`user_provisioning.py`, `repositories/users.py`, `organizations.py`) | a user row, two relationship rows per membership | login, promote, demote, change of e-mail | first-user race, half-written pairs of rows |
| OAuth (`oauth_storage_service.py`, `oauth_handlers.py`, refresh timer) | the connection row, two Key Vault secrets | create, authorize, callback, cancel, refresh, delete | stale copies upserted, rotated refresh tokens, stuck intermediate states |
| Roles, organizations, visibility (`repositories/roles.py`, `roles_handlers.py`, `organizations_handlers.py`, `authorization.py`) | role and organization rows, assignment rows | CRUD, assignment in batches, list a user's forms | rows written back whole, lists made of many reads |
| Configuration, secrets, workflow keys (`config_resolver.py`, `org_config_handlers.py`, `secrets_handlers.py`, `workflow_keys.py`) | Config rows, Key Vault | get with fallback to GLOBAL, set, delete; create, validate, revoke | two stores per secret, a validation that writes the row back |
| Git synchronization (`git_integration_service.py`, `github_integration.py`, `git_sync_worker.py`) | the workspace directory, refs, index, MERGE_HEAD, GitHub | configure, pull, push, commit, resolve, discard, sync jobs | several hosts, one directory, no lock; many files per operation |
| Form files, editor, packages (`forms_file.py`, `file_operations.py`, `editor_files.py`, `package_manager.py`) | files, temporary files, `requirements.txt`, `.packages` | save, rename, delete, update a form, install | check and write are apart; truncation before the write; retried installs |
| Context, authentication | one request | authenticate, resolve the organization | decisions on headers and rows |
| Logs, audit, live updates | append-only rows, messages | append, broadcast | ordering; nothing else reads them |
| Views (branding, health, metrics, OpenAPI), SDK | - | reads, single writes | - |

How they meet: the scheduler and the HTTP handlers call `enqueue_workflow_execution`,
which creates the rows and sends the message; the worker reads the message, updates the
rows and starts the engine; the cancel request and the worker communicate through the
row's status only; the cleanup timer and the poison handler are the last writers. All of
them go through `ExecutionRepository`. The engine loads the function through discovery, which
reads the files that editor, git and package installs write. The other components touch an
execution only by reading users, configuration and keys before it starts.

What makes each component right:

* **Execution rows**: the indexes agree with the primary row whenever calls neither
  overlap nor break off; no index row without a primary row; a success that can be seen has
  its result, and a result that can be read stays; a list shows each execution once.
* **Queued executions**: a message is never lost before its execution is decided; a body
  that is watched runs only under a record that says so; a final execution stays final and a
  cancel is not undone by the worker; every created execution ends.
* **Schedules**: a slot is run by one timer; the count is honest; every schedule gets
  in step with the workspace whatever failed before.
* **Engine**: an execution's record holds its own logs; an idle process is clean.
  **Discovery**: a run executes what the files held when its load began, or later, with two
  exceptions; a file that stayed is found.
* **Users**: the two rows of a membership agree; a user never loses both; a first
  administrator exists and is one. **OAuth**: "completed" implies tokens in Key Vault,
  of the client the row names; a kept refresh token is one the provider accepts.
* **Access**: a change of a row stays; a list of forms is of one moment; a batch is
  refused or done as a whole. **Configuration**: what was set can be read; a read is of one
  moment; a revocation stays.
* **Workspace**: what counts as pushed is on GitHub; no commit, saved file, form field or
  requirement is lost; what is listed as a requirement is installed.

## 2. Plan

Done, in this order: `ExecutionRepository` and `AsyncExecution`, which both implement the abstract
specification `ExecutionTable`;
`ScheduleProcessor`; `UserProvisioning`; `OAuthConnections`; `GitWorkspace`; `WorkspaceFiles`;
`EngineProcess`; `ConfigStore`; `AccessControl`; `ExecutionResults`, which composes the
repository with the blobs; `CodeDiscovery`.

Left:

1. Algorithms against reference definitions: the rounding in `cron_parser.py`, the diff of
   `sdk_usage_scanner.py`.
2. What section 8 lists as left out of a modelled component.

Every safety property that a run checks has a theorem; liveness stays with TLC (section 6).

There is one run per module, two for `AsyncExecution` (safety, liveness); disagreements between
code and documentation are told in section 7.

## 3. Modules

### ExecutionRepository

`shared/repositories/executions.py`. `primary`, `completedAt`, `display`, `statusRows` are
the tables; `call[c]` is where caller `c` is inside `create_execution` or
`update_execution`. One action per storage request: `InsertPrimary`, `InsertIndexes`
(the `gather` of the index inserts), `QueryPrimary`, `WritePrimary` (the blind merge),
`WriteDisplay`, `DeleteOldRow`, `InsertNewRow`. `StorageFault` is a request that raises, with the code's own
reaction at each place. On the primary row the exception goes to the caller, from a request that failed before it took
effect (`PrimaryFault`) or whose answer was lost (`InsertAnswerLost`, `MergeAnswerLost`); of the parallel index inserts of a
creation some may be done (`IndexInsertFault`); the index faults of an update are logged (`IndexUpdateFault`). `AbandonCall` is a caller that dies or takes the result.
`disturbed` is a history variable: executions on which calls overlapped or broke off.
The three display rows have one value because one `gather` writes the same fields to them.

`ExecutionTable` is what it promises: a table from executions to statuses on which a call takes effect at
most once, between its beginning and its end; one that returns has taken effect; of one that raises nothing is
known, but an update raises at the moment it takes effect (`TakeEffectUntold`) or before, never later: no fault of an index
row makes it look failed. `Requested` is the refinement mapping: the table is the primary row,
a call has taken effect once it wrote that row.

### AsyncExecution

Extends the repository; its processes are the repository's callers. `pc` is the await a
handler is at, so a step runs from one await to the next: it takes the result of one
repository call and begins another. Requests submit (`SubmitRun` ... `SendMessage`, or the
synchronous `SyncStart` ... `SyncAnswer`), a worker goes `Dequeue`, `CheckCancelled`,
`StartTask`, `PollEnds`, `RecordResult`, `Acknowledge` or `Except`, `Release`; the poison
handler `Bury`, `Buried`; a cancel `Cancel`, `CancelAnswer`; a cleanup `StartCleanup`,
`Scan`, `CleanNext`, `CleanupEnds`. The queue is external and modelled as `host.json`
configures it: a lease, `MaxDequeue` deliveries, a poison queue. `age` counts the time since
`StartedAt` in cleanup thresholds; a task that outlives its worker's poll loop becomes an
orphan (`worker.py:248`), a body that runs on and that nobody watches. `orphans` keeps them; they end when their body does
or their process dies.

### ExecutionResults

Extends the repository by what an update carries besides the status: `inline[e]` is the `Result` column,
`inBlob[e]` `ResultInBlob`, `blob[e]` the three result files and the variables. A caller of the logger goes
`RecordRun` (a run's result with its status) or `RecordStatus`, `UploadResult`, `UploadVariables`, and then
`CallUpdate` hands over to the repository's own actions, of which `ReadForUpdate` and `WriteResult` carry the
columns (`WriteRow` is the rest, by the repository's name). `UploadFails` and `RowFault` are the two ways it breaks off.
A reader goes `ReadRow`, `ReadVariables`, `ReadBlob` through the kinds json, html, txt, the order of `get_result`; a read of a blob that fails
is passed over like a blob that is not there, and `reading[r].failed` remembers that it did. `record[c]` holds
the logger's local variables. A client pages by `BeginListing`, `Page`: a request per page, filters applied to the page and not to the
query; `listing[r].listed` counts how often each execution was shown. Runs are numbers with a kind of result,
`Large` and `Empty` ones among them.

### ScheduleProcessor

`functions/timer/schedule_processor.py` and two requests of `schedules_handlers.py`. `row[w]`
is the Config row, `copy[p]` what process `p` read of it, `fresh[p]` whether its ETag is
still the row's. `Claim` needs it, `Upsert` (used by `Initialize`, `Rename`, `Record`) does
not. `code` is the workspace's decorators, which `Edit` changes. Time is counted in the
five-minute intervals `round_to_next_timer_interval` rounds to; `calculate_next_run` is the
constant `NextRun`, of which only "later than now" is assumed. `disturbed` holds the
workflows whose row was overwritten by a stale copy or with an old clock.

### EngineProcess

`engine.py`, the executions of one process (`Tasks`). `stdout`, `trace`, `handlers`, `logging` are the process-wide
places; `saved[e]` what `e` found there. A step is what one execution does up to its next await: `Start`
(installs, first turn), `Resume`, then `Return`, `Raise`, `RaiseTypeError` or `CancelTask` with `Restore`, the finally
clauses. `Frame` and `Tracer` say whose variables a chained trace function takes, `Logged` whose handlers a record
reaches. `ServeCached`, `Expire` are the data provider cache, `Recycle` a restart. Histories: `crossed` (executions ended out
of order), `met` (who ran meanwhile), `missed` (what of its own is not in a record).

### CodeDiscovery

`discovery.py` in one process. `text[f]` is the history of a file, whose last element is on disk; `imported`, `internals` are
`sys.modules`; `pyc` the helper's bytecode file. A load (`job`) goes `Begin`, `ListDirectory`, per file `RunFile` (`Clear`, `ReadFile`,
`Imports`, then `After`), `RunOut`; it has no await, so one load at a time, but files are saved between its reads (`SaveFile`). `Importable`
and `Permitted` are the import rule. `Cleared` is what goes before each file: all `.pyc` files but one that cannot be
deleted (`left`, remembered in `kept`), and the modules but those of a directory without `__init__.py`, which keeps the helper as its
member (`cache.member`). A file imports the helper from `sys.modules` or as that member (`Styles`). `Validate` imports a temporary
file, or the workspace's own, and leaves behind what it imports. What was loaded runs later: `ImportLate`, `UseInternal`, `End`.
A synchronous endpoint goes `CreateRow`, `CallEnds`, `RecordReturn`, `RecordRaise`; `Writes` is a storage request that may fail before or
after it wrote. `Setting.hasty` lets a save fall into the second of the one before, where a `.pyc` matches a source it was not made from.

### UserProvisioning

`user_provisioning.py`, `repositories/users.py` and the user handlers of
`permissions_handlers.py`. `users` is the row per e-mail address, `forward` and `reverse`
the two rows of a membership, `active` the organizations with `IsActive`. `pc[p]` names the
storage request that login or operator `p` awaits, `job[p]` holds its local variables. A
login goes `BeginLogin` (by Entra id), then `ReadProfile` ... `DeleteOld` and the move of the
membership where the address changed, or `FindByEmail`, `ReadToBackfill`; then `ReadToStamp`,
`LookForOrg`, `MatchDomain`; an unknown user goes `AnyUsers`, `MatchDomain`, `Create`. `Assign` and
`Mirror` are `assign_user_to_org`; `Conflict` is an insert that finds its key or an update that
misses it. `Store` is `update_entity`, a merge. Histories: `overlapped` holds the addresses on which
requests for one address or of one person worked at the same time, `disturbed` those and the ones where a
request broke off between two writes that belong together. Addresses and organizations are
numbers, in the order of their row keys, because the code takes the first row of a query.

### OAuthConnections

`oauth_storage_service.py`, `oauth_provider.py` and `oauth_handlers.py`, for one connection name.
`rows[s]` is the Config row in the partition of an organization or of GLOBAL, `vault` the Key
Vault secrets by name, `issued`, `holder`, `usable` and `codes` the provider. `pc[p]` names the
request to the table, to Key Vault or to the provider that `p` awaits; `job[p].connection` is
the row that `get_connection` returned and is still used, `job[p].copy` the row about to be
written back. Creation goes `SetClientSecret`, `Insert`; a change `ReadToUpdate`, `ChangeSecret`,
`WriteUpdate`; a deletion `ReadToDelete`, `RemoveSecret`, `RemoveResponse`, `RemoveRow`; a status goes
`ReadStatus`, `MarkStatus` (`update_connection_status`, the first thing of authorize, cancel and
callback); getting tokens goes `Find`, `FetchSecret`, `FetchResponse`, `Answer` or `Refuse`, then
`store_tokens`: `ReadToStore`, `KeepTokens`, `Complete`. `BeginSweep` is the refresh job, by the
timer or by hand. `Merged` is `upsert_entity`: a merge that brings back a deleted row and never takes
a column away. The provider is external: it issues numbered tokens, spends codes and, where the
setting says so, rotates refresh tokens. `Abandon` is an exception, with the code's own reaction.
The query of `get_connection` for the organization's row and the one for GLOBAL's are one step, the
job status row and lists are left out, and a new secret name is one that nothing refers to.
Histories: `disturbed` (requests overlapped or broke off), `lostTokens` (an issued token was never
stored, or a first answer was stored while the connection had its tokens under another name), `deleted`
(a deletion has begun).

### AccessControl

`repositories/roles.py`, `organizations.py`, their handlers and `authorization.py`. `rows` are the roles and
organizations, `members[r]` and `grants[r]` the assignment rows. A row is changed by `ReadToWrite`, `WriteRow`
(read and written back as a whole), made by `Create`, removed by `DeleteOrganization`. `AssignUsers` and `AssignForms` begin a
batch, `CheckUser` reads its users one by one, `Insert` inserts row by row. `List` takes the active forms, `ReadRoles`
the user's roles, `CheckForm` each form's roles, `Return` answers. `due` is what each row was last set to, `seen[p]` what
could be seen at the moments of `p`'s list.

### ConfigStore

One configuration key in an organization's partition and in GLOBAL, with Key Vault. `SetSecret`,
`StoreSecret`, `PointRow` are a set with a value to be kept secret; `SetPlain`, `SetRef`, `DeleteRow`, `CreateSecret`,
`Created`, `UpdateSecret`, `DeleteSecret`, `RemoveSecret` the other requests; a read goes `Get`, `FallBack`, `Resolve`.
A workflow key goes `CreateKey`, `Revoke`, `WriteRevoked`, `Validate`, `Touch`. `vault` distinguishes a name it never had from a
soft-deleted one. `due[s]` is what the row of a partition may stand for, `seen[p]` what the key stood for during `p`'s read,
`sealed` the keys revoked while no validation was under way.

### GitWorkspace

`git_integration_service.py` and its requests: `graph` the commits, `github` the branch there, `local`,
`tracking`, `index`, `work`, `mergeHead` the repository and its directory, `config` the row, `queue` the sync jobs. A pull goes
`StartPull`, `Inspect` (conflicts there), `ForgetMerge` (the unlink), `PullFetch`, then `FastForward`, `Checkout`, or `StageMerge`,
`WriteMergeHead`, or `AnnounceConflicts`, `RecordConflicts`, `WriteMarkers`: one step from one point where another host can
interfere to the next. A push goes `StartPush` or `SyncChecks`, `ReadRefs`, `Send` (porcelain.push reads the branch
again), `NotePush`; a commit `StageAll`, `CommitStaged`, `EndMerge`. `ResolveConflict`, `DiscardCommit`, `DiscardUnpushed`, `Configure`, `Clone` are requests of their own; a worker's
job is a pull and then a push. What Dulwich does (statuses, three-way merge, materializing a tree) is external and
defined over one-line files. `SaveFile` is the editor, `UpstreamCommit` somebody else's push, `Crash` and `CallFails` break off. Histories:
`touched` holds the files that are the user's own (saved, in conflict, or staged by a merge that a pull then forgot), `skipped` those a
pull left out, `overlapped` says whether requests overlapped, `broken` whether one broke off between two writes that belong together
(`disturbed` is either), `retracted` whether a push sent a branch without the commit that it had read.

### WorkspaceFiles

A file is a node that names refer to: `names` (the file, its temporary name, the archive or
rename target and its temporary name), `data[n]`, where `Cut` is the state between truncation and write. A form and
`requirements.txt` are both functions from entries to values. Editor: `View`, `Save`, `CheckExists`, `Compare`, `OpenFile`,
`WriteFile`, `Overwrite`, `Delete`, `Rename`. Forms: `Create`, `OpenForm`, `WriteForm`; `Update`, `Find`, `Load`, `OpenTemp`, `WriteTemp`,
`Replace`; `Archive`, `Move`. Installs: `Enqueue`, `Take`, `ListInstalled`, `CopyPackage`, `ReadList`, `OpenList`, `WriteList`, or
`ReadRequirements`, `CopyAll`; `PutBack` and `Acknowledge` are the queue's. `due` is what each entry was last set to, `mixed` whether calls
overlapped since nobody was at work.

### MC modules and proofs

`MC*` modules give constants their values. `*_proofs` hold the theorems. `QueueInv`, `GitInv`, `FilesInv`, `EngineInv`, `ConfigInv`,
`AccessInv`, `TokensFit` and `UsersConsistent` are conjunctions of named invariants, stated at the end of their module, which the runs check together.

## 4. Runs

| Run | Instance | Shows |
|---|---|---|
| `results` | 2 callers on 1 execution and 3 statuses with faults before and after the effect and deaths anywhere; 2 callers that record runs, and a reader, whose reads may fail, beside 2 with a large result or 1 with another; a client paging through 3 executions | the row invariants in every interleaving; the repository implements `ExecutionTable`; a success seen is complete but for reads that failed, results stay, lists show each execution once |
| `queued_execution` | a request with two of a worker, a cancel and a cleanup timer; 2 deaths, 2 faults before or after the effect, 2 deliveries | what left the queue is decided; bodies run visibly; what is final stays so and what is cancelled is not undone, but for the named ways |
| `settled_execution` | {request, worker, poison, timer}, {request, cancel, timer}, {request, timer, manual cleanup}; 3 deaths | every created execution ends final and stays so |
| `schedules` | 2 timers; timer and process-due; timer and trigger; 3 intervals, 1 edit, 1 failure | exclusive claims, honest count, catching up |
| `users` | 2 logins undisturbed; a login and an operator with 1 failure, death or change of `IsActive`; 3 addresses, 2 organizations | rows and memberships in step, roles changed by operators only, memberships repaired |
| `oauth` | 12 settings: pairs of administrators whose requests overlap, one who makes any sequence of requests, one beside the timer, one beside an organization's; 1-2 clients, 1-2 tokens, 1 disruption where one process works | a completed connection has its tokens, the kept refresh token is accepted, row and tokens agree, exchanges end, what expires is refreshed |
| `git` | a request and a worker, 2 files, 4 sets of duties (in one a sync beside commits, resolutions and discards), 4 commits, 1 save, 1 break | pushed means on GitHub, conflicts belong to a merge, commits stay, the branch follows GitHub |
| `files` | 2 requests and 2 installs on one file of 2 entries, 5 scenes, 3 calls, 2 breaks, 2 deliveries | changes stay, what is listed is installed |
| `engine` | 3 executions, 3 mixes of kinds, 1 further turn each, 1 restart | own logs kept, idle process clean, records isolated |
| `config` | 3 callers, 2 values, 1 chosen and 2 generated secret names, 2 keys, 4 calls, 1 break | what was set stays, a read is of one moment, revocations stay |
| `access` | 3 requests, 1 role, 1 organization, 2 users, 2 forms, 5 calls, 1 break | changes of rows stay, lists are of one moment, batches are whole |
| `discovery` | 2 requests, 3 files in 2 directories, 13 settings, in 2 of which a `.pyc` may resist deletion and in 2 the helper's directory has no `__init__.py`; 2 saves, 1 fault, 1 restart | code is fresh, what stayed is found, an endpoint answers with the row's status |

Bounds. One execution and one workflow are enough because processes touch no other
execution's rows (the theorems below are for any number). Two deliveries give a first
attempt, a retry and the move to the poison queue. The cleanup thresholds are ordered as in
the code (cancelling < pending < running) and each is reachable. Three intervals let a slot
be due, claimed and due again while another process still holds the first. The two logins of `users` run without
disruptions (`Calm`): with a failure, death or change of `IsActive` as well the state space is beyond a few minutes of TLC. Of the two persons one keeps her address and the other moves to and fro between two, in the domains of
different organizations, so that a login meets its own old row on either side of the new one;
logins repeat, an operator acts once. `Settings` of `oauth` lists installations and the duties of
each process; `Init` picks one. Three tokens let one be issued, rotated and rotated again; six secret
names are more than two rows and two processes can refer to at once. `Scenarios`
lists the sets of processes that run together: `Init` picks one, so that a run covers several
small teams instead of their product; all liveness with worker, cancel and timer together is
beyond a few minutes of TLC. `MaxCrashes`, `MaxFaults`, `MaxFailures`, `MaxDisruptions`, `MaxEdits`, `MaxTime` bound
what would otherwise repeat for ever; a run of failures that never ends would refute any liveness.

Four commits of `git` allow a commit on each side, their merge and one after it; two files are needed to tell a
conflicting from a merging file. A merge that is staged, forgotten and then overtaken by a commit on GitHub needs five or six, which
the theorems below cover; instances of five commits with fewer duties were run for them too. Two entries of `files` tell a lost change from a kept one. Three executions of `engine` are the
least that end out of order while one goes on. A value that is set, overwritten, read and deleted is
four calls of `config`; an assignment list with a role created, a batch, a removal and a list is five of `access`. Two saves of
`discovery` break or replace two files, or one and its helper, during one load. In these modules a scene, a job, a set of duties or a setting, which
`Init` picks, says what is asked for in one behaviour.

`CHECK_DEADLOCK FALSE` stands where a one-shot request may be all that was left to do, or
time has reached its bound.

## 5. Fairness

`AsyncExecution`: weak fairness of every handler that can go on (asyncio resumes it), of the
host's delivery of visible and poison messages, of the cleanup timer and of time. Nothing is
assumed of workflow bodies: they may run for ever, synchronously or not; nobody has to submit
or cancel. `ScheduleProcessor`: the host fires the timer again and again and resumes what it
started; a manual request that was sent goes on. Weak fairness is enough, because a timer
whose claim was refused comes back with a new ETag. `UserProvisioning`: a request in progress goes on;
nobody has to log in, so `LoginsRepairMembership` has the repeated logins as its premise.
`OAuthConnections`: a request in progress goes on and the timer fires again and again; nobody has to
authorize, and time need not pass. Processes marked mortal die within
their bound only.

## 6. Proofs

Assumptions are the named ASSUMEs of the modules: roles are disjoint, bounds are naturals,
the next run of a valid expression is later than its base, settings are of type `Setting`.

* `AsyncExecution_proofs`, on `ExecutionRepository`: `StoreTypeCorrect`; `NoDanglingIndexEver`;
  `FinalDisplayIsCompletedAlways`; `IndexesMirrorPrimaryAlways`. The mirror property is not
  inductive: the strengthening says, for an execution with exactly one undisturbed call, what
  the rows look like at each step of that call (old row still there, both gone, new row in).
  `ImplementsTable`, from the same invariant: each step is a step of `ExecutionTable` under the mapping, or a stutter.
  `ExecutionsMirrored` and `ExecutionsImplementTable` carry the mirror property and the table over to the composed system, whose
  processes are callers of the repository.
* `AsyncExecution_proofs`, on the queue: `QueueTypeCorrect`, `AcknowledgedIsDecidedAlways`, `RunsVisiblyAlways`, `FinalStaysAlways` and
  `CancelHoldsAlways`, for any number of executions and of every kind of process, from `ProcessesInv` and `BodiesInv`. The first says for each
  kind of process what it may assume at each await: a busy worker or poison handler holds the message of its execution alone
  (`SoleOwner`), a request works on what nobody has queued yet, only the worker about to start writes Running, everybody
  else writes a final status or Cancelling, a body that is watched is shown as running unless a cleanup gave it up (`ShownRunning`),
  and a worker that has written on its way out leaves a decided record behind. A step of one process then keeps what the others know
  because the records they hold are not its own (`HandlerStep`), and a write of a cancel or cleanup, the only calls that overlap a worker's,
  does not contradict it. `BodiesInv` says of a body that nobody watches that its execution has been shown as started, and that another
  attempt before its own start means a further delivery. `AcknowledgedIsDecidedAlways` has a hypothesis, which the run satisfies: no poison handler
  where storage requests may fail (`PoisonReliable`: the handler deletes the message even if its update failed).
* `AsyncExecution_proofs`, on the results: `SuccessIsCompleteAlways`, `ListsEachOnceAlways`, `ResultsStayAlways`,
  all from `ResultsInvariant`, which contains the repository's invariant. `RunsInv` speaks of an execution for which one run at most was
  handed in: row, blobs, open calls and readers hold nothing but that run's, and all of it once the row says Success, because the
  uploads come before the row. `ListingInv` says that the pages shown so far have each row up to the token that matched all along,
  once; a page moves the token past all it has read. Assumed besides: finitely many executions, and only a run writes Success (in the
  code a status without a result is one of the others).
* `AsyncExecution_proofs`, on the engine: `EngineInvAlways`, `IsolatedAlways`, from `EngineInOrderAlways`. While executions end in the order of a
  stack, each found at its start what the one before it had installed (`Stacked`), so putting it back leaves the process as the others expect
  it; the own records of an execution are kept whatever the order.
* `ScheduleProcessor_proofs`: `ScheduleTypeCorrect`, from the invariant that a process about
  to write a row holds a workflow and a copy with a valid expression; `SlotRunsOnceAlways`. That no two timers
  hold a slot says nothing of the claims to come; the strengthening (`SlotInv`) says that every slot claimed or fired
  is past and lies before the row's next one (`Behind`), that a fresh copy about to be claimed takes that next one, and that
  what a process will write comes after its clock (`ReadInv`). A write moves a row back only late or over a newer one.
* `ScheduleProcessor_proofs`, on the counts: `CountNeverOverstatesAlways`. The strengthening counts what is still
  to come: a row's count, plus the processes that enqueued its workflow and have yet to record
  it, is at most the executions enqueued; and the same holds of the copy each process is about
  to write, without itself. Assumed besides: finitely many processes.
* `UserProvisioning_proofs`: `UsersTypeCorrect`, from what a request holds at each await (`JobOK`);
  `MembershipsMirrorAlways`. The property says nothing of an address somebody works on; the
  strengthening (`MirrorInv`) says that on an undisturbed address at most one request works, and
  that there the two rows agree too, except on the organization that request is at between its
  two writes. The library's well-founded order on the naturals gives a query its first row.
* `UserProvisioning_proofs`, on the rows and roles: `RolesMatchMembershipsAlways`, `OneRowPerPersonAlways`,
  `LoginsKeepAdminAlways`, together `UsersConsistentAlways`; `OperatorsChangeRolesAlways`. All rest on `UsersInv`. A step
  writes rows of its own addresses only (`OwnStep`), and requests that share an address or a person are noted, at
  all addresses of a request or at none (`MarksInv`); so where nobody overlaps, the copy a request holds is what the row still
  says (`CopyFits`), and where nothing broke off either the memberships are where the request expects them at its step
  (`StageFits`). Each action has a lemma of its own ("...Lands"). `PersonsInv`, for one row per person: two undisturbed rows of a person
  are the old and new one of a change of address between its two writes, and a login about to insert a row of its person
  knows that there is no undisturbed one. `AdminInv`, for the administrator, needs a count where requests overlap (`KeptInv`): the logins about to
  delete an overlapped row stand, one to one, for other such rows that stay, and one row is left over (`Spare`).
  The proof found `LoginsKeepAdmin` too strong as it was. With one person, three addresses and two logins TLC shows
  a login write back the role ORG, which it read before the other login deleted the administrator's row and inserted it anew; the
  property now excuses a row on which requests overlapped, which must still be there.
* `OAuthConnections_proofs`: `OAuthTypeCorrect`; `CompletedHasTokensAlways`. That a completed row
  refers to tokens is not inductive, because stale copies are written back and deletions overlap.
  The strengthening (`VaultInv`, `CompletedInv`) says: the names under which the row and the copies
  of one connection keep tokens are nobody else's, a name of a client secret never holds tokens,
  only a deletion that has begun takes tokens away, a copy that says completed refers to tokens, and
  a request that is to announce "completed" has a row with tokens to announce it in. Merging is what
  preserves it: an upsert never takes a reference away.
  `TokensFitAlways`, from `UsableInv` and `MatchInv` on top. `UsableInv` follows the refresh tokens: where they rotate no two
  secrets hold the same one and no two requests do; a request asks with the token of the secret its own connection names, and
  what it gets is nobody else's until it is kept (`JobFits`, `HeldApart`, `ConnectionsOwn`); and a connection keeps its tokens under
  one name, usable or about to be replaced (`KeptInv`). A token can then be spent only by a request of the connection that keeps it. `MatchInv`
  says what a request that nothing overlaps knows of its row at each step, so that the row fits again when it ends. A step
  after which a request holds no token is one case for all actions (`LightStep`). The proof found the statement too strong as
  it was: it held in the run only because two processes cannot store two first answers and still leave a third to write a stale name back.
* `ConfigStore_proofs`: `ConfigInvAlways`, `ReadsOneMomentAlways`, `RevokedStaysAlways`, all from `StoreInv`. `SetsStay` speaks
  of moments at which nobody is at work; `DueInv` says for every moment that a row stands for what is due, that two changes
  under way are noted as overlapping, and that one alone finds its secret in Key Vault when it writes the row. `ReadInv` says
  of a reader that what it reads next is among the values seen, before a second change, and before the first is what a lookup
  would take now. A revoked key stays so because no validation is left that would write it back.
* `AccessControl_proofs`: `AccessInvAlways`, `ListedAtOneMomentAlways`, both from `TablesInv`. `WriterOK`: a copy about to be
  written is the row but for its field, unless the row is marked as overlapped. `BatchInv`: what a batch has neither to do nor
  lost is assigned. `ListInv` follows the list that is coming (`Coming`): it is one the user could see until a second change,
  and one change moves it to the list before or the list after, since it touches the roles of one user, those of one form, or
  a form. Assumed besides: users and forms have different ids.

* `CodeDiscovery_proofs`: `DiscoveryInvariant`, `CodeIsFreshAlways`, `FindsWhatStayedAlways`, `AnsweredIsRecordedAlways`. The
  files' histories only grow, and every request has the window of versions that its load saw; the operators on histories
  and windows are constant, and their lemmas say what remains true of a window while files are saved. `LoadOK` says of the load in
  progress that a file which is neither being read nor still to come has been given, unless it changed; `CacheOK` that what is
  imported or in a `.pyc` is no older than the window of anybody, which is what clearing the modules before each file is for, except a `.pyc` whose
  deletion failed, which is of the same second as the source, and the member of a directory without `__init__.py`.
* `WorkspaceFiles_proofs`: `FilesInvariantAlways`, `FilesInvAlways`, `ChangesStayAlways`. `ChangesStay` speaks of
  moments at which nobody is at work. `MixedInv` says that calls overlap only while that is noted; `AloneOK`, of a call that works alone, what
  the file is at each of its steps: as is due until the call has opened it, then empty, or next to it the temporary file with the text to be. `InstallsInv` follows
  a package through an install: what is read, listed or about to be listed is installed. A step is then one of four, to go on, begin, end or
  rest (`Proceeds`), and `CallStep` is proved once for all of them. A free node exists by counting (`NodeLeft`). `MessagesInv` bounds the deliveries.
  Assumed besides: finitely many nodes and calls, which the model needs to have a node left.
* `WorkspaceFiles_proofs`, on git: `GitInvAlways`, `FollowsUpstreamAlways`, `CommitsStayAlways`, for any files, commits, requests and workers.
  `Reach`, what a commit descends from, is recursive over the numbers of commits; since the past of a commit is also the least set with it
  and the parents of its members (`ReachIsLine`, by the least number at which the two would differ), its laws need no induction over
  graphs, and a new commit changes nobody else's past (`NewCommit`). `WellFormed` (`GitWellFormed`) holds whatever overlaps or breaks off: every ref and
  every commit a request has read is in the graph, what is merged is on GitHub, what is tracked or about to be noted is so unless a push was
  overtaken (`retracted`), a busy worker holds a message. `CalmInv` (`GitCalm`) is for requests that do not overlap, wherever one dies: one
  process is at work, a conflict belongs to a merge, which is why a merge is announced before the index has its conflicts, and a pull
  moves the branch only to where it comes from. `CommitsStayAlways` and the conflicts of `GitInvAlways` follow from it. `OrderInv` (`GitOrdered`) is for requests that neither overlap nor break off half way (`disturbed`): no push was overtaken, what the branch shares with GitHub is one commit's past (`ShareOK`, so
  that there is one merge base, `TheMergeBase`); commits that have the same of GitHub have the same of every file that is not the
  user's own (`AgreeOK`); a merge in progress has all of GitHub that any commit here has (`TheirsOK`, `PullOK`); and index and
  directory go by the branch, or by the commit being merged (`WorkOK`). A three-way merge then takes GitHub's content of such a file
  (`MergeTakesTheirs`), and a fast forward moves to a descendant. The work on these proofs found `FollowsUpstream` too strong
  as it was: a pull forgets a merge that was staged but not committed, whose files then stand as changes of the user, and
  one that GitHub changes back meanwhile is never brought up to date. It takes five commits to show; the property now counts those
  files as the user's own. Assumed besides: finitely many requests and workers.

`ScheduleTypeCorrect` and `FinalDisplayIsCompletedAlways` are proved of invariants no run checks any
more, since the theorems hold for every instance.

Only model-checked: every liveness property (`Settles`, `CatchesUp`, `LoginsRepairMembership`, `ExchangeEnds`,
`ExpiringIsRefreshed`), because liveness under fairness is out of TLAPS's reach here. Every invariant, action property and refinement
that a run checks has a theorem.

## 7. Disagreements and known limits

None of these has a run of its own; the models do what the code does, and the properties above are stated so that they say
what does hold. `disturbed`, `overlapped`, `broken`, `retracted`, `mixed`, `crossed`, `kept` and `skipped` are the histories that mark the exceptions.

The three that bear on a property most:

* The comment "monitoring loop will wait for it" (`worker.py:247`) is not so where the loop is left by a cancel, a
  timeout or a status query that raises (257, 261, 284). The message is deleted and the execution reported, while a body that catches
  the cancellation, or was not cancelled, runs on. `RunsVisibly` says what remains true of such bodies: TLC refutes that their
  message is still in the queue (`\A t \in orphans : msg[t[2]] # "deleted"`).
* The comment "This ensures the local tracking ref reflects what's actually on GitHub" (`git_integration_service.py:917`) is not
  so when the commit is discarded between the read of the branch and that of porcelain.push: the push sends the branch without it and
  notes it as pushed. `GitInv` excepts this overlap alone (`retracted`); without the exception TLC refutes it.
* "Import a module guaranteeing fresh code" (`discovery.py:201`) is not so for a helper in a directory without
  `__init__.py` that is imported as the directory's member, a form `function_app.py:167` allows: modules without `__file__` are
  not cleared (181). `CodeIsFresh` leaves this out, and TLC refutes it otherwise.

Executions and schedules.

1. A cancel calls `get_execution` without the organization, so that of an organization's execution answers not
   found (`executions_handlers.py:376`, docstring 598).
2. The worker looks for CANCELLING only; an execution the cleanup already moved to CANCELLED is started
   (`worker.py:125`, comment 120).
3. The cleanup overwrites executions that ended after its scan (`execution_cleanup.py:121`, docstring 32).
4. The process-due request enqueues without a claim, beside the timer (`schedules_handlers.py:92`; comment
   `schedule_processor.py:164`).
5. Readers of results ignore `ResultInBlob`. A later status without a result leaves the earlier result shown; empty
   and false results are shown as none; files are looked up json, html, txt, so a retry whose result is of another
   kind shows the older one. Filters apply to a page after it was cut.
   A blob that cannot be read is shown as no result or no variables (`blob_storage.py:302`, 470).
6. A synchronous endpoint call that is killed leaves its row Running for the cleanup timer; the function runs
   without the engine there.
   A request or a cancel that dies between the two writes of a status row (`executions.py:338`) leaves an execution that no
   status query finds, so the cleanup does not either; the runs let these processes die, but where `Settles` is checked only workers
   and poison handlers. Index rows after calls that overlapped may name another status than the primary row. The update to Pending that
   follows a creation undoes a cancel in between (`async_executor.py:111`); `CancelHolds` and `FinalStays` name that request.

Users and access.

7. A change of address that died between its two writes leaves two rows of one person; every later login tries to
   insert the second one again and fails (`users.py:223`; `user_provisioning.py:60`, "idempotent and safe to call on
   every request"). A login that overlaps a demotion writes the old role back, and two logins can both be the first.
   Overlapping logins of the only administrator under changing addresses can leave her an ORG user.
8. `update_user_handler` and `delete_user_handler` compare `context.user_id` with an e-mail address; behind the real
   identity provider it is the provider's user id (`auth.py:165`), so the rule that nobody changes her own role does not apply.
9. `DELETE` of an organization says "Soft delete" and removes the row (`organizations_handlers.py:436`). A
   deleted role still grants access and can be assigned, a rename that overlaps its deletion revives it, a list of forms that more than one change overlaps may be of no moment, and assignments of
   users survive their deletion and promotion. `can_user_view_form` is called without `await` in `forms_handlers.py` (269, 435, 538,
   680), so its answer is never false. `get_user_forms_handler` queries rows that nothing writes.

OAuth, configuration, keys.

10. The callback writes the status "exchanging", which `OAuthStatus` does not know; when it dies there, no request can
    read the row any more, and it can be neither authorized again, changed nor deleted (`oauth_handlers.py:439`, `models.py:1549`;
    `specs/004-oauth-helper-for/spec.md:82`).
11. The SDK's `oauth.set_token` and `oauth.refresh_token` call the storage service with arguments it does not take;
    callback and refresh job look at GLOBAL connections only; a callback repeated with a spent code turns "completed"
    into "failed"; the deletion of a connection found under GLOBAL answers 204 and deletes nothing; a refused refresh leaves
    "completed" standing. Two requests that both store a first answer use two secret names; an update that read its copy in between brings the
    other name back, whose refresh token may be spent by then (`oauth_storage_service.py:486`).
12. A secret that a row names can be deleted: dependencies are looked for in all partitions, but by the type "SECRET_REF", while rows say
    "secret_ref" (`secrets_handlers.py:284`, `models.py:237`; docstring 347).
    Reading the key then fails. `set_config` of type `secret_ref` with a value overwrites the shared secret a user had named; two overlapping
    creations of a secret overwrite each other; a soft-deleted name refuses a set with a 500.
    A read that more than one change overlaps can answer with what the key never was.
13. A validation that overlaps a revocation undoes it ("This action cannot be undone", `workflow_keys_handlers.py:314`).

Workspace.

14. Discarding a merge leaves MERGE_HEAD, so the next commit still is the merge (`git_integration_service.py:1752`,
    745); a pull before the commit of a resolved merge forgets it (990): what it staged is then a
    change like the user's, and can take back what GitHub does to those files next. A pull with conflicts stages only the
    conflicting files, so the merge commit reverts GitHub's other changes (1246, comment 1252). Files that GitHub deleted stay in the directory. A
    clone that fails leaves the workspace in a backup the answer does not name (285); following GitHub with an existing repository makes no backup.
    Another host's pull can unlink MERGE_HEAD (993) between the write of it and that of the conflicts (1249, 1323): the conflicts are then without
    a merge.
15. A file is emptied before it is written: a death in between leaves it so. A form update that dies leaves its temporary
    file, and two updates share one name; two saves whose steps alternate pass the comparison of etags both.
16. Saving in the editor imports `reload_single_module` from `function_app` (`editor_files.py:256`), which has no such name: there is no hot reload.
    The import rule passes over frames outside the workspace, so an outer user frame counts (`import_restrictor.py:173`), and modules
    already in `sys.modules` never reach it: whether a file loads depends on what the process imported before. A `.pyc` that cannot be deleted is left
    (`discovery.py:164`), and runs in place of a source of the same size saved in the same second. Validating a file clears all modules of
    the workspace.
17. Executions that end out of order leave stdout and a trace function of a finished one installed, and later ones lose their variables, though
    `engine.py:191` says they are captured always; a TypeError raised by the function itself is re-raised without logs and variables (434). Of
    chained trace functions only the oldest records.

## 8. Not modelled

`PROJECT.json` lists every component with its reason. In short:

* the Azure SDK wrappers (one atomic fallible step each), the context of a request, reads and presentation,
  schemas and routing, logs, audit and live messages, which no decision reads; `registry.py`, `forms_registry.py` and `validators.py`, which nothing imports;
* of executions: the log blob and snapshots, the sequence numbers of logs, the arithmetic of dates;
* of the engine: the sending of logs and its threads, parameter injection, `ContextVar`, what scripts do to `sys.modules`;
* of discovery: several processes that share `.pyc` files, collisions of module names, nested directories and nested loads, files with a `_` in
  front, what the interpreter does beyond `sys.modules` and bytecode;
* of access: the visibility of one form or execution, the lists of administrators, the cache of `get_user_organization`;
* of configuration: integrations, listing, the length of secret names, the check for OAuth references;
* of git: listing and creating repositories, `analyze_workspace`, `abort_merge` (no route), the refresh job, a clone that is half copied;
* of files: search, ZIP and temporary files, directories, the execution of a form;
* of schedules: the arithmetic of cron expressions, of which only "later than now" is assumed.

A storage request that fails after it took effect is modelled in the repository of executions, in the calls on it, and in the
endpoint calls of `CodeDiscovery`. Elsewhere it is not distinguished from a death right after it, except where a death is impossible.

Steps that are one here and several in the code: what Dulwich does in one call (porcelain.push's own read and send, a reset), the fetch
of a pull with the reads that follow it, the rebuilding of index and directory (`Materialize`; `git_integration_service.py:1391`, 1423), the
reference and the reset of a discard. `get_conflicts` that returns none because it raised is left out. An endpoint's row is written by the call
alone in `CodeDiscovery`: a cancel or cleanup of it (`executions_handlers.py:632`) is in `AsyncExecution` only.
